--------------------------- MODULE FetchersProofs ---------------------------
(***************************************************************************)
(* Proofs about Fetchers and the HttpClient below it: for any site, any    *)
(* number of hosts, limits, rate, Retry-After and RetrySpec, the client    *)
(* spaces its requests and sleeps out what servers ask for, a walk stays   *)
(* within its limits, is complete where none was met, and what has no hope *)
(* is not retried.                                                         *)
(***************************************************************************)
EXTENDS Fetchers, FiniteSetTheorems, WellFoundedInduction, TLAPS

-----------------------------------------------------------------------------
(* Numbers and sequences *)

LEMMA CountsUpTo ==
    ASSUME NEW n \in Nat
    PROVE  IsFiniteSet(1..n) /\ Cardinality(1..n) = n
<1>1. 1 \in Int /\ n \in Int
  OBVIOUS
<1>2. Cardinality(1..n) = IF 1 > n THEN 0 ELSE n - 1 + 1
  BY <1>1, FS_Interval
<1> QED
  BY <1>1, <1>2, FS_Interval

\* Powers of two are what the library counts subsets by.
LEMMA PowersOfTwo ==
    ASSUME NEW n \in Nat
    PROVE  2^n \in Nat
<1>1. IsFiniteSet(SUBSET (1..n)) /\ Cardinality(SUBSET (1..n)) = 2^n
  BY CountsUpTo, FS_SUBSET
<1> QED
  BY <1>1, FS_CardinalityType

LEMMA ToSetType ==
    ASSUME NEW A, NEW s \in Seq(A)
    PROVE  ToSet(s) \subseteq A
BY DEF ToSet

LEMMA ToSetEmpty == ToSet(<<>>) = {}
BY DEF ToSet

LEMMA ToSetAppend ==
    ASSUME NEW A, NEW s \in Seq(A), NEW x \in A
    PROVE  Append(s, x) \in Seq(A) /\ ToSet(Append(s, x)) = ToSet(s) \cup {x}
<1>1. /\ Append(s, x) \in Seq(A) /\ Len(Append(s, x)) = Len(s) + 1
      /\ Append(s, x)[Len(s) + 1] = x
      /\ \A i \in 1..Len(s) : Append(s, x)[i] = s[i]
  OBVIOUS
<1>2. Len(s) \in Nat /\ 1..(Len(s) + 1) = (1..Len(s)) \cup {Len(s) + 1}
  OBVIOUS
<1>3. DOMAIN s = 1..Len(s) /\ DOMAIN Append(s, x) = 1..(Len(s) + 1)
  BY <1>1
<1> QED
  BY <1>1, <1>2, <1>3 DEF ToSet

LEMMA ToSetConcat ==
    ASSUME NEW A, NEW s \in Seq(A), NEW t \in Seq(A)
    PROVE  /\ s \o t \in Seq(A) /\ Len(s \o t) = Len(s) + Len(t)
           /\ ToSet(s \o t) = ToSet(s) \cup ToSet(t)
<1>1. s \o t \in Seq(A) /\ Len(s \o t) = Len(s) + Len(t)
  OBVIOUS
<1>2. ToSet(s \o t) \subseteq ToSet(s) \cup ToSet(t)
  BY <1>1 DEF ToSet
<1>3. ToSet(s) \subseteq ToSet(s \o t)
  BY <1>1 DEF ToSet
<1>4. ASSUME NEW i \in 1..Len(t) PROVE t[i] \in ToSet(s \o t)
  <2>1. Len(s) + i \in 1..Len(s \o t) /\ (s \o t)[Len(s) + i] = t[i]
    BY <1>1
  <2> QED
    BY <2>1 DEF ToSet
<1> QED
  BY <1>1, <1>2, <1>3, <1>4 DEF ToSet

LEMMA HeadAndTail ==
    ASSUME NEW A, NEW s \in Seq(A), s # <<>>
    PROVE  /\ Head(s) \in A /\ Tail(s) \in Seq(A) /\ Len(Tail(s)) = Len(s) - 1
           /\ ToSet(s) = {Head(s)} \cup ToSet(Tail(s))
<1>1. /\ Head(s) = s[1] /\ s[1] \in A /\ Tail(s) \in Seq(A)
      /\ Len(Tail(s)) = Len(s) - 1 /\ Len(s) \in Nat \ {0}
      /\ \A i \in 1..(Len(s) - 1) : Tail(s)[i] = s[i + 1]
  OBVIOUS
<1>2. ToSet(s) \subseteq {Head(s)} \cup ToSet(Tail(s))
  <2> SUFFICES ASSUME NEW i \in 1..Len(s), i # 1
               PROVE  s[i] \in ToSet(Tail(s))
    BY <1>1 DEF ToSet
  <2>1. i - 1 \in 1..Len(Tail(s)) /\ Tail(s)[i - 1] = s[i]
    BY <1>1
  <2> QED
    BY <2>1 DEF ToSet
<1>3. ToSet(Tail(s)) \subseteq ToSet(s)
  <2> SUFFICES ASSUME NEW i \in 1..(Len(s) - 1) PROVE Tail(s)[i] \in ToSet(s)
    BY <1>1 DEF ToSet
  <2> QED
    BY <1>1 DEF ToSet
<1>4. Head(s) \in ToSet(s)
  BY <1>1 DEF ToSet
<1> QED
  BY <1>1, <1>2, <1>3, <1>4

LEMMA FirstIs ==
    ASSUME NEW A, NEW s \in Seq(A), NEW n \in Nat
    PROVE  /\ First(n, s) \in Seq(A)
           /\ Len(First(n, s)) = Least(n, Len(s))
           /\ \A i \in 1..Least(n, Len(s)) : First(n, s)[i] = s[i]
           /\ ToSet(First(n, s)) \subseteq ToSet(s)
           /\ Len(s) <= n => First(n, s) = s
<1>1. Least(n, Len(s)) \in Nat /\ Least(n, Len(s)) <= Len(s)
  BY DEF Least
<1>2. /\ First(n, s) \in Seq(A) /\ Len(First(n, s)) = Least(n, Len(s))
      /\ \A i \in 1..Least(n, Len(s)) : First(n, s)[i] = s[i]
  BY <1>1 DEF First
<1>3. ToSet(First(n, s)) \subseteq ToSet(s)
  BY <1>1, <1>2 DEF ToSet
<1>4. Len(s) <= n => First(n, s) = s
  <2> SUFFICES ASSUME Len(s) <= n PROVE First(n, s) = s
    OBVIOUS
  <2>1. Least(n, Len(s)) = Len(s)
    BY DEF Least
  <2> QED
    BY <1>2, <2>1
<1> QED
  BY <1>2, <1>3, <1>4

\* A subsequence has its positions' elements, each position's once.
LEMMA SubsequenceIs ==
    ASSUME NEW A, NEW s \in Seq(A), NEW I \in SUBSET (1..Len(s))
    PROVE  \E f \in Bijection(1..Cardinality(I), I) :
               /\ Cardinality(I) \in Nat
               /\ Subsequence(s, I) = [k \in 1..Cardinality(I) |-> s[f[k]]]
<1> DEFINE rank(i) == Cardinality({j \in I : j <= i})
           r == [i \in I |-> rank(i)]
           f == [k \in 1..Cardinality(I) |-> CHOOSE i \in I : rank(i) = k]
<1>1. IsFiniteSet(I) /\ Cardinality(I) \in Nat
  <2>1. Len(s) \in Nat
    OBVIOUS
  <2>2. IsFiniteSet(1..Len(s))
    BY <2>1, CountsUpTo
  <2> QED
    BY <2>2, FS_Subset, FS_CardinalityType
<1>2. ASSUME NEW i \in I
      PROVE  /\ IsFiniteSet({j \in I : j <= i})
             /\ rank(i) \in 1..Cardinality(I)
  <2>1. /\ IsFiniteSet({j \in I : j <= i})
        /\ rank(i) \in Nat /\ rank(i) <= Cardinality(I)
    BY <1>1, FS_Subset, FS_CardinalityType
  <2>2. rank(i) # 0
    <3>1. i \in {j \in I : j <= i}
      OBVIOUS
    <3> QED
      BY <2>1, <3>1, FS_EmptySet
  <2> QED
    BY <1>1, <2>1, <2>2
<1>3. ASSUME NEW i \in I, NEW j \in I, i < j
      PROVE  rank(i) # rank(j)
  <2>1. \A l \in I : l \in Int
    OBVIOUS
  <2>2. {l \in I : l <= i} \subseteq {l \in I : l <= j}
    <3>1. i \in Int /\ j \in Int
      BY <2>1
    <3>2. \A l \in I : l <= i => l <= j
      BY <1>3, <2>1, <3>1
    <3> QED
      BY <3>2
  <2>3. j \notin {l \in I : l <= i} /\ j \in {l \in I : l <= j}
    BY <1>3, <2>1
  <2> QED
    BY <1>2, <2>2, <2>3, FS_Subset
<1> HIDE DEF rank
<1>4. r \in Injection(I, 1..Cardinality(I))
  <2>1. r \in [I -> 1..Cardinality(I)]
    BY <1>2
  <2>2. ASSUME NEW i \in I, NEW j \in I, r[i] = r[j]
        PROVE  i = j
    BY <1>3, <2>2
  <2> HIDE DEF r
  <2> QED
    BY <2>1, <2>2 DEF Injection, IsInjective
<1>5. r \in Surjection(I, 1..Cardinality(I))
  <2>1. /\ IsFiniteSet(1..Cardinality(I))
        /\ Cardinality(1..Cardinality(I)) = Cardinality(I)
    BY <1>1, CountsUpTo
  <2> HIDE DEF r
  <2> QED
    BY <1>4, <2>1, FS_Injection
<1>6. \A k \in 1..Cardinality(I) : f[k] \in I /\ rank(f[k]) = k
  BY <1>5 DEF Surjection
<1>7. \A i, j \in I : rank(i) = rank(j) => i = j
  BY <1>3
<1>8. f \in Bijection(1..Cardinality(I), I)
  <2>1. f \in [1..Cardinality(I) -> I]
    BY <1>6
  <2>2. \A k, l \in 1..Cardinality(I) : f[k] = f[l] => k = l
    BY <1>6
  <2>3. \A i \in I : \E k \in 1..Cardinality(I) : f[k] = i
    BY <1>2, <1>6, <1>7
  <2> HIDE DEF f
  <2> QED
    BY <2>1, <2>2, <2>3 DEF Bijection, Injection, Surjection, IsInjective
<1>9. Subsequence(s, I) = [k \in 1..Cardinality(I) |-> s[f[k]]]
  BY DEF Subsequence, rank
<1> HIDE DEF f
<1> QED
  BY <1>1, <1>8, <1>9

\* Of the links of a page, those seen before are left out and each of the
\* others is there once.
LEMMA UnseenIs ==
    ASSUME NEW links \in Seq(Urls)
    PROVE  /\ Unseen(links) \in Seq(Urls)
           /\ ToSet(Unseen(links)) = ToSet(links) \ fetch.seen
           /\ IsInjective(Unseen(links))
<1> DEFINE I == {i \in 1..Len(links) : /\ links[i] \notin fetch.seen
                                       /\ \A j \in 1..(i - 1) : links[j] # links[i]}
<1>0. PICK n \in Nat : \E f \in Bijection(1..n, I) :
          Unseen(links) = [k \in 1..n |-> links[f[k]]]
  <2>1. Unseen(links) = Subsequence(links, I)
    <3>1. DOMAIN links = 1..Len(links)
      OBVIOUS
    <3> QED
      BY <3>1, Zenon DEF Unseen
  <2>2. I \in SUBSET (1..Len(links))
    OBVIOUS
  <2> HIDE DEF I
  <2>3. PICK f \in Bijection(1..Cardinality(I), I) :
            /\ Cardinality(I) \in Nat
            /\ Subsequence(links, I) = [k \in 1..Cardinality(I) |-> links[f[k]]]
    BY <2>2, SubsequenceIs
  <2> QED
    BY <2>1, <2>3
<1>1. PICK f \in Bijection(1..n, I) : Unseen(links) = [k \in 1..n |-> links[f[k]]]
  BY <1>0
<1>2. /\ f \in [1..n -> I] /\ \A k, l \in 1..n : f[k] = f[l] => k = l
      /\ \A i \in I : \E k \in 1..n : f[k] = i
  BY <1>1 DEF Bijection, Injection, Surjection, IsInjective
<1>3. \A i \in I : /\ i \in 1..Len(links) /\ links[i] \in Urls
                   /\ links[i] \notin fetch.seen
  OBVIOUS
<1>4. \A i, j \in I : links[i] = links[j] => i = j
  <2>1. ASSUME NEW i \in I, NEW j \in I, i < j PROVE links[i] # links[j]
    <3>1. i \in 1..(j - 1)
      BY <1>3, <2>1
    <3> QED
      BY <3>1
  <2>2. \A i \in I : i \in Int
    BY <1>3
  <2> HIDE DEF I
  <2> QED
    BY <2>1, <2>2
<1>5. ASSUME NEW url \in ToSet(links) \ fetch.seen
      PROVE  \E i \in I : links[i] = url
  <2> DEFINE P == {i \in 1..Len(links) : links[i] = url}
  <2>1. P \subseteq Nat /\ P # {}
    BY DEF ToSet
  <2>2. PICK i \in P : \A j \in P : <<j, i>> \notin OpToRel(<, Nat)
    BY <2>1, NatLessThanWellFounded, WFMin
  <2>3. ASSUME NEW j \in 1..(i - 1), links[j] = links[i]
        PROVE  FALSE
    <3>1. j \in P /\ j < i /\ j \in Nat /\ i \in Nat
      BY <2>3
    <3> QED
      BY <2>2, <3>1 DEF OpToRel
  <2>4. i \in I
    BY <2>3
  <2> QED
    BY <2>4
<1> HIDE DEF I
<1>6. Unseen(links) \in Seq(Urls) /\ Len(Unseen(links)) = n
      /\ DOMAIN Unseen(links) = 1..n
  <2>1. \A k \in 1..n : links[f[k]] \in Urls
    BY <1>2, <1>3
  <2> QED
    BY <1>1, <2>1
<1>7. ToSet(Unseen(links)) = ToSet(links) \ fetch.seen
  <2>1. \A k \in 1..n : Unseen(links)[k] \in ToSet(links) \ fetch.seen
    BY <1>1, <1>2, <1>3 DEF ToSet
  <2>2. ASSUME NEW url \in ToSet(links) \ fetch.seen
        PROVE  \E k \in 1..n : Unseen(links)[k] = url
    <3>1. PICK i \in I : links[i] = url
      BY <1>5
    <3>2. PICK k \in 1..n : f[k] = i
      BY <1>2
    <3> QED
      BY <1>1, <3>1, <3>2
  <2>3. ToSet(Unseen(links)) = {Unseen(links)[k] : k \in 1..n}
    BY <1>6 DEF ToSet
  <2> QED
    BY <2>1, <2>2, <2>3
<1>8. IsInjective(Unseen(links))
  BY <1>1, <1>2, <1>4, <1>6 DEF IsInjective
<1> QED
  BY <1>6, <1>7, <1>8

-----------------------------------------------------------------------------
(* Types *)

Fetches == [pages: Seq(Urls), items: Seq(Urls), seen: SUBSET Urls, found: Nat,
            count: Nat]

\* A task that waits has attempts left, one that runs has used one.
TaskTyped ==
    /\ task \in Tasks
    /\ \/ task.delay <= MaxSeconds
       \/ RetryBackoff = "fixed" /\ task.delay <= BaseSeconds
    /\ task.status = "waiting" => task.attempts < MaxAttempts
    /\ task.status = "running" => task.attempts >= 1

FetchTyped ==
    /\ web \in Webs /\ fetch \in Fetches /\ emitted \in Seq(Urls)
    /\ web.kind = "web_page" => fetch.pages = <<>>

\* A `get` under way is of the page, or of the item, that is next.
CallOfTheLoop ==
    call.pc # "idle" =>
        /\ Running
        /\ \/ Listing /\ call.url = Head(fetch.pages)
           \/ ~ListsMore /\ fetch.items # <<>> /\ call.url = Head(fetch.items)

TypeInv == HttpTypeOK /\ TaskTyped /\ FetchTyped /\ CallOfTheLoop

LEMMA TypesSuffice == TypeInv => TypeOK
BY DEF TypeInv, TypeOK, TaskTyped, FetchTyped, Fetches

LEMMA WebIs ==
    ASSUME FetchTyped
    PROVE  /\ web.kind \in Kinds /\ web.start \in Seq(Urls)
           /\ \A url \in Urls : web.links[url] \in Seq(Urls) /\ web.next[url] \in Seq(Urls)
           /\ web.kind # "web_list" => Len(web.start) = 1
           /\ web.kind # "sitemap" => \A url \in Urls : Len(web.next[url]) <= 1
BY WebsAssumption DEF FetchTyped

LEMMA LeastIs ==
    ASSUME NEW m \in Nat, NEW n \in Nat
    PROVE  /\ Least(m, n) \in Nat /\ Least(m, n) <= m /\ Least(m, n) <= n
           /\ Least(m, n) = m \/ Least(m, n) = n
BY DEF Least

LEMMA NoCallIs == NoCall \in Calls /\ NoCall.pc = "idle" /\ NoCall.error = "none"
                  /\ NoCall.sleep = 0 /\ NoCall.attempt = 0
<1>1. /\ (CHOOSE url \in Urls : TRUE) \in Urls
      /\ HostOf[CHOOSE url \in Urls : TRUE] \in Hosts
  <2>1. (CHOOSE url \in Urls : TRUE) \in Urls
    BY HttpAssumption
  <2> QED
    BY <2>1, HttpAssumption
<1>2. 0 \in 0..Retries
  BY HttpAssumption
<1> QED
  BY <1>1, <1>2 DEF NoCall, At, Calls

\* A call that waits, raises or goes on is a call.
LEMMA CallMoves ==
    ASSUME call \in Calls
    PROVE  /\ call.url \in Urls /\ call.attempt \in 0..Retries /\ call.attempt \in Nat
           /\ Host \in Hosts
           /\ \A pc \in {"pacing", "backoff"}, attempt \in 0..Retries, sleep \in Nat :
                  LET c == At(pc, call.url, attempt, sleep)
                  IN  c \in Calls /\ c.pc = pc /\ c.error = "none" /\ c.url = call.url
                      /\ c.sleep = sleep /\ c.attempt = attempt
           /\ \A error \in {"transient", "rate_limited", "permanent", "unknown"},
                 delay \in Nat :
                  LET c == Raised(error, delay)
                  IN  c \in Calls /\ c.pc = "raised" /\ c.error = error
                      /\ c.url = call.url /\ c.retry_after = delay
           /\ \A pc \in {"sent", "returned"} :
                  LET c == [call EXCEPT !.pc = pc]
                  IN  c \in Calls /\ c.pc = pc /\ c.error = call.error /\ c.url = call.url
                      /\ c.attempt = call.attempt
           /\ \A h \in Hosts :
                  LET c == [call EXCEPT !.at = h]
                  IN  c \in Calls /\ c.pc = call.pc /\ c.error = call.error
                      /\ c.url = call.url /\ c.attempt = call.attempt
           /\ \A sleep \in Nat :
                  LET c == [call EXCEPT !.sleep = sleep]
                  IN  c \in Calls /\ c.pc = call.pc /\ c.error = call.error
                      /\ c.url = call.url /\ c.sleep = sleep
                      /\ c.retry_after = call.retry_after /\ c.attempt = call.attempt
<1>1. /\ call.url \in Urls /\ call.attempt \in 0..Retries /\ call.attempt \in Nat
      /\ Host \in Hosts
  BY HttpAssumption DEF Calls, Host
<1>2. \A pc \in {"pacing", "backoff"}, attempt \in 0..Retries, sleep \in Nat :
          LET c == At(pc, call.url, attempt, sleep)
          IN  c \in Calls /\ c.pc = pc /\ c.error = "none" /\ c.url = call.url
              /\ c.sleep = sleep /\ c.attempt = attempt
  BY <1>1 DEF At, Calls, Host
<1>3. \A error \in {"transient", "rate_limited", "permanent", "unknown"}, delay \in Nat :
          LET c == Raised(error, delay)
          IN  c \in Calls /\ c.pc = "raised" /\ c.error = error
              /\ c.url = call.url /\ c.retry_after = delay
  BY DEF Raised, Calls
<1>4. \A pc \in {"sent", "returned"} :
          LET c == [call EXCEPT !.pc = pc]
          IN  c \in Calls /\ c.pc = pc /\ c.error = call.error /\ c.url = call.url
              /\ c.attempt = call.attempt
  BY DEF Calls
<1>6. \A h \in Hosts :
          LET c == [call EXCEPT !.at = h]
          IN  c \in Calls /\ c.pc = call.pc /\ c.error = call.error
              /\ c.url = call.url /\ c.attempt = call.attempt
  BY DEF Calls
<1>5. \A sleep \in Nat :
          LET c == [call EXCEPT !.sleep = sleep]
          IN  c \in Calls /\ c.pc = call.pc /\ c.error = call.error
              /\ c.url = call.url /\ c.sleep = sleep
              /\ c.retry_after = call.retry_after /\ c.attempt = call.attempt
  BY DEF Calls
<1> QED
  BY <1>1, <1>2, <1>3, <1>4, <1>5, <1>6

LEMMA HttpStepTyped ==
    ASSUME HttpTypeOK, HttpStep
    PROVE  HttpTypeOK' /\ call.pc # "idle" /\ call'.pc # "idle" /\ call'.url = call.url
<1> USE DEF HttpTypeOK
<1>a. /\ call \in Calls /\ (call.pc = "raised" <=> call.error # "none")
      /\ Rate \in Nat /\ Retries \in Nat /\ RetryAfterCap \in Nat /\ BackoffCap \in Nat
      /\ MaxTroubles \in Nat /\ troubles \in 0..MaxTroubles
      /\ unheeded \subseteq Hosts /\ spent \in Int /\ call.attempt \in Int /\ Host \in Hosts
  BY HttpAssumption, CallMoves
<1>f. /\ \A n \in Int : Costs(n) => spent' \in Int
      /\ Attempts \in Int
  BY <1>a DEF Costs, Attempts
<1>b. Trouble => troubles' \in 0..MaxTroubles
  BY <1>a DEF Trouble
<1>c. 2^call.attempt \in Nat /\ call.attempt \in 0..Retries
  BY <1>a, CallMoves, PowersOfTwo
<1>d. ASSUME NEW error \in {"transient", "rate_limited", "permanent", "unknown"},
             NEW delay \in Nat, Raise(error, delay), UNCHANGED <<since, robots, heard>>,
             asked' \in [Hosts -> 0..RetryAfterCap], unheeded' \subseteq Hosts,
             spent' \in Int, troubles' \in 0..MaxTroubles
      PROVE  HttpTypeOK' /\ call'.pc # "idle" /\ call'.url = call.url
  BY <1>a, <1>d, CallMoves DEF Raise
<1>e. ASSUME NEW pc \in {"pacing", "backoff"}, NEW attempt \in 0..Retries, NEW sleep \in Nat,
             call' = At(pc, call.url, attempt, sleep), UNCHANGED <<since, robots, heard>>,
             asked' \in [Hosts -> 0..RetryAfterCap], unheeded' \subseteq Hosts,
             spent' \in Int, troubles' \in 0..MaxTroubles
      PROVE  HttpTypeOK' /\ call'.pc # "idle" /\ call'.url = call.url
  BY <1>a, <1>e, CallMoves
<1>1. CASE Unresolved
  BY <1>1, <1>a, <1>b, <1>d, <1>f DEF Unresolved, serverVars
<1>2. CASE LoadRobots
  <2>1. /\ call.pc = "checking" /\ UNCHANGED <<call, since, heard, spent>>
        /\ troubles' \in 0..MaxTroubles
        /\ \E known \in {"rules", "nothing"} : robots' = [robots EXCEPT ![Host] = known]
        /\ unheeded' \subseteq Hosts
    BY <1>2, <1>a, <1>b DEF LoadRobots
  <2>2. robots' \in [Hosts -> {"unknown", "rules", "nothing"}]
    BY <2>1
  <2>3. asked' \in [Hosts -> 0..RetryAfterCap]
    <3>1. CASE asked' = asked
      BY <3>1
    <3>2. ASSUME NEW header \in RetryAfters,
                 asked' = [asked EXCEPT ![Host] = Least(RetryAfterCap, header)]
          PROVE  asked' \in [Hosts -> 0..RetryAfterCap]
      <4>1. Least(RetryAfterCap, header) \in 0..RetryAfterCap
        BY <1>a, HttpAssumption, LeastIs
      <4> QED
        BY <3>2, <4>1
    <3> QED
      BY <1>2, <3>1, <3>2 DEF LoadRobots
  <2> QED
    BY <1>a, <2>1, <2>2, <2>3
<1>3. CASE Refuse
  BY <1>3, <1>a, <1>d DEF Refuse, serverVars
<1>4. CASE Admit
  <2>1. Pause \in Nat /\ 0 \in 0..Retries
    BY <1>a, CallMoves DEF Pause
  <2> QED
    BY <1>4, <1>a, <1>e, <2>1 DEF Admit, serverVars
<1>5. CASE Send
  <2>1. since' \in [Hosts -> 0..Rate] /\ heard' \in [Hosts -> 0..Rate]
    <3>1. 0 \in 0..Rate
      BY <1>a
    <3> QED
      BY <1>5, <3>1 DEF Send, Remember
  <2>2. call' = [call EXCEPT !.pc = "sent"] /\ call.pc = "pacing"
        /\ UNCHANGED <<robots, asked, unheeded, spent, troubles>>
    BY <1>5 DEF Send
  <2> QED
    BY <1>a, <2>1, <2>2, CallMoves
<1>6. CASE Answer
  <2>1. spent' \in Int
    BY <1>6, <1>a DEF Answer
  <2> QED
    BY <1>6, <1>a, <2>1, CallMoves DEF Answer, serverVars
<1>7. ASSUME NEW header \in RetryAfters \cup {NoHeader}, RateLimited(header)
      PROVE  HttpTypeOK' /\ call.pc # "idle" /\ call'.pc # "idle" /\ call'.url = call.url
  <2>1. header # NoHeader => /\ header \in Nat
                             /\ Least(RetryAfterCap, header) \in 0..RetryAfterCap
    BY <1>a, HttpAssumption, LeastIs
  <2>2. Delay(header) \in Nat
    BY <1>c, <2>1 DEF Delay
  <2>3. asked' \in [Hosts -> 0..RetryAfterCap]
    BY <1>7, <2>1 DEF RateLimited, AsksToWait
  <2>6. unheeded' \subseteq Hosts /\ spent' \in Int /\ troubles' \in 0..MaxTroubles
    BY <1>7, <1>a, <1>b, <1>f DEF RateLimited, AsksToWait
  <2>4. CASE LastAttempt
    BY <1>7, <1>d, <2>2, <2>3, <2>4, <2>6 DEF RateLimited
  <2>5. CASE ~LastAttempt
    <3>1. call.attempt + 1 \in 0..Retries
      BY <1>a, <1>c, <2>5 DEF LastAttempt
    <3> QED
      BY <1>7, <1>e, <2>2, <2>3, <2>5, <2>6, <3>1 DEF RateLimited, Backoff
  <2> QED
    BY <2>4, <2>5
<1>8. CASE Unavailable
  <2>1. CASE LastAttempt
    BY <1>8, <1>a, <1>b, <1>d, <1>f, <2>1 DEF Unavailable, serverVars
  <2>2. CASE ~LastAttempt
    <3>1. call.attempt + 1 \in 0..Retries /\ Least(BackoffCap, 2^call.attempt) \in Nat
      <4>1. call.attempt + 1 \in 0..Retries
        BY <1>a, <1>c, <2>2 DEF LastAttempt
      <4>2. Least(BackoffCap, 2^call.attempt) \in Nat
        BY <1>a, <1>c, LeastIs
      <4> QED
        BY <4>1, <4>2
    <3> QED
      BY <1>8, <1>a, <1>b, <1>e, <1>f, <2>2, <3>1 DEF Unavailable, Backoff, serverVars
  <2> QED
    BY <2>1, <2>2
<1>9. CASE Rejected
  BY <1>9, <1>a, <1>b, <1>d DEF Rejected, serverVars
<1>10. CASE RedirectUnresolved
  BY <1>10, <1>a, <1>b, <1>d, <1>f DEF RedirectUnresolved, serverVars
<1>11. CASE BrokenBody
  BY <1>11, <1>a, <1>b, <1>d, <1>f DEF BrokenBody, serverVars
<1>12. CASE NextAttempt
  <2>1. Pause \in Nat
    BY <1>a, CallMoves DEF Pause
  <2> QED
    BY <1>12, <1>a, <1>c, <1>e, <2>1 DEF NextAttempt, serverVars
<1>13. ASSUME NEW h \in Hosts, Redirect(h)
       PROVE  HttpTypeOK' /\ call.pc # "idle" /\ call'.pc # "idle" /\ call'.url = call.url
  BY <1>13, <1>a, <1>b, CallMoves DEF Redirect, serverVars
<1> QED
  BY <1>1, <1>2, <1>3, <1>4, <1>5, <1>6, <1>7, <1>8, <1>9, <1>10, <1>11, <1>12, <1>13
     DEF HttpStep, Respond

LEMMA TimeTyped ==
    ASSUME HttpTypeOK, TimePasses
    PROVE  /\ HttpTypeOK' /\ call'.pc = call.pc /\ call'.url = call.url
           /\ call'.sleep = Shorter(call.sleep) /\ call'.retry_after = call.retry_after
           /\ call'.error = call.error /\ call'.attempt = call.attempt
<1> USE DEF HttpTypeOK
<1>a. /\ call \in Calls /\ (call.pc = "raised" <=> call.error # "none")
      /\ Rate \in Nat /\ RetryAfterCap \in Nat /\ call.sleep \in Nat
  BY HttpAssumption DEF Calls
<1>1. Shorter(call.sleep) \in Nat
  BY <1>a DEF Shorter
<1>2. call' = [call EXCEPT !.sleep = Shorter(call.sleep)]
  BY DEF TimePasses
<1>3. \A age \in [Hosts -> 0..Rate] : Younger(age) \in [Hosts -> 0..Rate]
  BY <1>a DEF Younger, Least
<1>4. asked' \in [Hosts -> 0..RetryAfterCap]
  BY <1>a DEF TimePasses, Shorter
<1>5. /\ since' \in [Hosts -> 0..Rate] /\ heard' \in [Hosts -> 0..Rate]
      /\ unheeded' \subseteq Hosts /\ UNCHANGED <<robots, spent, troubles>>
  BY <1>3 DEF TimePasses
<1> QED
  BY <1>a, <1>1, <1>2, <1>4, <1>5, CallMoves

LEMMA FetchIs ==
    ASSUME FetchTyped
    PROVE  /\ fetch.pages \in Seq(Urls) /\ fetch.items \in Seq(Urls)
           /\ fetch.seen \subseteq Urls /\ fetch.found \in Nat /\ fetch.count \in Nat
           /\ MaxItems \in Nat \ {0} /\ MaxPages \in Nat \ {0}
           /\ Len(fetch.items) \in Nat /\ Len(fetch.pages) \in Nat
<1>1. fetch \in Fetches
  BY DEF FetchTyped
<1>2. /\ fetch.pages \in Seq(Urls) /\ fetch.items \in Seq(Urls)
      /\ fetch.seen \subseteq Urls /\ fetch.found \in Nat /\ fetch.count \in Nat
  BY <1>1 DEF Fetches
<1>3. MaxItems \in Nat \ {0} /\ MaxPages \in Nat \ {0}
  BY FetchersAssumption
<1>4. Len(fetch.items) \in Nat /\ Len(fetch.pages) \in Nat
  BY <1>2
<1> QED
  BY <1>2, <1>3, <1>4

LEMMA FetchIsMade ==
    ASSUME NEW pages \in Seq(Urls), NEW items \in Seq(Urls), NEW seen \in SUBSET Urls,
           NEW found \in Nat, NEW count \in Nat
    PROVE  LET l == [pages |-> pages, items |-> items, seen |-> seen, found |-> found,
                     count |-> count]
           IN  l \in Fetches
BY DEF Fetches

LEMMA WithinRestIs ==
    ASSUME FetchTyped, fetch.found < MaxItems, NEW links \in Seq(Urls)
    PROVE  /\ WithinRest(links) \in Seq(Urls)
           /\ fetch.found + Len(WithinRest(links)) <= MaxItems
           /\ ToSet(WithinRest(links)) \subseteq ToSet(links)
           /\ fetch.found + Len(WithinRest(links)) < MaxItems => WithinRest(links) = links
           /\ IsInjective(links) => IsInjective(WithinRest(links))
<1> DEFINE new == WithinRest(links)
<1>0. /\ fetch.found \in Nat /\ MaxItems \in Nat /\ Len(links) \in Nat
      /\ MaxItems - fetch.found \in Nat
  <2>1. fetch.found \in Nat /\ MaxItems \in Nat
    BY FetchIs
  <2> QED
    BY <2>1
<1>1. PICK n \in Nat : n = MaxItems - fetch.found /\ new = First(n, links)
  BY <1>0 DEF WithinRest
<1>2. /\ new \in Seq(Urls) /\ Len(new) = Least(n, Len(links))
      /\ \A i \in 1..Least(n, Len(links)) : new[i] = links[i]
      /\ ToSet(new) \subseteq ToSet(links)
      /\ Len(links) <= n => new = links
  <2> HIDE DEF new
  <2>1. /\ First(n, links) \in Seq(Urls)
        /\ Len(First(n, links)) = Least(n, Len(links))
        /\ \A i \in 1..Least(n, Len(links)) : First(n, links)[i] = links[i]
        /\ ToSet(First(n, links)) \subseteq ToSet(links)
        /\ Len(links) <= n => First(n, links) = links
    BY FirstIs
  <2> QED
    BY <1>1, <2>1
<1>3. /\ fetch.found + Len(new) <= MaxItems
      /\ fetch.found + Len(new) < MaxItems => Len(links) <= n
  BY <1>0, <1>1, <1>2 DEF Least
<1>4. ASSUME IsInjective(links) PROVE IsInjective(new)
  <2>1. /\ DOMAIN new = 1..Len(new) /\ 1..Len(new) \subseteq DOMAIN links
        /\ \A i \in 1..Len(new) : new[i] = links[i]
    <3>1. Least(n, Len(links)) \in Nat /\ Least(n, Len(links)) <= Len(links)
      BY <1>0, LeastIs
    <3>2. DOMAIN new = 1..Len(new) /\ DOMAIN links = 1..Len(links)
      BY <1>2
    <3> QED
      BY <1>0, <1>2, <3>1, <3>2
  <2> QED
    BY <1>4, <2>1 DEF IsInjective
<1> HIDE DEF new
<1>5. new = WithinRest(links)
  BY DEF new
<1> QED
  BY <1>2, <1>3, <1>4, <1>5

\* What each kind makes of a page.
LEMMA ListPageRead ==
    ASSUME FetchTyped, web.kind = "web_list", Listing, NEW url, url = Head(fetch.pages)
    PROVE  LET l == AfterPage(url)
               new == WithinRest(Unseen(web.links[url]))
           IN  /\ l \in Fetches /\ url \in Urls
               /\ ToSet(l.pages) = ToSet(Tail(fetch.pages)) \cup ToSet(web.next[url])
               /\ l.items = new /\ l.seen = fetch.seen \cup ToSet(new)
               /\ l.found = fetch.found + Len(new) /\ l.count = fetch.count + 1
               /\ fetch.items = <<>>
<1>1. /\ fetch \in Fetches /\ fetch.pages # <<>> /\ fetch.items = <<>>
      /\ fetch.found < MaxItems /\ fetch.found \in Nat /\ fetch.count \in Nat
      /\ fetch.pages \in Seq(Urls) /\ fetch.seen \subseteq Urls
  <2>1. fetch \in Fetches
    BY DEF FetchTyped
  <2> QED
    BY <2>1, FetchIs DEF Listing, ListsMore
<1>2. /\ url \in Urls /\ Tail(fetch.pages) \in Seq(Urls)
  BY <1>1, HeadAndTail
<1>3. web.links[url] \in Seq(Urls) /\ web.next[url] \in Seq(Urls)
  BY <1>2, WebIs
<1> DEFINE new == WithinRest(Unseen(web.links[url]))
           rest == Tail(fetch.pages)
           pages == IF ToSet(web.next[url]) \subseteq ToSet(rest) THEN rest
                    ELSE rest \o web.next[url]
<1>4. new \in Seq(Urls) /\ Len(new) \in Nat /\ ToSet(new) \subseteq Urls
  <2>1. Unseen(web.links[url]) \in Seq(Urls)
    BY <1>3, UnseenIs
  <2>2. new \in Seq(Urls)
    BY <1>1, <2>1, WithinRestIs
  <2> HIDE DEF new
  <2> QED
    BY <2>2, ToSetType
<1>5. /\ pages \in Seq(Urls)
      /\ ToSet(pages) = ToSet(rest) \cup ToSet(web.next[url])
  <2>1. /\ rest \o web.next[url] \in Seq(Urls)
        /\ ToSet(rest \o web.next[url]) = ToSet(rest) \cup ToSet(web.next[url])
    <3>1. PICK u \in Seq(Urls), v \in Seq(Urls) : u = Tail(fetch.pages) /\ v = web.next[url]
      BY <1>2, <1>3
    <3>2. u \o v \in Seq(Urls) /\ ToSet(u \o v) = ToSet(u) \cup ToSet(v)
      BY ToSetConcat
    <3> QED
      BY <3>1, <3>2
  <2> QED
    BY <1>2, <2>1
<1>6. AfterPage(url) = Loop(pages, new, fetch.seen \cup ToSet(new),
                            fetch.found + Len(new) - Len(fetch.items), fetch.count + 1)
  <2>1. AfterPage(url) = AfterListPage(url)
    BY DEF AfterPage, IsApi
  <2> QED
    BY <2>1, Zenon DEF AfterListPage, Listed
<1>7. fetch.found + Len(new) - Len(fetch.items) = fetch.found + Len(new)
  <2> HIDE DEF new
  <2>1. Len(fetch.items) = 0
    BY <1>1
  <2> QED
    BY <1>1, <1>4, <2>1
<1>8. fetch.found + Len(new) \in Nat /\ fetch.count + 1 \in Nat
  <2> HIDE DEF new
  <2> QED
    BY <1>1, <1>4
<1> HIDE DEF new, rest, pages
<1>9. AfterPage(url) = [pages |-> pages, items |-> new, seen |-> fetch.seen \cup ToSet(new),
                        found |-> fetch.found + Len(new), count |-> fetch.count + 1]
  BY <1>6, <1>7 DEF Loop
<1>10. AfterPage(url) \in Fetches
  BY <1>1, <1>4, <1>5, <1>8, <1>9 DEF Fetches
<1>11. new = WithinRest(Unseen(web.links[url])) /\ rest = Tail(fetch.pages)
  BY DEF new, rest
<1> QED
  BY <1>1, <1>2, <1>5, <1>9, <1>10, <1>11

LEMMA SitemapRead ==
    ASSUME FetchTyped, web.kind = "sitemap", Listing, NEW url, url = Head(fetch.pages)
    PROVE  LET l == AfterPage(url)
               new == WithinRest(web.links[url])
           IN  /\ l \in Fetches /\ url \in Urls
               /\ ToSet(l.pages) = ToSet(Tail(fetch.pages)) \cup ToSet(web.next[url])
               /\ l.items = fetch.items \o new /\ l.seen = fetch.seen \cup {url}
               /\ l.found = fetch.found + Len(new)
<1>1. /\ fetch \in Fetches /\ fetch.pages # <<>> /\ fetch.items \in Seq(Urls)
      /\ fetch.found < MaxItems /\ fetch.found \in Nat
      /\ fetch.pages \in Seq(Urls) /\ fetch.seen \subseteq Urls
  <2>1. fetch \in Fetches
    BY DEF FetchTyped
  <2> QED
    BY <2>1, FetchIs DEF Listing, ListsMore
<1>2. /\ url \in Urls /\ Tail(fetch.pages) \in Seq(Urls)
  BY <1>1, HeadAndTail
<1>3. web.links[url] \in Seq(Urls) /\ web.next[url] \in Seq(Urls)
  BY <1>2, WebIs
<1> DEFINE new == WithinRest(web.links[url])
           pages == Tail(fetch.pages) \o web.next[url]
           items == fetch.items \o new
<1>4. new \in Seq(Urls) /\ Len(new) \in Nat
  <2>1. new \in Seq(Urls)
    BY <1>1, <1>3, WithinRestIs
  <2> HIDE DEF new
  <2> QED
    BY <2>1
<1>5. /\ pages \in Seq(Urls)
      /\ ToSet(pages) = ToSet(Tail(fetch.pages)) \cup ToSet(web.next[url])
  <2>1. PICK u \in Seq(Urls), v \in Seq(Urls) : u = Tail(fetch.pages) /\ v = web.next[url]
    BY <1>2, <1>3
  <2>2. u \o v \in Seq(Urls) /\ ToSet(u \o v) = ToSet(u) \cup ToSet(v)
    BY ToSetConcat
  <2> QED
    BY <2>1, <2>2
<1>6. items \in Seq(Urls) /\ Len(items) = Len(fetch.items) + Len(new)
  <2> HIDE DEF new
  <2> QED
    BY <1>1, <1>4, ToSetConcat
<1>7. AfterPage(url) = Loop(pages, items, fetch.seen \cup {url},
                            fetch.found + Len(items) - Len(fetch.items), 0)
  <2>1. AfterPage(url) = AfterSitemap(url)
    BY DEF AfterPage, IsApi
  <2> QED
    BY <2>1, Zenon DEF AfterSitemap, Pending, Listed
<1>8. /\ fetch.found + Len(items) - Len(fetch.items) = fetch.found + Len(new)
      /\ fetch.found + Len(new) \in Nat
  <2> HIDE DEF new, items
  <2>1. Len(fetch.items) \in Nat
    BY FetchIs
  <2> QED
    BY <1>1, <1>4, <1>6, <2>1
<1> HIDE DEF new, pages, items
<1>9. AfterPage(url) = [pages |-> pages, items |-> items, seen |-> fetch.seen \cup {url},
                        found |-> fetch.found + Len(new), count |-> 0]
  BY <1>7, <1>8 DEF Loop
<1>10. AfterPage(url) \in Fetches
  BY <1>1, <1>2, <1>5, <1>6, <1>8, <1>9 DEF Fetches
<1>11. new = WithinRest(web.links[url]) /\ items = fetch.items \o new
  BY DEF new, items
<1> QED
  <2>1. /\ AfterPage(url).pages = pages /\ AfterPage(url).items = items
        /\ AfterPage(url).seen = fetch.seen \cup {url}
        /\ AfterPage(url).found = fetch.found + Len(new)
    BY <1>9
  <2> QED
    BY <1>2, <1>5, <1>10, <1>11, <2>1

LEMMA FeedRead ==
    ASSUME FetchTyped, web.kind = "rss", Listing, NEW url, url = Head(fetch.pages)
    PROVE  LET l == AfterPage(url)
               new == First(MaxItems, web.links[url])
           IN  /\ l \in Fetches /\ url \in Urls
               /\ l.pages = <<>> /\ l.items = new /\ l.found = fetch.found + Len(new)
               /\ fetch.items = <<>>
<1>1. /\ fetch \in Fetches /\ fetch.pages # <<>> /\ fetch.items = <<>>
      /\ fetch.found \in Nat /\ fetch.pages \in Seq(Urls) /\ MaxItems \in Nat
  <2>1. fetch \in Fetches
    BY DEF FetchTyped
  <2> QED
    BY <2>1, FetchIs DEF Listing, ListsMore
<1>2. url \in Urls
  BY <1>1, HeadAndTail
<1>3. web.links[url] \in Seq(Urls)
  BY <1>2, WebIs
<1> DEFINE new == First(MaxItems, web.links[url])
<1>4. new \in Seq(Urls) /\ Len(new) \in Nat
  <2>1. new \in Seq(Urls)
    BY <1>1, <1>3, FirstIs
  <2> HIDE DEF new
  <2> QED
    BY <2>1
<1>5. AfterPage(url) = Loop(<<>>, new, {}, fetch.found + Len(new) - Len(fetch.items), 0)
  <2>1. AfterPage(url) = AfterFeed(url)
    BY DEF AfterPage, IsApi
  <2> QED
    BY <2>1, Zenon DEF AfterFeed, Listed
<1>6. /\ fetch.found + Len(new) - Len(fetch.items) = fetch.found + Len(new)
      /\ fetch.found + Len(new) \in Nat
  <2> HIDE DEF new
  <2>1. Len(fetch.items) = 0
    BY <1>1
  <2> QED
    BY <1>1, <1>4, <2>1
<1> HIDE DEF new
<1>7. AfterPage(url) = [pages |-> <<>>, items |-> new, seen |-> {},
                        found |-> fetch.found + Len(new), count |-> 0]
  BY <1>5, <1>6 DEF Loop
<1>8. AfterPage(url) \in Fetches
  <2>1. {} \in SUBSET Urls /\ 0 \in Nat /\ <<>> \in Seq(Urls)
    OBVIOUS
  <2> QED
    BY <1>4, <1>6, <1>7, <2>1, FetchIsMade
<1>9. new = First(MaxItems, web.links[url])
  BY DEF new
<1> QED
  BY <1>1, <1>2, <1>7, <1>8, <1>9

LEMMA ApiPageRead ==
    ASSUME FetchTyped, IsApi, Listing, NEW url, url = Head(fetch.pages)
    PROVE  LET l == AfterPage(url)
           IN  /\ l \in Fetches /\ url \in Urls
               /\ ToSet(l.pages) = Follows(url) /\ l.items = <<>>
               /\ Len(l.pages) <= 1
               /\ l.found = fetch.found /\ l.count = fetch.count + 1
               /\ fetch.items = <<>>
<1>1. /\ fetch \in Fetches /\ fetch.pages # <<>> /\ fetch.items = <<>>
      /\ fetch.found \in Nat /\ fetch.pages \in Seq(Urls) /\ fetch.count \in Nat
  <2>1. fetch \in Fetches
    BY DEF FetchTyped
  <2> QED
    BY <2>1, FetchIs DEF Listing, ListsMore, IsApi
<1>2. url \in Urls
  BY <1>1, HeadAndTail
<1>3. web.links[url] \in Seq(Urls) /\ web.next[url] \in Seq(Urls) /\ Len(web.next[url]) <= 1
  BY <1>2, WebIs DEF IsApi
<1> DEFINE pages == CASE web.kind = "api_next" -> web.next[url]
             [] web.kind = "api_numbered" /\ web.links[url] # <<>> ->
                    web.next[url]
             [] OTHER -> <<>>
<1>4. pages \in Seq(Urls) /\ ToSet(pages) = Follows(url) /\ Len(pages) <= 1
  <2>1. CASE web.kind = "api_next"
    BY <1>3, <2>1 DEF Follows
  <2>2. CASE web.kind = "api_numbered" /\ web.links[url] # <<>>
    BY <1>3, <2>2 DEF Follows
  <2>3. CASE web.kind = "api_numbered" /\ web.links[url] = <<>>
    <3>1. pages = <<>> /\ Follows(url) = {}
      BY <2>3 DEF Follows
    <3> HIDE DEF pages
    <3> QED
      BY <3>1, ToSetEmpty
  <2>4. CASE web.kind = "api_single"
    <3>1. pages = <<>> /\ Follows(url) = {}
      BY <2>4 DEF Follows
    <3> HIDE DEF pages
    <3> QED
      BY <3>1, ToSetEmpty
  <2> QED
    BY <2>1, <2>2, <2>3, <2>4 DEF IsApi
<1>5. AfterPage(url) = Loop(pages, <<>>, {}, fetch.found + Len(<<>>) - Len(fetch.items),
                            fetch.count + 1)
  <2>1. AfterPage(url) = AfterApiPage(url)
    BY DEF AfterPage, IsApi
  <2> QED
    BY <2>1, Zenon DEF AfterApiPage, Listed
<1>6. /\ fetch.found + Len(<<>>) - Len(fetch.items) = fetch.found /\ fetch.count + 1 \in Nat
  <2>1. Len(fetch.items) = 0 /\ Len(<<>>) = 0
    BY <1>1
  <2> QED
    BY <1>1, <2>1
<1> HIDE DEF pages
<1>7. AfterPage(url) = [pages |-> pages, items |-> <<>>, seen |-> {},
                        found |-> fetch.found, count |-> fetch.count + 1]
  BY <1>5, <1>6 DEF Loop
<1>8. AfterPage(url) \in Fetches
  BY <1>1, <1>4, <1>6, <1>7 DEF Fetches
<1> QED
  BY <1>1, <1>2, <1>4, <1>7, <1>8

LEMMA PageRead ==
    ASSUME FetchTyped, Listing, NEW url, url = Head(fetch.pages)
    PROVE  /\ AfterPage(url) \in Fetches /\ web.kind # "web_page" /\ url \in Urls
           /\ ItemsOnPage(url) \in Seq(Urls)
<1>1. web.kind # "web_page" /\ web.kind \in Kinds
  BY WebIs DEF FetchTyped, Listing, ListsMore
<1>2. url \in Urls
  <2>1. fetch.pages \in Seq(Urls) /\ fetch.pages # <<>>
    BY FetchIs DEF Listing, ListsMore
  <2> QED
    BY <2>1, HeadAndTail
<1>3. ItemsOnPage(url) \in Seq(Urls)
  <2>1. web.links[url] \in Seq(Urls) /\ <<>> \in Seq(Urls)
    BY <1>2, WebIs
  <2> QED
    BY <2>1 DEF ItemsOnPage
<1>4. AfterPage(url) \in Fetches
  <2>1. web.kind = "web_list" \/ web.kind = "sitemap" \/ web.kind = "rss" \/ IsApi
    BY <1>1 DEF Kinds, IsApi
  <2> QED
    BY <2>1, ListPageRead, SitemapRead, FeedRead, ApiPageRead
<1> QED
  BY <1>1, <1>2, <1>3, <1>4

LEMMA RetryDelayIs ==
    ASSUME TaskTyped, Running, NEW error, NEW retryAfter \in Nat
    PROVE  /\ RetryDelay(error, retryAfter) \in Nat
           /\ \/ RetryDelay(error, retryAfter) <= MaxSeconds
              \/ RetryBackoff = "fixed" /\ RetryDelay(error, retryAfter) <= BaseSeconds
<1>1. task.attempts - 1 \in Nat
  BY FetchersAssumption DEF TaskTyped, Tasks, Running
<1>2. /\ RetryBackoff \in {"fixed", "exponential"}
      /\ BaseSeconds \in Nat /\ MaxSeconds \in Nat
  BY FetchersAssumption
<1>3. PICK n \in Nat : n = 2^(task.attempts - 1)
  BY <1>1, PowersOfTwo
<1>4. PICK m \in Nat : m = BaseSeconds * 2^(task.attempts - 1)
  <2>1. BaseSeconds * n \in Nat
    BY <1>2
  <2> QED
    BY <1>3, <2>1
<1>5. /\ Least(MaxSeconds, m) \in Nat /\ Least(MaxSeconds, m) <= MaxSeconds
      /\ Least(MaxSeconds, retryAfter) \in Nat /\ Least(MaxSeconds, retryAfter) <= MaxSeconds
  BY <1>2, LeastIs
<1>6. RetryDelay(error, retryAfter) =
        IF error = "rate_limited" THEN Least(MaxSeconds, retryAfter)
        ELSE IF RetryBackoff = "exponential" THEN Least(MaxSeconds, m) ELSE BaseSeconds
  BY <1>4, Zenon DEF RetryDelay
<1> QED
  BY <1>2, <1>5, <1>6

\* fail_task retries what is worth it while attempts are left.
LEMMA FailTaskIs ==
    ASSUME TaskTyped, Running, NEW retryAfter \in Nat,
           NEW error \in RETRYABLE_ERRORS \cup {"permanent", "configuration"},
           FailTask(error, retryAfter)
    PROVE  /\ TaskTyped' /\ task'.attempts = task.attempts /\ task'.error = error
           /\ \/ /\ task'.status = "waiting" /\ error \in RETRYABLE_ERRORS
                 /\ task'.delay = RetryDelay(error, retryAfter)
              \/ /\ task'.status = "dead"
                 /\ error \notin RETRYABLE_ERRORS \/ task.attempts >= MaxAttempts
<1>1. task \in Tasks /\ task.attempts \in 0..MaxAttempts /\ MaxAttempts \in Nat
  BY FetchersAssumption DEF TaskTyped, Tasks
<1>2. CASE error \in RETRYABLE_ERRORS /\ task.attempts < MaxAttempts
  <2>1. task' = [task EXCEPT !.status = "waiting", !.error = error,
                             !.delay = RetryDelay(error, retryAfter)]
    BY <1>2 DEF FailTask
  <2>2. PICK d \in Nat :
            /\ d = RetryDelay(error, retryAfter)
            /\ d <= MaxSeconds \/ (RetryBackoff = "fixed" /\ d <= BaseSeconds)
    BY RetryDelayIs
  <2>3. /\ task' \in Tasks /\ task'.delay = d /\ task'.status = "waiting"
        /\ task'.attempts = task.attempts /\ task'.error = error
    <3>1. error \in RETRYABLE_ERRORS /\ "waiting" \in {"waiting", "running", "done", "dead"}
      BY <1>2
    <3>2. task' = [task EXCEPT !.status = "waiting", !.error = error, !.delay = d]
      BY <2>1, <2>2
    <3> HIDE DEF RETRYABLE_ERRORS
    <3> QED
      BY <1>1, <2>2, <3>1, <3>2 DEF Tasks
  <2> QED
    BY <1>2, <2>2, <2>3 DEF TaskTyped
<1>3. CASE ~(error \in RETRYABLE_ERRORS /\ task.attempts < MaxAttempts)
  <2>1. task' = [task EXCEPT !.status = "dead", !.error = error]
    BY <1>3 DEF FailTask
  <2>2. /\ task' \in Tasks /\ task'.delay = task.delay /\ task'.status = "dead"
        /\ task'.attempts = task.attempts /\ task'.error = error
    BY <1>1, <2>1 DEF Tasks
  <2> QED
    BY <1>1, <1>3, <2>2 DEF TaskTyped
<1> QED
  BY <1>2, <1>3

LEMMA FirstLoopIs ==
    ASSUME web \in Webs
    PROVE  FirstLoop \in Fetches /\ (web.kind = "web_page" => FirstLoop.pages = <<>>)
<1>1. web.start \in Seq(Urls) /\ <<>> \in Seq(Urls) /\ {} \in SUBSET Urls /\ 0 \in Nat
  BY WebsAssumption
<1>2. FirstLoop = IF web.kind = "web_page"
                  THEN [pages |-> <<>>, items |-> web.start, seen |-> {}, found |-> 0, count |-> 0]
                  ELSE [pages |-> web.start, items |-> <<>>, seen |-> {}, found |-> 0, count |-> 0]
  BY Zenon DEF FirstLoop, Loop
<1> QED
  BY <1>1, <1>2, FetchIsMade

LEMMA InitTyped == Init => TypeInv
<1> SUFFICES ASSUME Init PROVE TypeInv
  OBVIOUS
<1>1. Rate \in Nat /\ RetryAfterCap \in Nat /\ MaxTroubles \in Nat /\ MaxAttempts \in Nat \ {0}
      /\ MaxSeconds \in Nat
  BY HttpAssumption, FetchersAssumption
<1>2. HttpTypeOK
  BY <1>1, NoCallIs DEF Init, HttpInit, HttpTypeOK, FreshSince, FreshRobots
<1>3. TaskTyped
  BY <1>1 DEF Init, TaskTyped, Tasks
<1>4. FetchTyped
  BY FirstLoopIs DEF Init, FetchTyped
<1> QED
  BY <1>2, <1>3, <1>4, NoCallIs DEF Init, HttpInit, TypeInv, CallOfTheLoop

\* An action that ends the call keeps the client's types.
LEMMA CallEnds ==
    ASSUME HttpTypeOK, call' = NoCall, UNCHANGED <<since, robots, heard>>,
           asked' \in [Hosts -> 0..RetryAfterCap],
           unheeded' \subseteq Hosts, spent' \in Int,
           troubles' \in 0..MaxTroubles
    PROVE  HttpTypeOK' /\ CallOfTheLoop'
BY NoCallIs DEF HttpTypeOK, CallOfTheLoop

LEMMA NextTyped == TypeInv /\ [Next]_vars => TypeInv'
<1> SUFFICES ASSUME TypeInv, [Next]_vars PROVE TypeInv'
  OBVIOUS
<1>a. HttpTypeOK /\ TaskTyped /\ FetchTyped /\ CallOfTheLoop
  BY DEF TypeInv
<1>b. /\ call \in Calls /\ fetch \in Fetches /\ task \in Tasks /\ emitted \in Seq(Urls)
      /\ web \in Webs
      /\ asked \in [Hosts -> 0..RetryAfterCap] /\ troubles \in 0..MaxTroubles
      /\ unheeded \subseteq Hosts /\ spent \in Int
      /\ MaxTroubles \in Nat /\ RetryAfterCap \in Nat /\ Rate \in Nat /\ MaxSeconds \in Nat
      /\ MaxAttempts \in Nat
  BY <1>a, HttpAssumption, FetchersAssumption DEF HttpTypeOK, FetchTyped, TaskTyped
<1>c. /\ Trouble => troubles' \in 0..MaxTroubles
      /\ Costs(Attempts) => spent' \in Int
  BY <1>b, HttpAssumption DEF Trouble, Costs, Attempts
<1>1. CASE Execute
  <2>1. HttpTypeOK' /\ CallOfTheLoop'
    BY <1>1, <1>a, <1>b, NoCallIs
       DEF Execute, HttpTypeOK, CallOfTheLoop, FreshSince, FreshRobots
  <2>2. TaskTyped'
    <3>1. task' = [task EXCEPT !.status = "running", !.attempts = @ + 1]
          /\ task.status = "waiting"
      BY <1>1 DEF Execute
    <3>2. task.attempts \in 0..MaxAttempts /\ task.attempts < MaxAttempts
      BY <1>a, <1>b, <3>1 DEF TaskTyped, Tasks
    <3>3. /\ task' \in Tasks /\ task'.delay = task.delay /\ task'.status = "running"
          /\ task'.attempts = task.attempts + 1
      <4>1. PICK n \in 0..MaxAttempts : n = task.attempts + 1
        BY <1>b, <3>2
      <4>2. task' = [task EXCEPT !.status = "running", !.attempts = n]
        BY <1>b, <3>1, <4>1 DEF Tasks
      <4> QED
        BY <1>b, <4>1, <4>2 DEF Tasks
    <3> QED
      BY <1>a, <1>b, <3>2, <3>3 DEF TaskTyped
  <2>3. FetchTyped'
    <3>1. fetch' = FirstLoop /\ emitted' = <<>> /\ web' = web
      BY <1>1 DEF Execute
    <3> QED
      BY <1>b, <3>1, FirstLoopIs DEF FetchTyped
  <2> QED
    BY <2>1, <2>2, <2>3 DEF TypeInv
<1>2. CASE Skip
  <2>1. /\ fetch.pages # <<>> /\ fetch' = [fetch EXCEPT !.pages = Tail(@)]
        /\ UNCHANGED <<httpVars, web, task, emitted>> /\ call.pc = "idle"
    BY <1>2 DEF Skip, ListsMore
  <2>2. Tail(fetch.pages) \in Seq(Urls)
    BY <1>a, <2>1, FetchIs, HeadAndTail
  <2>3. FetchTyped'
    BY <1>a, <1>b, <2>1, <2>2 DEF FetchTyped, Fetches
  <2> QED
    BY <1>a, <2>1, <2>3 DEF TypeInv, httpVars, HttpTypeOK, TaskTyped, CallOfTheLoop
<1>3. CASE GetPage \/ GetItem
  <2>1. PICK url \in Urls :
            /\ call' = At("checking", url, 0, 0) /\ Running
            /\ \/ Listing /\ url = Head(fetch.pages)
               \/ ~ListsMore /\ fetch.items # <<>> /\ url = Head(fetch.items)
            /\ UNCHANGED <<since, robots, serverVars, spent, troubles, fetchVars>>
    <3>1. CASE GetPage
      <4>1. Head(fetch.pages) \in Urls
        BY <1>a, <3>1, FetchIs, HeadAndTail DEF GetPage, ListsMore
      <4>2. /\ call' = At("checking", Head(fetch.pages), 0, 0) /\ Running /\ Listing
            /\ UNCHANGED <<since, robots, serverVars, spent, troubles, fetchVars>>
        BY <3>1 DEF GetPage, Get, Listing
      <4> QED
        BY <4>1, <4>2
    <3>2. CASE GetItem
      <4>1. Head(fetch.items) \in Urls
        BY <1>a, <3>2, FetchIs, HeadAndTail DEF GetItem
      <4> QED
        BY <3>2, <4>1 DEF GetItem, Get
    <3> QED
      BY <1>3, <3>1, <3>2
  <2>2. call' \in Calls /\ call'.pc = "checking" /\ call'.error = "none" /\ call'.url = url
    <3>1. 0 \in 0..Retries /\ HostOf[url] \in Hosts
      BY <2>1, HttpAssumption
    <3> QED
      BY <2>1, <3>1 DEF At, Calls
  <2>3. HttpTypeOK'
    BY <1>a, <2>1, <2>2 DEF HttpTypeOK, serverVars
  <2>4. TaskTyped' /\ FetchTyped'
    BY <1>a, <2>1 DEF TaskTyped, FetchTyped, fetchVars
  <2>5. CallOfTheLoop'
    BY <2>1, <2>2 DEF CallOfTheLoop, fetchVars, Running, Listing, ListsMore, AlreadyVisited,
       CountsPages, IsApi
  <2> QED
    BY <2>3, <2>4, <2>5 DEF TypeInv
<1>4. CASE ReadPage
  <2>1. /\ call.pc = "returned" /\ Listing /\ call' = NoCall /\ fetch' = AfterPage(call.url)
        /\ emitted' = emitted \o ItemsOnPage(call.url)
        /\ UNCHANGED <<since, robots, serverVars, spent, troubles, web, task>>
    BY <1>4 DEF ReadPage
  <2>2. call.url = Head(fetch.pages)
    BY <1>a, <2>1 DEF CallOfTheLoop, Listing
  <2>3. /\ AfterPage(call.url) \in Fetches /\ web.kind # "web_page"
        /\ ItemsOnPage(call.url) \in Seq(Urls)
    BY <1>a, <2>1, <2>2, PageRead
  <2>4. FetchTyped'
    <3>1. emitted' \in Seq(Urls)
      BY <1>b, <2>1, <2>3, ToSetConcat
    <3> QED
      BY <1>b, <2>1, <2>3, <3>1 DEF FetchTyped
  <2>5. HttpTypeOK' /\ CallOfTheLoop'
    BY <1>a, <1>b, <2>1, CallEnds DEF serverVars
  <2> QED
    BY <1>a, <2>1, <2>4, <2>5 DEF TypeInv, TaskTyped
<1>5. CASE EmitItem
  <2>1. /\ call.pc = "returned" /\ ~Listing /\ call' = NoCall
        /\ emitted' = Append(emitted, Head(fetch.items))
        /\ fetch' = [fetch EXCEPT !.items = Tail(@)]
        /\ UNCHANGED <<since, robots, serverVars, spent, troubles, web, task>>
    BY <1>5 DEF EmitItem
  <2>2. fetch.items \in Seq(Urls) /\ fetch.items # <<>>
    BY <1>a, <2>1, FetchIs DEF CallOfTheLoop
  <2>3. Head(fetch.items) \in Urls /\ Tail(fetch.items) \in Seq(Urls)
    BY <2>2, HeadAndTail
  <2>4. FetchTyped'
    <3>1. emitted' \in Seq(Urls)
      BY <1>b, <2>1, <2>3, ToSetAppend
    <3> QED
      BY <1>a, <1>b, <2>1, <2>3, <3>1 DEF FetchTyped, Fetches
  <2>5. HttpTypeOK' /\ CallOfTheLoop'
    BY <1>a, <1>b, <2>1, CallEnds DEF serverVars
  <2> QED
    BY <1>a, <2>1, <2>4, <2>5 DEF TypeInv, TaskTyped
<1>6. CASE Finish
  <2>1. /\ call.pc = "idle" /\ task' = [task EXCEPT !.status = "done"]
        /\ UNCHANGED <<httpVars, web, fetch, emitted>>
    BY <1>6 DEF Finish
  <2>2. TaskTyped'
    BY <1>a, <1>b, <2>1 DEF TaskTyped, Tasks
  <2> QED
    BY <1>a, <2>1, <2>2 DEF TypeInv, httpVars, HttpTypeOK, FetchTyped, CallOfTheLoop
<1>7. CASE ReportFailure
  <2>1. /\ Running /\ call.pc = "raised" /\ FailTask(call.error, call.retry_after)
        /\ call' = NoCall /\ asked' = [h \in Hosts |-> Least(MaxSeconds, asked[h])]
        /\ UNCHANGED <<since, robots, heard, unheeded, spent, troubles, web, fetch, emitted>>
    BY <1>7 DEF ReportFailure
  <2>2. call.error \in RETRYABLE_ERRORS \cup {"permanent"} /\ call.retry_after \in Nat
    BY <1>a, <1>b, <2>1 DEF HttpTypeOK, Calls, RETRYABLE_ERRORS
  <2>3. TaskTyped'
    BY <1>a, <2>1, <2>2, FailTaskIs
  <2>4. asked' \in [Hosts -> 0..RetryAfterCap]
    <3>1. \A n \in 0..RetryAfterCap : Least(MaxSeconds, n) \in 0..RetryAfterCap
      BY <1>b DEF Least
    <3> QED
      BY <1>b, <2>1, <3>1
  <2>5. HttpTypeOK' /\ CallOfTheLoop'
    BY <1>a, <1>b, <2>1, <2>4, CallEnds
  <2> QED
    BY <1>a, <2>1, <2>3, <2>5 DEF TypeInv, FetchTyped
<1>8. CASE Unreadable
  <2>1. /\ Running /\ Trouble /\ call' = NoCall
        /\ \E error \in {"unknown", "configuration"} : FailTask(error, 0)
        /\ Costs(Attempts)
        /\ UNCHANGED <<since, robots, heard, asked, unheeded, web, fetch, emitted>>
    BY <1>8 DEF Unreadable, PageError, serverVars
  <2>2. TaskTyped'
    BY <1>a, <2>1, FailTaskIs DEF RETRYABLE_ERRORS
  <2>3. HttpTypeOK' /\ CallOfTheLoop'
    BY <1>a, <1>b, <1>c, <2>1, CallEnds
  <2> QED
    BY <1>a, <2>1, <2>2, <2>3 DEF TypeInv, FetchTyped
<1>9. CASE Kill
  <2>1. /\ Running /\ Trouble /\ call' = NoCall
        /\ \E error \in {"timeout", "unknown"} : FailTask(error, 0)
        /\ Costs(Attempts) /\ asked' = [h \in Hosts |-> 0] /\ unheeded' = {}
        /\ UNCHANGED <<since, robots, heard, web, fetch, emitted>>
    BY <1>9 DEF Kill
  <2>2. TaskTyped'
    BY <1>a, <2>1, FailTaskIs DEF RETRYABLE_ERRORS
  <2>3. asked' \in [Hosts -> 0..RetryAfterCap]
    BY <1>b, <2>1
  <2>4. HttpTypeOK' /\ CallOfTheLoop'
    BY <1>a, <1>b, <1>c, <2>1, <2>3, CallEnds
  <2> QED
    BY <1>a, <2>1, <2>2, <2>4 DEF TypeInv, FetchTyped
<1>10. CASE HttpStep /\ UNCHANGED fetchVars
  <2>1. HttpTypeOK' /\ call.pc # "idle" /\ call'.url = call.url
    BY <1>10, <1>a, HttpStepTyped
  <2>2. CallOfTheLoop'
    BY <1>10, <1>a, <2>1 DEF CallOfTheLoop, fetchVars, Running, Listing, ListsMore,
       AlreadyVisited, CountsPages, IsApi
  <2> QED
    BY <1>10, <1>a, <2>1, <2>2 DEF TypeInv, TaskTyped, FetchTyped, fetchVars
<1>11. CASE Tick
  <2>1. TimePasses /\ task' = [task EXCEPT !.delay = Shorter(@)]
        /\ UNCHANGED <<web, fetch, emitted>>
    BY <1>11 DEF Tick
  <2>2. HttpTypeOK' /\ call'.pc = call.pc /\ call'.url = call.url
    BY <1>a, <2>1, TimeTyped
  <2>3. TaskTyped'
    <3>1. task.delay \in Nat /\ Shorter(task.delay) \in Nat /\ Shorter(task.delay) <= task.delay
      BY <1>b DEF Tasks, Shorter
    <3>2. /\ task' \in Tasks /\ task'.delay = Shorter(task.delay)
          /\ task'.status = task.status /\ task'.attempts = task.attempts
      BY <1>b, <2>1, <3>1 DEF Tasks
    <3> QED
      BY <1>a, <1>b, <3>1, <3>2, FetchersAssumption DEF TaskTyped
  <2>4. CallOfTheLoop'
    <3>1. task'.status = task.status
      BY <1>b, <2>1 DEF Tasks
    <3> QED
      BY <1>a, <2>1, <2>2, <3>1 DEF CallOfTheLoop, Running, Listing, ListsMore,
         AlreadyVisited, CountsPages, IsApi
  <2> QED
    BY <1>a, <2>1, <2>2, <2>3, <2>4 DEF TypeInv, FetchTyped
<1>12. CASE UNCHANGED vars
  BY <1>12, <1>a DEF TypeInv, vars, httpVars, fetchVars, HttpTypeOK, TaskTyped, FetchTyped,
     CallOfTheLoop, Running, Listing, ListsMore, AlreadyVisited, CountsPages, IsApi
<1> QED
  BY <1>1, <1>2, <1>3, <1>4, <1>5, <1>6, <1>7, <1>8, <1>9, <1>10, <1>11, <1>12
     DEF Next, Step

LEMMA Typed == Spec => []TypeInv
<1>1. Init => TypeInv
  BY InitTyped
<1>2. TypeInv /\ [Next]_vars => TypeInv'
  BY NextTyped
<1> QED
  BY <1>1, <1>2, PTL DEF Spec

\* TypeOK for any configurations, limits and times: the walk, the client and
\* the task keep their types, and a retry never waits longer than RetrySpec
\* allows or for a negative time.
THEOREM TypeCorrect == Spec => []TypeOK
BY Typed, TypesSuffice, PTL

-----------------------------------------------------------------------------
(* Requests to one host *)

\* While a request waits for its turn, what it has slept and what it will
\* sleep make up for the rate; the server's clock is never behind the client's.
SpacingInv ==
    /\ TypeInv
    /\ call.pc = "pacing" => since[Host] + call.sleep >= Rate
    /\ \A h \in Hosts : since[h] <= heard[h]

LEMMA SpacingNext == SpacingInv /\ [Next]_vars => SpacingInv'
<1> SUFFICES ASSUME SpacingInv, [Next]_vars PROVE SpacingInv'
  OBVIOUS
<1>a. /\ TypeInv' /\ TypeInv
      /\ call.pc = "pacing" => since[Host] + call.sleep >= Rate
      /\ \A h \in Hosts : since[h] <= heard[h]
  BY NextTyped DEF SpacingInv
<1>b. /\ call \in Calls /\ since \in [Hosts -> 0..Rate] /\ heard \in [Hosts -> 0..Rate]
      /\ Rate \in Nat /\ Host \in Hosts /\ call.sleep \in Nat
  <2>1. call \in Calls /\ since \in [Hosts -> 0..Rate] /\ heard \in [Hosts -> 0..Rate]
    BY <1>a DEF TypeInv, HttpTypeOK
  <2> QED
    BY <2>1, CallMoves, HttpAssumption DEF Calls
<1>c. ASSUME call'.pc # "pacing" \/ UNCHANGED call, UNCHANGED <<since, heard>>
      PROVE  SpacingInv'
  BY <1>a, <1>c DEF SpacingInv, Host
<1>d. ASSUME call' = At("pacing", call.url, call.attempt, Pause), UNCHANGED <<since, heard>>
      PROVE  SpacingInv'
  <2>1. call'.sleep = Rate - since[Host] /\ Host' = Host
    BY <1>d, Zenon DEF At, Pause, Host
  <2> QED
    BY <1>a, <1>b, <1>d, <2>1 DEF SpacingInv
<1>1. CASE Execute
  BY <1>1, <1>a, <1>b, NoCallIs DEF Execute, SpacingInv, FreshSince
<1>2. CASE Skip \/ Finish
  BY <1>2, <1>c DEF Skip, Finish, httpVars
<1>3. CASE GetPage \/ GetItem
  BY <1>3, <1>c DEF GetPage, GetItem, Get, At, serverVars
<1>4. CASE ReadPage \/ EmitItem \/ ReportFailure \/ Unreadable \/ Kill
  BY <1>4, <1>c, NoCallIs DEF ReadPage, EmitItem, ReportFailure, Unreadable, Kill, serverVars
<1>5. CASE HttpStep /\ UNCHANGED fetchVars
  <2>1. CASE Unresolved \/ Refuse \/ Rejected \/ RedirectUnresolved \/ BrokenBody
    <3>1. /\ \E error \in {"transient", "permanent", "unknown"} : Raise(error, 0)
          /\ UNCHANGED <<since, heard>>
      BY <2>1 DEF Unresolved, Refuse, Rejected, RedirectUnresolved, BrokenBody, serverVars
    <3> QED
      BY <1>b, <1>c, <3>1, CallMoves DEF Raise
  <2>2. CASE LoadRobots
    BY <2>2, <1>c DEF LoadRobots
  <2>3. CASE Admit
    <3>1. call.attempt \in 0..Retries /\ call' = At("pacing", call.url, 0, Pause)
          /\ UNCHANGED <<since, heard>>
      BY <2>3, <1>b DEF Admit, Calls, serverVars
    <3>2. call'.sleep = Rate - since[Host] /\ Host' = Host
      BY <3>1, Zenon DEF At, Pause, Host
    <3> QED
      BY <1>a, <1>b, <3>1, <3>2 DEF SpacingInv
  <2>4. CASE Send
    <3>1. /\ since' = [since EXCEPT ![Host] = 0] /\ heard' = [heard EXCEPT ![Host] = 0]
          /\ call' = [call EXCEPT !.pc = "sent"]
      BY <2>4 DEF Send, Remember
    <3>2. call'.pc = "sent"
      BY <1>b, <3>1, CallMoves
    <3>3. \A h \in Hosts : since'[h] <= heard'[h]
      BY <1>a, <1>b, <3>1
    <3> QED
      BY <1>a, <3>2, <3>3 DEF SpacingInv
  <2>5. CASE Answer
    BY <2>5, <1>b, <1>c, CallMoves DEF Answer, serverVars
  <2>6. ASSUME NEW header, RateLimited(header)
        PROVE  SpacingInv'
    <3>1. call'.pc \in {"raised", "backoff"} /\ UNCHANGED <<since, heard>>
      <4>1. UNCHANGED <<since, heard>>
        BY <2>6 DEF RateLimited
      <4>2. CASE LastAttempt
        BY <2>6, <1>b, <4>1, <4>2 DEF RateLimited, Raise, Raised, Calls
      <4>3. CASE ~LastAttempt
        BY <2>6, <4>1, <4>3 DEF RateLimited, Backoff, At
      <4> QED
        BY <4>2, <4>3
    <3> QED
      BY <1>c, <3>1
  <2>7. CASE Unavailable
    <3>1. call'.pc \in {"raised", "backoff"} /\ UNCHANGED <<since, heard>>
      <4>1. UNCHANGED <<since, heard>>
        BY <2>7 DEF Unavailable, serverVars
      <4>2. CASE LastAttempt
        BY <2>7, <1>b, <4>1, <4>2 DEF Unavailable, Raise, Raised, Calls
      <4>3. CASE ~LastAttempt
        BY <2>7, <4>1, <4>3 DEF Unavailable, Backoff, At
      <4> QED
        BY <4>2, <4>3
    <3> QED
      BY <1>c, <3>1
  <2>8. CASE NextAttempt
    BY <2>8, <1>d DEF NextAttempt, serverVars
  <2>9. ASSUME NEW h \in Hosts, Redirect(h)
        PROVE  SpacingInv'
    BY <2>9, <1>b, <1>c, CallMoves DEF Redirect, serverVars
  <2> QED
    BY <1>5, <2>1, <2>2, <2>3, <2>4, <2>5, <2>6, <2>7, <2>8, <2>9 DEF HttpStep, Respond
<1>6. CASE Tick
  <2>1. TimePasses
    BY <1>6 DEF Tick
  <2>2. /\ call'.pc = call.pc /\ Host' = Host /\ call'.sleep = Shorter(call.sleep)
        /\ since' = [h \in Hosts |-> Least(Rate, since[h] + 1)]
        /\ heard' = [h \in Hosts |-> Least(Rate, heard[h] + 1)]
    BY <1>a, <2>1, TimeTyped DEF TypeInv, TimePasses, Younger, Host
  <2>3. \A h \in Hosts : since'[h] <= heard'[h]
    BY <1>a, <1>b, <2>2 DEF Least
  <2>4. call'.pc = "pacing" => since'[Host] + call'.sleep >= Rate
    BY <1>a, <1>b, <2>2 DEF Least, Shorter
  <2> QED
    BY <1>a, <2>2, <2>3, <2>4 DEF SpacingInv
<1>7. CASE UNCHANGED vars
  BY <1>7, <1>c DEF vars, httpVars
<1> QED
  BY <1>1, <1>2, <1>3, <1>4, <1>5, <1>6, <1>7 DEF Next, Step

\* RequestsAreSpaced for any rate, any number of hosts, attempts and pages:
\* _respect_rate keeps two requests that `get` sends for URLs of one host at
\* least rate_limit_seconds apart, whatever hops lie between them.
THEOREM RequestsToAHostAreSpaced == Spec => RequestsAreSpaced
<1>1. Init => SpacingInv
  <2> SUFFICES ASSUME Init PROVE SpacingInv
    OBVIOUS
  <2>1. TypeInv /\ call.pc = "idle" /\ Rate \in Nat
    BY InitTyped, NoCallIs, HttpAssumption DEF Init, HttpInit
  <2>2. \A h \in Hosts : since[h] = Rate /\ heard[h] = Rate
    BY DEF Init, HttpInit, FreshSince
  <2> QED
    BY <2>1, <2>2 DEF SpacingInv
<1>2. SpacingInv /\ [Next]_vars => SpacingInv'
  BY SpacingNext
<1>3. SpacingInv => (Send => heard[Host] >= Rate)
  <2> SUFFICES ASSUME SpacingInv, Send PROVE heard[Host] >= Rate
    OBVIOUS
  <2>1. /\ since \in [Hosts -> 0..Rate] /\ heard \in [Hosts -> 0..Rate] /\ Host \in Hosts
        /\ Rate \in Nat
    BY CallMoves, HttpAssumption DEF SpacingInv, TypeInv, HttpTypeOK
  <2>2. since[Host] + 0 >= Rate /\ since[Host] <= heard[Host]
    BY <2>1 DEF SpacingInv, Send
  <2> QED
    BY <2>1, <2>2
<1> QED
  BY <1>1, <1>2, <1>3, PTL DEF Spec, RequestsAreSpaced

-----------------------------------------------------------------------------
(* Retry-After *)

\* What a server has asked for is over, or came with robots.txt.
Quiet(h) == asked[h] = 0 \/ h \in unheeded

\* Or it is slept out by the call, will be reported with its error, is slept out
\* by the task, or the task is at its end.
Waits(h) ==
    \/ task.status = "dead"
    \/ task.status = "waiting" /\ asked[h] <= task.delay
    \/ /\ Running
       /\ \/ call.pc = "backoff" /\ asked[h] <= call.sleep
          \/ call.pc = "raised" /\ call.error = "rate_limited" /\ asked[h] <= call.retry_after

WaitInv == TypeInv /\ \A h \in Hosts : Quiet(h) \/ Waits(h)

LEMMA WaitNext == WaitInv /\ [Next]_vars => WaitInv'
<1> SUFFICES ASSUME WaitInv, [Next]_vars PROVE WaitInv'
  OBVIOUS
<1>a. TypeInv' /\ TypeInv /\ \A h \in Hosts : Quiet(h) \/ Waits(h)
  BY NextTyped DEF WaitInv
<1>b. /\ HttpTypeOK /\ TaskTyped /\ CallOfTheLoop
      /\ call \in Calls /\ asked \in [Hosts -> 0..RetryAfterCap] /\ RetryAfterCap \in Nat
      /\ Host \in Hosts /\ call.sleep \in Nat /\ call.retry_after \in Nat
      /\ task \in Tasks /\ task.delay \in Nat /\ MaxSeconds \in Nat
  <2>1. /\ HttpTypeOK /\ TaskTyped /\ CallOfTheLoop /\ call \in Calls /\ task \in Tasks
        /\ asked \in [Hosts -> 0..RetryAfterCap]
    BY <1>a DEF TypeInv, HttpTypeOK, TaskTyped
  <2> QED
    BY <2>1, CallMoves, HttpAssumption, FetchersAssumption DEF Calls, Tasks
<1>c. ASSUME \A h \in Hosts : Quiet(h)'
      PROVE  WaitInv'
  BY <1>a, <1>c DEF WaitInv
<1>d. ASSUME Running, call.pc \notin {"backoff", "raised"}
      PROVE  \A h \in Hosts : Quiet(h)
  BY <1>a, <1>d DEF Waits, Running
<1>e. ASSUME UNCHANGED <<call, asked, unheeded, task>>
      PROVE  WaitInv'
  BY <1>a, <1>e DEF WaitInv, Quiet, Waits, Running
<1>f. ASSUME UNCHANGED <<asked, unheeded>>, \A h \in Hosts : Quiet(h)
      PROVE  WaitInv'
  <2>1. \A h \in Hosts : Quiet(h)'
    BY <1>f DEF Quiet
  <2> QED
    BY <1>c, <2>1
<1>1. CASE Execute
  <2>1. \A h \in Hosts : Quiet(h)
    BY <1>1, <1>a, <1>b DEF Execute, Quiet, Waits, Running
  <2> QED
    BY <1>1, <1>f, <2>1 DEF Execute
<1>2. CASE Skip \/ GetPage \/ GetItem \/ ReadPage \/ EmitItem \/ Finish \/ Unreadable
  BY <1>2, <1>f, <1>d
     DEF Skip, GetPage, GetItem, ReadPage, EmitItem, Finish, Unreadable, httpVars, serverVars
<1>3. CASE Kill
  <2>1. \A h \in Hosts : Quiet(h)'
    BY <1>3 DEF Kill, Quiet
  <2> QED
    BY <1>c, <2>1
<1>4. CASE ReportFailure
  <2>1. /\ Running /\ call.pc = "raised" /\ FailTask(call.error, call.retry_after)
        /\ asked' = [h \in Hosts |-> Least(MaxSeconds, asked[h])] /\ unheeded' = unheeded
    BY <1>4 DEF ReportFailure
  <2>2. call.error \in RETRYABLE_ERRORS \cup {"permanent"}
    BY <1>b, <2>1 DEF HttpTypeOK, Calls, RETRYABLE_ERRORS
  <2>3. \/ task'.status = "waiting" /\ task'.delay = RetryDelay(call.error, call.retry_after)
        \/ task'.status = "dead"
    BY <1>b, <2>1, <2>2, FailTaskIs
  <2>4. ASSUME NEW h \in Hosts
        PROVE  Quiet(h)' \/ Waits(h)'
    <3>1. asked'[h] = Least(MaxSeconds, asked[h]) /\ asked[h] \in Nat
      BY <1>b, <2>1
    <3>2. CASE Quiet(h)
      BY <1>b, <2>1, <3>1, <3>2 DEF Least, Quiet
    <3>3. CASE call.error = "rate_limited" /\ asked[h] <= call.retry_after
      <4>1. RetryDelay(call.error, call.retry_after) = Least(MaxSeconds, call.retry_after)
        BY <3>3, Zenon DEF RetryDelay
      <4> QED
        BY <1>b, <2>3, <3>1, <3>3, <4>1 DEF Least, Waits
    <3> QED
      BY <1>a, <2>1, <3>2, <3>3 DEF Waits, Running
  <2> QED
    BY <1>a, <2>4 DEF WaitInv
<1>5. CASE HttpStep /\ UNCHANGED fetchVars
  <2>1. Running /\ UNCHANGED task
    BY <1>5, <1>b, HttpStepTyped DEF CallOfTheLoop, fetchVars
  <2>2. CASE \/ Unresolved \/ Refuse \/ Admit \/ Send \/ Answer \/ Unavailable
             \/ Rejected \/ RedirectUnresolved \/ BrokenBody
    <3>1. call.pc \in {"checking", "pacing", "sent"} /\ UNCHANGED <<asked, unheeded>>
      BY <2>2 DEF Unresolved, Refuse, Admit, Send, Answer, Unavailable,
         Rejected, RedirectUnresolved, BrokenBody, serverVars
    <3> QED
      BY <1>f, <1>d, <2>1, <3>1
  <2>5. ASSUME NEW h \in Hosts, Redirect(h)
        PROVE  WaitInv'
    BY <1>f, <1>d, <2>1, <2>5 DEF Redirect, serverVars
  <2>6. CASE LoadRobots
    <3>1. \A h \in Hosts : Quiet(h)
      BY <1>d, <2>1, <2>6 DEF LoadRobots
    <3>2. CASE UNCHANGED <<asked, unheeded>>
      BY <1>f, <3>1, <3>2
    <3>3. CASE /\ \E n : asked' = [asked EXCEPT ![Host] = n]
               /\ unheeded' = unheeded \cup {Host}
      <4>1. \A h \in Hosts : Quiet(h)'
        BY <1>b, <3>1, <3>3 DEF Quiet
      <4> QED
        BY <1>c, <4>1
    <3> QED
      BY <2>6, <3>2, <3>3 DEF LoadRobots
  <2>3. ASSUME NEW header \in RetryAfters \cup {NoHeader}, RateLimited(header)
        PROVE  WaitInv'
    <3>1. call.pc = "sent" /\ AsksToWait(header)
      BY <2>3 DEF RateLimited
    <3>2. \A h \in Hosts : Quiet(h)
      BY <1>d, <2>1, <3>1
    <3>3. CASE header = NoHeader
      BY <1>f, <3>1, <3>2, <3>3 DEF AsksToWait
    <3>4. CASE header # NoHeader
      <4>1. header \in Nat /\ Delay(header) = Least(RetryAfterCap, header)
        BY <2>3, <3>4, HttpAssumption DEF Delay
      <4>2. Delay(header) \in Nat
        BY <1>b, <4>1, LeastIs
      <4>3. \/ call'.pc = "raised" /\ call'.error = "rate_limited"
               /\ call'.retry_after = Delay(header)
            \/ call'.pc = "backoff" /\ call'.sleep = Delay(header)
        <5>1. CASE LastAttempt
          <6>1. call' = Raised("rate_limited", Delay(header))
            BY <2>3, <5>1 DEF RateLimited, Raise
          <6> QED
            BY <1>b, <4>2, <6>1, CallMoves
        <5>2. CASE ~LastAttempt
          <6>1. call' = At("backoff", call.url, call.attempt + 1, Delay(header))
            BY <2>3, <5>2 DEF RateLimited, Backoff
          <6> QED
            BY <6>1, Zenon DEF At
        <5> QED
          BY <5>1, <5>2
      <4>5. /\ asked' = [asked EXCEPT ![call.at] = Delay(header)]
            /\ unheeded' = unheeded \ {call.at}
        BY <3>1, <3>4, <4>1 DEF AsksToWait
      <4>4. ASSUME NEW h \in Hosts
            PROVE  Quiet(h)' \/ Waits(h)'
        <5>1. CASE h = call.at
          <6>1. asked'[h] = Delay(header)
            BY <1>b, <4>5, <5>1
          <6> QED
            BY <2>1, <4>2, <4>3, <6>1 DEF Waits, Running
        <5>2. CASE h # call.at
          BY <1>b, <3>2, <4>5, <5>2 DEF Quiet
        <5> QED
          BY <5>1, <5>2
      <4> QED
        BY <1>a, <4>4 DEF WaitInv
    <3> QED
      BY <3>3, <3>4
  <2>4. CASE NextAttempt
    <3>1. call.pc = "backoff" /\ call.sleep = 0 /\ UNCHANGED <<asked, unheeded>>
      BY <2>4 DEF NextAttempt, serverVars
    <3>2. \A h \in Hosts : Quiet(h)
      BY <1>a, <1>b, <2>1, <3>1 DEF Quiet, Waits, Running
    <3> QED
      BY <1>f, <3>1, <3>2
  <2> QED
    BY <1>5, <2>2, <2>3, <2>4, <2>5, <2>6 DEF HttpStep, Respond
<1>6. CASE Tick
  <2>1. /\ TimePasses /\ task'.status = task.status /\ task'.delay = Shorter(task.delay)
        /\ asked' = [h \in Hosts |-> Shorter(asked[h])]
        /\ unheeded' = {h \in unheeded : asked[h] > 1}
    BY <1>6, <1>b DEF Tick, TimePasses, Tasks
  <2>2. /\ call'.pc = call.pc /\ call'.sleep = Shorter(call.sleep)
        /\ call'.retry_after = call.retry_after /\ call'.error = call.error
    BY <1>b, <2>1, TimeTyped
  <2>3. ASSUME NEW h \in Hosts
        PROVE  Quiet(h)' \/ Waits(h)'
    <3>1. asked'[h] = Shorter(asked[h]) /\ asked[h] \in Nat
      BY <1>b, <2>1
    <3>2. CASE Quiet(h)
      BY <2>1, <3>1, <3>2 DEF Shorter, Quiet
    <3>3. CASE ~Quiet(h)
      BY <1>a, <1>b, <2>1, <2>2, <3>1, <3>3 DEF Waits, Running, Shorter
    <3> QED
      BY <3>2, <3>3
  <2> QED
    BY <1>a, <2>3 DEF WaitInv
<1>7. CASE UNCHANGED vars
  BY <1>7, <1>e DEF vars, httpVars, fetchVars
<1> QED
  BY <1>1, <1>2, <1>3, <1>4, <1>5, <1>6, <1>7 DEF Next, Step

\* RetryAfterIsHonoured for any Retry-After: neither a further attempt of `get`,
\* nor a hop, nor the next execution of the task asks for a page too early.
THEOREM RetryAfterIsSleptOut == Spec => RetryAfterIsHonoured
<1>1. Init => WaitInv
  BY InitTyped DEF Init, HttpInit, WaitInv, Quiet
<1>2. WaitInv /\ [Next]_vars => WaitInv'
  BY WaitNext
<1>3. WaitInv => /\ Send => asked[Host] = 0 \/ Host \in unheeded
                 /\ \A h \in Hosts : Redirect(h) => asked[h] = 0 \/ h \in unheeded
  <2>1. ASSUME WaitInv, call.pc \in {"pacing", "sent"}
        PROVE  \A h \in Hosts : asked[h] = 0 \/ h \in unheeded
    <3>1. Running
      BY <2>1 DEF WaitInv, TypeInv, CallOfTheLoop
    <3> QED
      BY <2>1, <3>1 DEF WaitInv, Quiet, Waits, Running
  <2>2. WaitInv => Host \in Hosts
    BY CallMoves DEF WaitInv, TypeInv, HttpTypeOK
  <2>3. /\ Send => call.pc = "pacing"
        /\ \A h \in Hosts : Redirect(h) => call.pc = "sent"
    BY DEF Send, Redirect
  <2> QED
    BY <2>1, <2>2, <2>3
<1> QED
  BY <1>1, <1>2, <1>3, PTL DEF Spec, RetryAfterIsHonoured

-----------------------------------------------------------------------------
(* Retries *)

LEMMA TimesOneMore ==
    ASSUME NEW k \in Nat, NEW n \in Nat
    PROVE  k * n \in Nat /\ k * (n + 1) = k * n + k
OBVIOUS

\* What the executions that have failed have cost.
Lost == Attempts * (IF Running THEN task.attempts - 1 ELSE task.attempts)

\* Each execution that failed has used up the attempts of a `get`; the one that
\* runs has used up those of the `get` under way.
SurvivalInv ==
    /\ TypeInv
    /\ task.status # "done" /\ task.error \notin {"permanent", "configuration"}
           => spent >= Lost
    /\ call.pc \in {"checking", "pacing", "sent", "backoff"}
           => spent >= Lost + call.attempt
    /\ call.pc = "raised" /\ call.error # "permanent" => spent >= Lost + Attempts
    /\ task.status = "dead" /\ task.error \notin {"permanent", "configuration"}
           => task.attempts >= MaxAttempts
    /\ task.error \in {"permanent", "configuration"} => task.status = "dead"

LEMMA SurvivalNext == SurvivalInv /\ [Next]_vars => SurvivalInv'
<1> SUFFICES ASSUME SurvivalInv, [Next]_vars PROVE SurvivalInv'
  OBVIOUS
<1> DEFINE Final == {"permanent", "configuration"}
<1>a. /\ TypeInv' /\ TypeInv
      /\ task.status # "done" /\ task.error \notin Final => spent >= Lost
      /\ call.pc \in {"checking", "pacing", "sent", "backoff"}
             => spent >= Lost + call.attempt
      /\ call.pc = "raised" /\ call.error # "permanent" => spent >= Lost + Attempts
      /\ task.status = "dead" /\ task.error \notin Final => task.attempts >= MaxAttempts
      /\ task.error \in Final => task.status = "dead"
  BY NextTyped DEF SurvivalInv
<1>b. /\ HttpTypeOK /\ TaskTyped /\ CallOfTheLoop
      /\ call \in Calls /\ task \in Tasks /\ call.retry_after \in Nat
      /\ call.attempt \in Nat /\ Retries \in Nat /\ Attempts \in Nat
      /\ spent \in Int /\ spent' \in Int
      /\ call.pc # "idle" => Running
  <2>1. HttpTypeOK /\ TaskTyped /\ CallOfTheLoop /\ HttpTypeOK'
    BY <1>a DEF TypeInv
  <2>2. call \in Calls /\ task \in Tasks /\ spent \in Int /\ spent' \in Int
    BY <2>1 DEF HttpTypeOK, TaskTyped
  <2> QED
    BY <2>1, <2>2, CallMoves, HttpAssumption DEF CallOfTheLoop, Calls, Attempts
<1>l. /\ Lost \in Nat
      /\ Running => Attempts * task.attempts = Lost + Attempts
  <2>1. task.attempts \in Nat /\ (Running => task.attempts - 1 \in Nat)
    BY <1>b, FetchersAssumption DEF TaskTyped, Tasks, Running
  <2>2. PICK n \in Nat : n = IF Running THEN task.attempts - 1 ELSE task.attempts
    BY <2>1
  <2>3. Attempts * n \in Nat /\ Attempts * (n + 1) = Attempts * n + Attempts
    BY <1>b, TimesOneMore
  <2>4. Lost = Attempts * n
    BY <2>2, Zenon DEF Lost
  <2>5. Running => task.attempts = n + 1
    BY <2>1, <2>2
  <2> QED
    BY <2>3, <2>4, <2>5
<1>r. Running => task.error \notin Final
  BY <1>a DEF Running
\* A step of `get` that does not raise.
<1>c. ASSUME UNCHANGED task, call'.pc \notin {"checking", "pacing", "sent", "backoff", "raised"},
             spent' >= Lost \/ UNCHANGED spent
      PROVE  SurvivalInv'
  <2>1. Lost' = Lost
    BY <1>c DEF Lost, Running
  <2> QED
    BY <1>a, <1>c, <2>1 DEF SurvivalInv
<1>d. ASSUME UNCHANGED task, Running, call'.pc # "raised",
             spent' >= Lost + call'.attempt, call'.attempt \in Nat
      PROVE  SurvivalInv'
  <2>1. Lost' = Lost
    BY <1>d DEF Lost, Running
  <2>2. spent' >= Lost
    BY <1>b, <1>d, <1>l
  <2> QED
    BY <1>a, <1>d, <2>1, <2>2 DEF SurvivalInv
\* A step of `get` that raises.
<1>e. ASSUME UNCHANGED task, Running, call'.pc = "raised", spent' >= Lost,
             call'.error # "permanent" => spent' >= Lost + Attempts
      PROVE  SurvivalInv'
  <2>1. Lost' = Lost
    BY <1>e DEF Lost, Running
  <2> QED
    BY <1>a, <1>e, <2>1 DEF SurvivalInv
\* An execution that fails.
<1>f. ASSUME NEW error \in RETRYABLE_ERRORS \cup Final, NEW retryAfter \in Nat, Running,
             FailTask(error, retryAfter), call' = NoCall,
             error \notin Final => spent' >= Lost + Attempts
      PROVE  SurvivalInv'
  <2>1. /\ task'.attempts = task.attempts /\ task'.error = error
        /\ \/ task'.status = "waiting" /\ error \in RETRYABLE_ERRORS
           \/ /\ task'.status = "dead"
              /\ error \notin RETRYABLE_ERRORS \/ task.attempts >= MaxAttempts
    BY <1>b, <1>f, FailTaskIs
  <2>2. Lost' = Lost + Attempts
    BY <1>f, <1>l, <2>1 DEF Lost, Running
  <2>3. error \in RETRYABLE_ERRORS <=> error \notin Final
    BY <1>f DEF RETRYABLE_ERRORS
  <2> QED
    BY <1>a, <1>f, <2>1, <2>2, <2>3, NoCallIs DEF SurvivalInv
<1> HIDE DEF Final
<1>1. CASE Execute
  <2>1. /\ task.status = "waiting" /\ task'.status = "running"
        /\ task'.attempts = task.attempts + 1 /\ task'.error = task.error
        /\ call' = NoCall /\ spent' = spent
    BY <1>1, <1>b DEF Execute, Tasks
  <2>2. task.attempts \in Nat
    BY <1>b, FetchersAssumption DEF Tasks
  <2>3. Lost' = Lost
    <3>1. task'.attempts - 1 = task.attempts
      BY <2>1, <2>2
    <3> QED
      BY <2>1, <3>1 DEF Lost, Running
  <2> QED
    BY <1>a, <2>1, <2>3, NoCallIs DEF SurvivalInv, Final
<1>2. CASE Skip
  <2>1. UNCHANGED <<task, call, spent>> /\ call.pc = "idle"
    BY <1>2 DEF Skip, httpVars
  <2> QED
    BY <1>c, <2>1
<1>3. CASE GetPage \/ GetItem
  <2>1. /\ UNCHANGED <<task, spent>> /\ Running
        /\ call'.pc = "checking" /\ call'.attempt = 0
    BY <1>3 DEF GetPage, GetItem, Get, At, fetchVars
  <2>2. spent >= Lost
    BY <1>a, <1>r, <2>1 DEF Running
  <2> QED
    BY <1>b, <1>d, <1>l, <2>1, <2>2
<1>4. CASE ReadPage \/ EmitItem
  BY <1>4, <1>c, NoCallIs DEF ReadPage, EmitItem
<1>5. CASE Finish
  <2>1. /\ task'.status = "done" /\ task'.error = task.error /\ call.pc = "idle"
        /\ Running /\ UNCHANGED <<call, spent>>
    BY <1>5, <1>b DEF Finish, Tasks, httpVars
  <2> QED
    BY <1>a, <1>r, <2>1 DEF SurvivalInv, Final
<1>7. CASE ReportFailure
  <2>1. /\ Running /\ call.pc = "raised" /\ FailTask(call.error, call.retry_after)
        /\ call' = NoCall /\ spent' = spent
    BY <1>7 DEF ReportFailure
  <2>2. /\ call.error \in RETRYABLE_ERRORS \cup Final
        /\ call.error \notin Final => call.error # "permanent"
    BY <1>b, <2>1 DEF HttpTypeOK, Calls, RETRYABLE_ERRORS, Final
  <2> QED
    BY <1>a, <1>b, <1>f, <2>1, <2>2
<1>8. ASSUME Running, Costs(Attempts), NEW error \in RETRYABLE_ERRORS \cup Final,
             FailTask(error, 0), call' = NoCall
      PROVE  SurvivalInv'
  <2>1. spent >= Lost /\ spent' = spent + Attempts
    BY <1>8, <1>a, <1>r DEF Running, Costs
  <2>2. spent' >= Lost + Attempts
    BY <1>b, <1>l, <2>1
  <2> QED
    BY <1>8, <1>f, <2>2
<1>9. CASE Unreadable
  <2>1. /\ Running /\ Costs(Attempts) /\ call' = NoCall
        /\ \E error \in {"unknown", "configuration"} : FailTask(error, 0)
    BY <1>9 DEF Unreadable, PageError
  <2> QED
    BY <1>8, <2>1 DEF RETRYABLE_ERRORS, Final
<1>10. CASE Kill
  <2>1. /\ Running /\ Costs(Attempts) /\ call' = NoCall
        /\ \E error \in {"timeout", "unknown"} : FailTask(error, 0)
    BY <1>10 DEF Kill
  <2> QED
    BY <1>8, <2>1 DEF RETRYABLE_ERRORS
<1>11. CASE HttpStep /\ UNCHANGED fetchVars
  <2>1. Running /\ UNCHANGED task /\ task.error \notin Final /\ spent >= Lost
    <3>1. Running /\ UNCHANGED task
      BY <1>11, <1>b, HttpStepTyped DEF fetchVars
    <3> QED
      BY <1>a, <1>r, <3>1 DEF Running
  <2>2. CASE Refuse \/ Rejected
    <3>1. Raise("permanent", 0) /\ spent' = spent
      BY <2>2 DEF Refuse, Rejected
    <3>2. call'.pc = "raised" /\ call'.error = "permanent"
      BY <1>b, <3>1, CallMoves DEF Raise
    <3> QED
      BY <1>e, <2>1, <3>1, <3>2
  <2>3. CASE Unresolved \/ RedirectUnresolved \/ BrokenBody
    <3>1. /\ \E error \in {"transient", "unknown"} : Raise(error, 0)
          /\ spent' = spent + Attempts
      BY <2>3 DEF Unresolved, RedirectUnresolved, BrokenBody, Costs
    <3>2. call'.pc = "raised"
      BY <1>b, <3>1, CallMoves DEF Raise
    <3>3. spent' >= Lost /\ spent' >= Lost + Attempts
      BY <1>b, <1>l, <2>1, <3>1
    <3> QED
      BY <1>e, <2>1, <3>2, <3>3
  <2>4. CASE LoadRobots \/ Send \/ NextAttempt \/ \E h \in Hosts : Redirect(h)
    <3>1. /\ call'.pc # "raised" /\ call'.attempt = call.attempt
          /\ call.pc \in {"checking", "pacing", "sent", "backoff"} /\ spent' = spent
      <4>1. CASE LoadRobots
        BY <4>1 DEF LoadRobots
      <4>2. CASE NextAttempt
        BY <4>2 DEF NextAttempt, At
      <4>3. CASE Send
        BY <4>3, <1>b, CallMoves DEF Send
      <4>4. CASE \E h \in Hosts : Redirect(h)
        BY <4>4, <1>b, CallMoves DEF Redirect
      <4> QED
        BY <2>4, <4>1, <4>2, <4>3, <4>4
    <3> QED
      BY <1>a, <1>b, <1>d, <2>1, <3>1
  <2>5. CASE Admit
    <3>1. call'.pc = "pacing" /\ call'.attempt = 0 /\ spent' = spent
      BY <2>5 DEF Admit, At
    <3> QED
      BY <1>b, <1>d, <1>l, <2>1, <3>1
  <2>6. CASE Answer
    <3>1. call'.pc = "returned" /\ spent' = spent - call.attempt /\ call.pc = "sent"
      BY <2>6, <1>b, CallMoves DEF Answer
    <3>2. spent' >= Lost
      BY <1>a, <1>b, <1>l, <3>1
    <3> QED
      BY <1>c, <2>1, <3>1, <3>2
  <2>7. ASSUME NEW error \in {"transient", "rate_limited"}, NEW delay \in Nat, NEW sleep,
               call.pc = "sent", Costs(1),
               IF LastAttempt THEN Raise(error, delay) ELSE Backoff(sleep)
        PROVE  SurvivalInv'
    <3>1. spent' = spent + 1 /\ spent >= Lost + call.attempt
      BY <1>a, <2>7 DEF Costs
    <3>2. CASE LastAttempt
      <4>1. call'.pc = "raised"
        BY <1>b, <2>7, <3>2, CallMoves DEF Raise
      <4>2. call.attempt >= Retries /\ Attempts = Retries + 1
        BY <3>2 DEF LastAttempt, Attempts
      <4>3. spent' >= Lost /\ spent' >= Lost + Attempts
        BY <1>b, <1>l, <3>1, <4>2
      <4> QED
        BY <1>e, <2>1, <4>1, <4>3
    <3>3. CASE ~LastAttempt
      <4>1. call'.pc = "backoff" /\ call'.attempt = call.attempt + 1
        <5>1. call' = At("backoff", call.url, call.attempt + 1, sleep)
          BY <2>7, <3>3 DEF Backoff
        <5> QED
          BY <5>1 DEF At
      <4>2. spent' >= Lost + (call.attempt + 1) /\ call.attempt + 1 \in Nat
        <5>1. PICK before \in Int, lost \in Nat, attempt \in Nat :
                  before = spent /\ lost = Lost /\ attempt = call.attempt
          BY <1>b, <1>l
        <5>2. before + 1 >= lost + (attempt + 1) /\ attempt + 1 \in Nat
          BY <3>1, <5>1
        <5> QED
          BY <3>1, <5>1, <5>2
      <4> QED
        BY <1>d, <2>1, <4>1, <4>2
    <3> QED
      BY <3>2, <3>3
  <2>8. ASSUME NEW header \in RetryAfters \cup {NoHeader}, RateLimited(header)
        PROVE  SurvivalInv'
    <3>1. Delay(header) \in Nat
      <4>1. 2^call.attempt \in Nat
        BY <1>b, CallMoves, PowersOfTwo
      <4>2. header # NoHeader => Least(RetryAfterCap, header) \in Nat
        BY HttpAssumption, LeastIs
      <4> QED
        BY <4>1, <4>2 DEF Delay
    <3> QED
      BY <2>7, <2>8, <3>1 DEF RateLimited
  <2>9. CASE Unavailable
    BY <2>7, <2>9 DEF Unavailable
  <2> QED
    BY <1>11, <2>2, <2>3, <2>4, <2>5, <2>6, <2>8, <2>9 DEF HttpStep, Respond
<1>12. CASE Tick
  <2>1. /\ TimePasses /\ task'.status = task.status /\ task'.attempts = task.attempts
        /\ task'.error = task.error /\ spent' = spent
    BY <1>12, <1>b DEF Tick, TimePasses, Tasks
  <2>2. call'.pc = call.pc /\ call'.error = call.error /\ call'.attempt = call.attempt
    BY <1>b, <2>1, TimeTyped
  <2>3. Lost' = Lost
    BY <2>1 DEF Lost, Running
  <2> QED
    BY <1>a, <2>1, <2>2, <2>3 DEF SurvivalInv, Final
<1>13. CASE UNCHANGED vars
  <2>1. UNCHANGED <<task, call, spent>>
    BY <1>13 DEF vars, httpVars, fetchVars
  <2>2. Lost' = Lost
    BY <2>1 DEF Lost, Running
  <2> QED
    BY <1>a, <2>1, <2>2 DEF SurvivalInv, Final
<1> QED
  BY <1>1, <1>2, <1>3, <1>4, <1>5, <1>7, <1>9, <1>10, <1>11, <1>12, <1>13 DEF Next, Step

\* TroublesAreSurvived for any number of attempts and executions: each execution
\* that failed with an error worth a retry has used up all attempts of a `get`.
THEOREM NoTaskIsLostToFewTroubles == Spec => []TroublesAreSurvived
<1>1. Init => SurvivalInv
  <2> SUFFICES ASSUME Init PROVE SurvivalInv
    OBVIOUS
  <2>1. Attempts \in Nat
    BY HttpAssumption DEF Attempts
  <2>2. /\ TypeInv /\ call.pc = "idle" /\ spent = 0 /\ task.status = "waiting"
        /\ task.attempts = 0 /\ task.error = "none"
    BY InitTyped, NoCallIs DEF Init, HttpInit
  <2>3. Lost = 0
    BY <2>1, <2>2, TimesOneMore DEF Lost, Running
  <2> QED
    BY <2>2, <2>3 DEF SurvivalInv
<1>2. SurvivalInv /\ [Next]_vars => SurvivalInv'
  BY SurvivalNext
<1>3. SurvivalInv => TroublesAreSurvived
  <2> SUFFICES ASSUME SurvivalInv, task.status = "dead",
                      task.error \notin {"permanent", "configuration"}
               PROVE  spent >= MaxAttempts * Attempts
    BY DEF TroublesAreSurvived
  <2>1. task.attempts = MaxAttempts /\ MaxAttempts \in Nat
    <3>1. task.attempts \in 0..MaxAttempts /\ MaxAttempts \in Nat
      BY FetchersAssumption DEF SurvivalInv, TypeInv, TaskTyped, Tasks
    <3> QED
      BY <3>1 DEF SurvivalInv
  <2>2. Lost = Attempts * MaxAttempts /\ spent >= Lost
    BY <2>1 DEF Lost, Running, SurvivalInv
  <2>3. Attempts * MaxAttempts = MaxAttempts * Attempts
    BY <2>1, HttpAssumption DEF Attempts
  <2> QED
    BY <2>2, <2>3
<1> QED
  BY <1>1, <1>2, <1>3, PTL DEF Spec

-----------------------------------------------------------------------------
(* Limits *)

\* Every item a fetcher of a feed, a list or a sitemap has found is still to be
\* fetched or was emitted, so that the limit on what it finds bounds both.
LimitInv ==
    /\ CountsPages => fetch.count <= MaxPages
    /\ web.kind = "web_page" => Len(emitted) + Len(fetch.items) = 1
    /\ ~IsApi /\ web.kind # "web_page" =>
           Len(emitted) + Len(fetch.items) = fetch.found /\ fetch.found <= MaxItems
    /\ web.kind = "rss" /\ fetch.pages # <<>> => fetch.found = 0

LEMMA LimitStays ==
    ASSUME LimitInv, UNCHANGED <<web, emitted>>, fetch'.items = fetch.items,
           fetch'.found = fetch.found, fetch'.count = fetch.count,
           fetch.pages = <<>> => fetch'.pages = <<>>
    PROVE  LimitInv'
BY DEF LimitInv, IsApi, CountsPages

\* A page adds to what was found what it adds to the items.
LEMMA PageCounts ==
    ASSUME TypeInv, LimitInv, Listing, NEW url, url = Head(fetch.pages)
    PROVE  /\ CountsPages => AfterPage(url).count <= MaxPages
           /\ ~IsApi => /\ Len(emitted) + Len(AfterPage(url).items) = AfterPage(url).found
                        /\ AfterPage(url).found <= MaxItems
           /\ web.kind = "rss" => AfterPage(url).pages = <<>>
<1>a. FetchTyped /\ emitted \in Seq(Urls) /\ Len(emitted) \in Nat
  BY DEF TypeInv, FetchTyped
<1>b. /\ fetch.count \in Nat /\ MaxPages \in Nat /\ fetch.found \in Nat /\ MaxItems \in Nat
      /\ Len(fetch.items) \in Nat /\ fetch.items \in Seq(Urls)
  BY <1>a, FetchIs
<1>c. CountsPages => fetch.count + 1 <= MaxPages
  BY <1>b DEF Listing, ListsMore
<1>d. /\ url \in Urls /\ web.kind # "web_page" /\ web.kind \in Kinds
  BY <1>a, PageRead, WebIs
<1>e. web.links[url] \in Seq(Urls)
  BY <1>a, <1>d, WebIs
<1>1. CASE web.kind = "web_list"
  <2>1. PICK new : new = WithinRest(Unseen(web.links[url]))
    OBVIOUS
  <2>2. /\ AfterPage(url).items = new /\ AfterPage(url).found = fetch.found + Len(new)
        /\ AfterPage(url).count = fetch.count + 1 /\ fetch.items = <<>>
    BY <1>1, <1>a, <2>1, ListPageRead
  <2>3. fetch.found < MaxItems
    BY <1>1 DEF Listing, ListsMore
  <2>4. fetch.found + Len(new) <= MaxItems /\ new \in Seq(Urls)
    BY <1>a, <1>e, <2>1, <2>3, UnseenIs, WithinRestIs
  <2>5. Len(emitted) + Len(fetch.items) = fetch.found /\ Len(fetch.items) = 0
    BY <1>1, <2>2 DEF LimitInv, IsApi
  <2>6. Len(emitted) + Len(new) = fetch.found + Len(new)
    BY <1>a, <1>b, <2>4, <2>5
  <2> QED
    BY <1>1, <1>c, <2>2, <2>4, <2>6
<1>2. CASE web.kind = "sitemap"
  <2>1. PICK new : new = WithinRest(web.links[url])
    OBVIOUS
  <2>2. /\ AfterPage(url).items = fetch.items \o new
        /\ AfterPage(url).found = fetch.found + Len(new)
    BY <1>2, <1>a, <2>1, SitemapRead
  <2>3. fetch.found < MaxItems
    BY <1>2 DEF Listing, ListsMore
  <2>4. fetch.found + Len(new) <= MaxItems /\ new \in Seq(Urls)
    BY <1>a, <1>e, <2>1, <2>3, WithinRestIs
  <2>5. Len(fetch.items \o new) = Len(fetch.items) + Len(new)
    BY <1>b, <2>4
  <2>6. Len(emitted) + Len(fetch.items) = fetch.found
    BY <1>2 DEF LimitInv, IsApi
  <2>7. Len(emitted) + (Len(fetch.items) + Len(new)) = fetch.found + Len(new)
    BY <1>a, <1>b, <2>4, <2>6
  <2>8. ~CountsPages
    BY <1>2 DEF CountsPages, IsApi
  <2> QED
    BY <1>2, <2>2, <2>4, <2>5, <2>7, <2>8
<1>3. CASE web.kind = "rss"
  <2>1. PICK new : new = First(MaxItems, web.links[url])
    OBVIOUS
  <2>2. /\ AfterPage(url).items = new /\ AfterPage(url).found = fetch.found + Len(new)
        /\ AfterPage(url).pages = <<>> /\ fetch.items = <<>>
    BY <1>3, <1>a, <2>1, FeedRead
  <2>3. new \in Seq(Urls) /\ Len(new) = Least(MaxItems, Len(web.links[url]))
    BY <1>b, <1>e, <2>1, FirstIs
  <2>4. Len(new) \in Nat /\ Len(new) <= MaxItems
    <3>1. Len(web.links[url]) \in Nat
      BY <1>e
    <3> QED
      BY <1>b, <2>3, <3>1, LeastIs
  <2>5. fetch.found = 0 /\ Len(emitted) + Len(fetch.items) = fetch.found
    BY <1>3 DEF LimitInv, IsApi, Listing, ListsMore
  <2>6. Len(emitted) = 0
    BY <1>a, <1>b, <2>5
  <2>8. ~CountsPages
    BY <1>3 DEF CountsPages, IsApi
  <2> QED
    BY <2>2, <2>4, <2>5, <2>6, <2>8
<1>4. CASE IsApi
  <2>1. AfterPage(url).count = fetch.count + 1
    BY <1>4, <1>a, ApiPageRead
  <2> QED
    BY <1>4, <1>c, <2>1 DEF CountsPages, IsApi
<1> QED
  BY <1>1, <1>2, <1>3, <1>4, <1>d DEF Kinds, IsApi

LEMMA LimitNext == TypeInv /\ LimitInv /\ [Next]_vars => LimitInv'
<1> SUFFICES ASSUME TypeInv, LimitInv, [Next]_vars PROVE LimitInv'
  OBVIOUS
<1>a. FetchTyped /\ CallOfTheLoop /\ fetch \in Fetches /\ emitted \in Seq(Urls)
      /\ Len(emitted) \in Nat
  BY DEF TypeInv, FetchTyped
<1>1. CASE Execute
  <2>1. fetch' = FirstLoop /\ emitted' = <<>> /\ web' = web
    BY <1>1 DEF Execute
  <2>2. FirstLoop = IF web.kind = "web_page"
                    THEN [pages |-> <<>>, items |-> web.start, seen |-> {}, found |-> 0, count |-> 0]
                    ELSE [pages |-> web.start, items |-> <<>>, seen |-> {}, found |-> 0, count |-> 0]
    BY Zenon DEF FirstLoop, Loop
  <2>3. Len(<<>>) = 0 /\ (web.kind = "web_page" => Len(web.start) = 1)
    BY <1>a, WebIs
  <2>4. MaxItems \in Nat /\ MaxPages \in Nat
    BY <1>a, FetchIs
  <2>5. fetch'.found = 0 /\ fetch'.count = 0
        /\ fetch'.items = IF web.kind = "web_page" THEN web.start ELSE <<>>
    BY <2>1, <2>2
  <2>6. Len(emitted') = 0
    BY <2>1, <2>3
  <2>7. Len(fetch'.items) = IF web.kind = "web_page" THEN 1 ELSE 0
    <3>1. CASE web.kind = "web_page"
      BY <2>3, <2>5, <3>1
    <3>2. CASE web.kind # "web_page"
      BY <2>3, <2>5, <3>2
    <3> QED
      BY <3>1, <3>2
  <2>8. web'.kind = web.kind
    BY <2>1
  <2>9. fetch'.found = 0 /\ fetch'.count = 0
    BY <2>5
  <2>10. /\ web.kind = "web_page" => Len(emitted') + Len(fetch'.items) = 1
         /\ web.kind # "web_page" => Len(emitted') + Len(fetch'.items) = 0
    BY <2>6, <2>7
  <2>11. 0 <= MaxItems /\ 0 <= MaxPages
    BY <2>4
  <2> QED
    BY <2>8, <2>9, <2>10, <2>11 DEF LimitInv, IsApi, CountsPages
<1>2. CASE Skip
  <2>1. /\ fetch' = [fetch EXCEPT !.pages = Tail(@)] /\ fetch.pages # <<>>
        /\ UNCHANGED <<web, emitted>>
    BY <1>2 DEF Skip, ListsMore
  <2>2. /\ fetch'.items = fetch.items /\ fetch'.found = fetch.found
        /\ fetch'.count = fetch.count
    BY <1>a, <2>1 DEF Fetches
  <2> QED
    BY <2>1, <2>2, LimitStays
<1>3. CASE ReadPage
  <2>1. /\ Listing /\ call.pc = "returned" /\ fetch' = AfterPage(call.url) /\ web' = web
        /\ emitted' = emitted \o ItemsOnPage(call.url)
    BY <1>3 DEF ReadPage
  <2>2. call.url = Head(fetch.pages)
    BY <1>a, <2>1 DEF CallOfTheLoop, Listing
  <2>3. /\ CountsPages => fetch'.count <= MaxPages
        /\ ~IsApi => /\ Len(emitted) + Len(fetch'.items) = fetch'.found
                     /\ fetch'.found <= MaxItems
        /\ web.kind = "rss" => fetch'.pages = <<>>
    BY <2>1, <2>2, PageCounts
  <2>4. web.kind # "web_page"
    BY <1>a, <2>1, <2>2, PageRead
  <2>5. ~IsApi => emitted' = emitted
    <3>1. ~IsApi => emitted' = emitted \o <<>>
      BY <2>1 DEF ItemsOnPage
    <3>2. emitted \o <<>> = emitted
      BY <1>a
    <3> QED
      BY <3>1, <3>2
  <2> QED
    BY <2>1, <2>3, <2>4, <2>5 DEF LimitInv, IsApi, CountsPages
<1>4. CASE EmitItem
  <2>1. /\ call.pc = "returned" /\ ~Listing /\ web' = web
        /\ emitted' = Append(emitted, Head(fetch.items))
        /\ fetch' = [fetch EXCEPT !.items = Tail(@)]
    BY <1>4 DEF EmitItem
  <2>2. fetch.items \in Seq(Urls) /\ fetch.items # <<>>
    BY <1>a, <2>1, FetchIs DEF CallOfTheLoop
  <2>3. /\ fetch'.items = Tail(fetch.items) /\ fetch'.found = fetch.found
        /\ fetch'.count = fetch.count /\ fetch'.pages = fetch.pages
    BY <1>a, <2>1 DEF Fetches
  <2>4. /\ Len(fetch'.items) = Len(fetch.items) - 1 /\ Len(emitted') = Len(emitted) + 1
        /\ Len(fetch.items) \in Nat
    BY <1>a, <2>1, <2>2, <2>3, HeadAndTail, FetchIs
  <2>5. Len(emitted') + Len(fetch'.items) = Len(emitted) + Len(fetch.items)
    <3>1. PICK m \in Nat, n \in Nat : m = Len(emitted) /\ n = Len(fetch.items)
      BY <1>a, <2>4
    <3>2. (m + 1) + (n - 1) = m + n
      OBVIOUS
    <3>3. Len(emitted') = m + 1 /\ Len(fetch'.items) = n - 1
      BY <2>4, <3>1
    <3> QED
      BY <3>1, <3>2, <3>3
  <2> QED
    BY <2>1, <2>3, <2>5 DEF LimitInv, IsApi, CountsPages
<1>5. CASE UNCHANGED <<web, fetch, emitted>>
  BY <1>5, LimitStays
<1> QED
  BY <1>1, <1>2, <1>3, <1>4, <1>5
     DEF Next, Step, GetPage, GetItem, Finish, ReportFailure, Unreadable, Kill, Tick, vars,
     fetchVars

LEMMA Limited == Spec => [](TypeInv /\ LimitInv)
<1>1. Init => TypeInv /\ LimitInv
  <2> SUFFICES ASSUME Init PROVE LimitInv
    BY InitTyped
  <2>1. FetchTyped /\ fetch = FirstLoop /\ emitted = <<>>
    BY InitTyped DEF TypeInv, Init
  <2>2. FirstLoop = IF web.kind = "web_page"
                    THEN [pages |-> <<>>, items |-> web.start, seen |-> {}, found |-> 0, count |-> 0]
                    ELSE [pages |-> web.start, items |-> <<>>, seen |-> {}, found |-> 0, count |-> 0]
    BY Zenon DEF FirstLoop, Loop
  <2>3. Len(<<>>) = 0 /\ (web.kind = "web_page" => Len(web.start) = 1)
    BY <2>1, WebIs
  <2>4. MaxItems \in Nat /\ MaxPages \in Nat
    BY <2>1, FetchIs
  <2>5. fetch.found = 0 /\ fetch.count = 0
        /\ fetch.items = IF web.kind = "web_page" THEN web.start ELSE <<>>
    BY <2>1, <2>2
  <2>6. Len(emitted) = 0
    BY <2>1, <2>3
  <2>7. Len(fetch.items) = IF web.kind = "web_page" THEN 1 ELSE 0
    <3>1. CASE web.kind = "web_page"
      BY <2>3, <2>5, <3>1
    <3>2. CASE web.kind # "web_page"
      BY <2>3, <2>5, <3>2
    <3> QED
      BY <3>1, <3>2
  <2>8. fetch.found = 0 /\ fetch.count = 0
    BY <2>5
  <2>9. /\ web.kind = "web_page" => Len(emitted) + Len(fetch.items) = 1
        /\ web.kind # "web_page" => Len(emitted) + Len(fetch.items) = 0
    BY <2>6, <2>7
  <2>10. 0 <= MaxItems /\ 0 <= MaxPages
    BY <2>4
  <2> QED
    BY <2>8, <2>9, <2>10 DEF LimitInv
<1>2. TypeInv /\ LimitInv /\ [Next]_vars => (TypeInv /\ LimitInv)'
  BY NextTyped, LimitNext
<1> QED
  BY <1>1, <1>2, PTL DEF Spec

\* LimitsHold for any limits and any site.
THEOREM NoSiteExceedsTheLimits == Spec => []LimitsHold
<1>1. TypeInv /\ LimitInv => LimitsHold
  <2>1. TypeInv => MaxItems \in Nat \ {0} /\ fetch.found \in Nat
    BY FetchIs DEF TypeInv
  <2> QED
    BY <2>1 DEF LimitInv, LimitsHold
<1> QED
  BY <1>1, Limited, PTL

-----------------------------------------------------------------------------
(* Completeness *)

LEMMA InjectiveCounts ==
    ASSUME NEW A, NEW s \in Seq(A), IsInjective(s)
    PROVE  Len(s) = Cardinality(ToSet(s))
<1>1. Len(s) \in Nat /\ DOMAIN s = 1..Len(s)
  OBVIOUS
<1>2. IsFiniteSet(1..Len(s)) /\ Cardinality(1..Len(s)) = Len(s)
  BY <1>1, CountsUpTo
<1>3. s \in [1..Len(s) -> ToSet(s)] /\ \A y \in ToSet(s) : \E i \in 1..Len(s) : s[i] = y
  BY <1>1 DEF ToSet
<1>4. s \in Bijection(1..Len(s), ToSet(s))
  BY <1>1, <1>3 DEF Bijection, Injection, Surjection, IsInjective
<1> QED
  BY <1>2, <1>4, FS_Bijection DEF ExistsBijection

LEMMA TailOfOne ==
    ASSUME NEW A, NEW s \in Seq(A), s # <<>>, Len(s) <= 1
    PROVE  ToSet(Tail(s)) = {}
<1>1. Tail(s) \in Seq(A) /\ Len(Tail(s)) = 0
  <2>1. Len(s) \in Nat /\ Len(s) # 0
    OBVIOUS
  <2>2. Tail(s) \in Seq(A) /\ Len(Tail(s)) = Len(s) - 1
    OBVIOUS
  <2> QED
    BY <2>1, <2>2
<1> QED
  BY <1>1 DEF ToSet

\* The first of several items moves behind those of another sequence.
LEMMA InjectiveMoves ==
    ASSUME NEW A, NEW s \in Seq(A), NEW t \in Seq(A), t # <<>>,
           IsInjective(s), IsInjective(t), ToSet(s) \cap ToSet(t) = {}
    PROVE  /\ IsInjective(Append(s, Head(t))) /\ IsInjective(Tail(t))
           /\ ToSet(Append(s, Head(t))) \cap ToSet(Tail(t)) = {}
<1>1. /\ Len(s) \in Nat /\ DOMAIN s = 1..Len(s) /\ Len(t) \in Nat \ {0}
      /\ DOMAIN t = 1..Len(t)
  OBVIOUS
<1>2. /\ Head(t) = t[1] /\ Tail(t) \in Seq(A) /\ Len(Tail(t)) = Len(t) - 1
      /\ DOMAIN Tail(t) = 1..(Len(t) - 1)
      /\ \A i \in 1..(Len(t) - 1) : Tail(t)[i] = t[i + 1] /\ i + 1 \in 1..Len(t)
  BY <1>1
<1>3. /\ Head(t) \in A /\ Head(t) \in ToSet(t) /\ ToSet(Tail(t)) \subseteq ToSet(t)
      /\ ToSet(Append(s, Head(t))) = ToSet(s) \cup {Head(t)}
  BY HeadAndTail, ToSetAppend
<1>4. IsInjective(Tail(t))
  <2> SUFFICES ASSUME NEW i \in 1..(Len(t) - 1), NEW j \in 1..(Len(t) - 1), Tail(t)[i] = Tail(t)[j]
               PROVE  i = j
    BY <1>2 DEF IsInjective
  <2>1. i + 1 \in 1..Len(t) /\ j + 1 \in 1..Len(t) /\ t[i + 1] = t[j + 1]
    BY <1>2
  <2>2. i + 1 = j + 1
    BY <1>1, <2>1 DEF IsInjective
  <2> QED
    BY <1>1, <2>2
<1>5. Head(t) \notin ToSet(Tail(t))
  <2> SUFFICES ASSUME NEW i \in 1..(Len(t) - 1), Tail(t)[i] = Head(t)
               PROVE  FALSE
    BY <1>2 DEF ToSet
  <2>1. i + 1 \in 1..Len(t) /\ t[i + 1] = t[1] /\ 1 \in 1..Len(t)
    BY <1>1, <1>2
  <2>2. i + 1 = 1
    BY <1>1, <2>1 DEF IsInjective
  <2> QED
    BY <1>1, <2>2
<1>6. IsInjective(Append(s, Head(t)))
  <2>1. /\ DOMAIN Append(s, Head(t)) = 1..(Len(s) + 1)
        /\ Append(s, Head(t))[Len(s) + 1] = Head(t)
        /\ \A i \in 1..Len(s) : Append(s, Head(t))[i] = s[i] /\ s[i] \in ToSet(s)
    BY <1>1, <1>3 DEF ToSet
  <2>2. Head(t) \notin ToSet(s)
    BY <1>3
  <2>3. \A i \in 1..(Len(s) + 1) : i \in 1..Len(s) \/ i = Len(s) + 1
    BY <1>1
  <2> QED
    BY <1>1, <2>1, <2>2, <2>3 DEF IsInjective
<1> QED
  BY <1>3, <1>4, <1>5, <1>6

-----------------------------------------------------------------------------
Taken == ToSet(emitted) \cup ToSet(fetch.items)

\* The pages that were read are D: what follows them was read or is to be, and
\* while no limit was met their items were emitted or are to be.
Covers(D) ==
    /\ ToSet(web.start) \subseteq D \cup ToSet(fetch.pages)
    /\ \A u \in D : Follows(u) \subseteq D \cup ToSet(fetch.pages)
    /\ IsApi \/ fetch.found < MaxItems => \A u \in D : ToSet(web.links[u]) \subseteq Taken
    /\ web.kind = "sitemap" => fetch.seen \subseteq D

EachOnce ==
    /\ fetch.seen = Taken
    /\ IsInjective(emitted) /\ IsInjective(fetch.items)
    /\ ToSet(emitted) \cap ToSet(fetch.items) = {}

\* A walk stays within what can be reached and loses nothing of it.
Walk ==
    /\ ToSet(fetch.pages) \subseteq Reachable
    /\ Taken \subseteq Expected
    /\ web.kind = "web_page" => Taken = Expected
    /\ web.kind # "web_page" => \E D \in SUBSET Urls : Covers(D)
    /\ IsApi \/ web.kind = "rss" => Len(fetch.pages) <= 1
    /\ web.kind = "web_list" => EachOnce

LEMMA SiteStays ==
    ASSUME UNCHANGED web
    PROVE  /\ Reachable' = Reachable /\ Expected' = Expected /\ IsApi' = IsApi
           /\ \A url : Follows(url)' = Follows(url)
<1>1. \A url : Follows(url)' = Follows(url)
  BY DEF Follows
<1>2. Reachable' = Reachable
  BY <1>1 DEF Reachable
<1> QED
  BY <1>1, <1>2 DEF Expected, IsApi

LEMMA ReachableIs ==
    ASSUME FetchTyped
    PROVE  /\ ToSet(web.start) \subseteq Reachable
           /\ \A url \in Reachable : Follows(url) \subseteq Reachable
           /\ \A S \in SUBSET Urls :
                  ToSet(web.start) \subseteq S /\ (\A u \in S : Follows(u) \subseteq S)
                      => Reachable \subseteq S
           /\ Reachable \subseteq Urls
<1>1. ToSet(web.start) \subseteq Urls
  BY WebIs, ToSetType
<1>2. \A url \in Urls : Follows(url) \subseteq Urls
  <2>1. \A url \in Urls : ToSet(web.next[url]) \subseteq Urls
    BY WebIs, ToSetType
  <2> QED
    BY <2>1 DEF Follows
<1>3. \A url \in Reachable : Follows(url) \subseteq Reachable
  <2> SUFFICES ASSUME NEW url \in Reachable, NEW u \in Follows(url) PROVE u \in Reachable
    OBVIOUS
  <2>1. u \in Urls
    BY <1>2 DEF Reachable
  <2>2. ASSUME NEW S \in SUBSET Urls, ToSet(web.start) \subseteq S,
               \A v \in S : Follows(v) \subseteq S
        PROVE  u \in S
    <3>1. url \in S
      BY <2>2 DEF Reachable
    <3> QED
      BY <2>2, <3>1
  <2> QED
    BY <2>1, <2>2 DEF Reachable
<1> QED
  BY <1>1, <1>3 DEF Reachable

\* Whatever the kind, a page hands on what follows it, and its items while no
\* limit is met.
LEMMA PageWalked ==
    ASSUME TypeInv, LimitInv, Walk, Listing, NEW url, url = Head(fetch.pages)
    PROVE  LET rest == ToSet(Tail(fetch.pages))
               got == ToSet(emitted) \cup ToSet(ItemsOnPage(url))
                          \cup ToSet(AfterPage(url).items)
           IN  /\ ToSet(fetch.pages) = {url} \cup rest
               /\ ToSet(AfterPage(url).pages) = rest \cup Follows(url)
               /\ Taken \subseteq got /\ got \subseteq Taken \cup ToSet(web.links[url])
               /\ IsApi \/ AfterPage(url).found < MaxItems =>
                      /\ IsApi \/ fetch.found < MaxItems
                      /\ ToSet(web.links[url]) \subseteq got
               /\ web.kind = "sitemap" => AfterPage(url).seen = fetch.seen \cup {url}
               /\ IsApi \/ web.kind = "rss" => Len(AfterPage(url).pages) <= 1
<1>0. PICK rest, got :
          /\ rest = ToSet(Tail(fetch.pages))
          /\ got = ToSet(emitted) \cup ToSet(ItemsOnPage(url))
                       \cup ToSet(AfterPage(url).items)
  OBVIOUS
<1> SUFFICES
        /\ ToSet(fetch.pages) = {url} \cup rest
        /\ ToSet(AfterPage(url).pages) = rest \cup Follows(url)
        /\ Taken \subseteq got /\ got \subseteq Taken \cup ToSet(web.links[url])
        /\ IsApi \/ AfterPage(url).found < MaxItems =>
               /\ IsApi \/ fetch.found < MaxItems
               /\ ToSet(web.links[url]) \subseteq got
        /\ web.kind = "sitemap" => AfterPage(url).seen = fetch.seen \cup {url}
        /\ IsApi \/ web.kind = "rss" => Len(AfterPage(url).pages) <= 1
  BY <1>0
<1>a. FetchTyped /\ emitted \in Seq(Urls)
  BY DEF TypeInv, FetchTyped
<1>b. /\ fetch.pages \in Seq(Urls) /\ fetch.items \in Seq(Urls) /\ fetch.found \in Nat
      /\ MaxItems \in Nat
  BY <1>a, FetchIs
<1>c. fetch.pages # <<>>
  BY DEF Listing, ListsMore
<1>d. /\ url \in Urls /\ Tail(fetch.pages) \in Seq(Urls) /\ ToSet(fetch.pages) = {url} \cup rest
      /\ Len(Tail(fetch.pages)) = Len(fetch.pages) - 1
  BY <1>0, <1>b, <1>c, HeadAndTail
<1>e. web.links[url] \in Seq(Urls) /\ web.next[url] \in Seq(Urls) /\ web.kind \in Kinds
  BY <1>a, <1>d, WebIs
<1>f. web.kind # "web_page"
  BY <1>a, PageRead
<1>g. ~IsApi => ToSet(ItemsOnPage(url)) = {}
  BY ToSetEmpty DEF ItemsOnPage
<1>h. IsApi \/ web.kind = "rss" => rest = {}
  <2> SUFFICES ASSUME IsApi \/ web.kind = "rss" PROVE rest = {}
    OBVIOUS
  <2>1. Len(fetch.pages) <= 1
    BY DEF Walk
  <2> QED
    BY <1>0, <1>b, <1>c, <2>1, TailOfOne
<1>1. CASE web.kind = "web_list"
  <2>1. PICK new : new = WithinRest(Unseen(web.links[url]))
    OBVIOUS
  <2>2. /\ ToSet(AfterPage(url).pages) = rest \cup ToSet(web.next[url])
        /\ AfterPage(url).items = new /\ AfterPage(url).found = fetch.found + Len(new)
        /\ fetch.items = <<>>
    BY <1>1, <1>a, <2>1, <1>0, ListPageRead
  <2>3. fetch.found < MaxItems
    BY <1>1 DEF Listing, ListsMore
  <2>4. /\ Unseen(web.links[url]) \in Seq(Urls)
        /\ ToSet(Unseen(web.links[url])) = ToSet(web.links[url]) \ fetch.seen
    BY <1>e, UnseenIs
  <2>5. /\ ToSet(new) \subseteq ToSet(web.links[url]) \ fetch.seen
        /\ fetch.found + Len(new) < MaxItems => ToSet(new) = ToSet(web.links[url]) \ fetch.seen
    BY <1>a, <2>1, <2>3, <2>4, WithinRestIs
  <2>6. Follows(url) = ToSet(web.next[url])
    BY <1>1 DEF Follows
  <2>7. ~IsApi
    BY <1>1 DEF IsApi
  <2>8. fetch.seen = ToSet(emitted) /\ Taken = ToSet(emitted)
    BY <1>1, <2>2, ToSetEmpty DEF Walk, EachOnce, Taken
  <2>9. got = ToSet(emitted) \cup ToSet(new)
    BY <1>0, <1>g, <2>2, <2>7
  <2> QED
    BY <1>1, <1>d, <2>2, <2>3, <2>5, <2>6, <2>7, <2>8, <2>9
<1>2. CASE web.kind = "sitemap"
  <2>1. PICK new : new = WithinRest(web.links[url])
    OBVIOUS
  <2>2. /\ ToSet(AfterPage(url).pages) = rest \cup ToSet(web.next[url])
        /\ AfterPage(url).items = fetch.items \o new
        /\ AfterPage(url).seen = fetch.seen \cup {url}
        /\ AfterPage(url).found = fetch.found + Len(new)
    BY <1>2, <1>a, <2>1, <1>0, SitemapRead
  <2>3. fetch.found < MaxItems
    BY <1>2 DEF Listing, ListsMore
  <2>4. /\ new \in Seq(Urls) /\ ToSet(new) \subseteq ToSet(web.links[url])
        /\ fetch.found + Len(new) < MaxItems => ToSet(new) = ToSet(web.links[url])
    BY <1>a, <1>e, <2>1, <2>3, WithinRestIs
  <2>5. ToSet(fetch.items \o new) = ToSet(fetch.items) \cup ToSet(new)
    BY <1>b, <2>4, ToSetConcat
  <2>6. Follows(url) = ToSet(web.next[url])
    BY <1>2 DEF Follows
  <2>7. ~IsApi
    BY <1>2 DEF IsApi
  <2>8. got = Taken \cup ToSet(new)
    BY <1>0, <1>g, <2>2, <2>5, <2>7 DEF Taken
  <2> QED
    BY <1>2, <1>d, <2>2, <2>3, <2>4, <2>6, <2>7, <2>8
<1>3. CASE web.kind = "rss"
  <2>1. PICK new : new = First(MaxItems, web.links[url])
    OBVIOUS
  <2>2. /\ AfterPage(url).items = new /\ AfterPage(url).found = fetch.found + Len(new)
        /\ AfterPage(url).pages = <<>> /\ fetch.items = <<>>
    BY <1>3, <1>a, <2>1, FeedRead
  <2>3. /\ new \in Seq(Urls) /\ Len(new) = Least(MaxItems, Len(web.links[url]))
        /\ ToSet(new) \subseteq ToSet(web.links[url])
        /\ Len(web.links[url]) <= MaxItems => new = web.links[url]
    BY <1>b, <1>e, <2>1, FirstIs
  <2>4. fetch.found = 0
    BY <1>3, <1>c DEF LimitInv
  <2>5. fetch.found + Len(new) < MaxItems => fetch.found < MaxItems /\ new = web.links[url]
    <3>1. Len(web.links[url]) \in Nat
      BY <1>e
    <3> QED
      BY <1>b, <2>3, <2>4, <3>1 DEF Least
  <2>6. Follows(url) = {} /\ ToSet(AfterPage(url).pages) = {} /\ Len(AfterPage(url).pages) <= 1
    <3>1. Len(<<>>) = 0
      OBVIOUS
    <3> QED
      BY <1>3, <2>2, <3>1, ToSetEmpty DEF Follows
  <2>7. ~IsApi
    BY <1>3 DEF IsApi
  <2>8. got = ToSet(emitted) \cup ToSet(new) /\ Taken = ToSet(emitted)
    BY <1>0, <1>g, <2>2, <2>7, ToSetEmpty DEF Taken
  <2> QED
    BY <1>3, <1>d, <1>h, <2>2, <2>3, <2>5, <2>6, <2>7, <2>8
<1>4. CASE IsApi
  <2>1. /\ ToSet(AfterPage(url).pages) = Follows(url) /\ AfterPage(url).items = <<>>
        /\ Len(AfterPage(url).pages) <= 1 /\ fetch.items = <<>>
    BY <1>4, <1>a, ApiPageRead
  <2>2. got = ToSet(emitted) \cup ToSet(web.links[url]) /\ Taken = ToSet(emitted)
    BY <1>0, <1>4, <2>1, ToSetEmpty DEF Taken, ItemsOnPage
  <2>3. web.kind # "sitemap"
    BY <1>4 DEF IsApi
  <2> QED
    BY <1>4, <1>d, <1>h, <2>1, <2>2, <2>3
<1> QED
  BY <1>1, <1>2, <1>3, <1>4, <1>e, <1>f DEF Kinds, IsApi

\* What a list page adds was not seen before.
LEMMA ListPageEachOnce ==
    ASSUME TypeInv, Walk, web.kind = "web_list", Listing, NEW url, url = Head(fetch.pages)
    PROVE  LET l == AfterPage(url)
           IN  /\ l.seen = ToSet(emitted) \cup ToSet(l.items)
               /\ IsInjective(emitted) /\ IsInjective(l.items)
               /\ ToSet(emitted) \cap ToSet(l.items) = {}
<1>a. FetchTyped
  BY DEF TypeInv
<1>1. PICK new : new = WithinRest(Unseen(web.links[url]))
  OBVIOUS
<1>2. /\ AfterPage(url).items = new /\ AfterPage(url).seen = fetch.seen \cup ToSet(new)
      /\ fetch.items = <<>> /\ url \in Urls
  BY <1>a, <1>1, ListPageRead
<1>3. web.links[url] \in Seq(Urls) /\ fetch.found < MaxItems
  BY <1>a, <1>2, WebIs DEF Listing, ListsMore
<1>4. /\ Unseen(web.links[url]) \in Seq(Urls)
      /\ ToSet(Unseen(web.links[url])) = ToSet(web.links[url]) \ fetch.seen
      /\ IsInjective(Unseen(web.links[url]))
  BY <1>3, UnseenIs
<1>5. ToSet(new) \subseteq ToSet(web.links[url]) \ fetch.seen /\ IsInjective(new)
  BY <1>a, <1>1, <1>3, <1>4, WithinRestIs
<1>6. fetch.seen = ToSet(emitted) /\ IsInjective(emitted)
  BY <1>2, ToSetEmpty DEF Walk, EachOnce, Taken
<1> QED
  BY <1>2, <1>5, <1>6

\* A walk that moves a page or an item on stays one.
LEMMA WalkStays ==
    ASSUME TypeInv, Walk, UNCHANGED web, ToSet(fetch'.pages) = ToSet(fetch.pages),
           Taken' = Taken, fetch'.found = fetch.found, fetch'.seen = fetch.seen,
           Len(fetch'.pages) = Len(fetch.pages),
           web.kind = "web_list" => EachOnce'
    PROVE  Walk'
<1>1. /\ Reachable' = Reachable /\ Expected' = Expected /\ IsApi' = IsApi
      /\ \A url : Follows(url)' = Follows(url)
  BY SiteStays
<1>2. \A D : Covers(D) => Covers(D)'
  BY <1>1 DEF Covers
<1> QED
  BY <1>1, <1>2 DEF Walk

LEMMA WalkBegins ==
    ASSUME FetchTyped
    PROVE  /\ ToSet(FirstLoop.pages) =
                  IF web.kind = "web_page" THEN {} ELSE ToSet(web.start)
           /\ ToSet(FirstLoop.items) =
                  IF web.kind = "web_page" THEN ToSet(web.start) ELSE {}
           /\ FirstLoop.seen = {}
           /\ web.kind # "web_list" => Len(FirstLoop.pages) <= 1
           /\ web.kind = "web_list" => FirstLoop.items = <<>>
           /\ ToSet(<<>>) = {} /\ IsInjective(<<>>)
<1>1. FirstLoop = IF web.kind = "web_page"
                  THEN [pages |-> <<>>, items |-> web.start, seen |-> {}, found |-> 0, count |-> 0]
                  ELSE [pages |-> web.start, items |-> <<>>, seen |-> {}, found |-> 0, count |-> 0]
  BY Zenon DEF FirstLoop, Loop
<1>2. ToSet(<<>>) = {} /\ IsInjective(<<>>)
  BY ToSetEmpty DEF IsInjective
<1>3. Len(<<>>) <= 1 /\ (web.kind # "web_list" => Len(web.start) <= 1)
  <2>1. Len(<<>>) <= 1
    OBVIOUS
  <2>2. ASSUME web.kind # "web_list" PROVE Len(web.start) <= 1
    <3>1. Len(web.start) = 1
      BY <2>2, WebIs
    <3> QED
      BY <3>1
  <2> QED
    BY <2>1, <2>2
<1>4. CASE web.kind = "web_page"
  BY <1>1, <1>2, <1>3, <1>4
<1>5. CASE web.kind # "web_page"
  BY <1>1, <1>2, <1>3, <1>5
<1> QED
  BY <1>4, <1>5

LEMMA WalkInit == Init => Walk
<1> SUFFICES ASSUME Init PROVE Walk
  OBVIOUS
<1>1. FetchTyped /\ fetch = FirstLoop /\ emitted = <<>>
  BY InitTyped DEF Init, TypeInv
<1>2. /\ ToSet(fetch.pages) = IF web.kind = "web_page" THEN {} ELSE ToSet(web.start)
      /\ Taken = IF web.kind = "web_page" THEN ToSet(web.start) ELSE {}
      /\ fetch.seen = {}
      /\ web.kind # "web_list" => Len(fetch.pages) <= 1
      /\ web.kind = "web_list" => EachOnce
  BY <1>1, WalkBegins DEF Taken, EachOnce
<1>3. ToSet(web.start) \subseteq Reachable
  BY <1>1, ReachableIs
<1>4. web.kind # "web_page" => Covers({})
  BY <1>2 DEF Covers
<1> QED
  BY <1>2, <1>3, <1>4 DEF Walk, Expected, IsApi

LEMMA WalkNext == TypeInv /\ LimitInv /\ Walk /\ [Next]_vars => Walk'
<1> SUFFICES ASSUME TypeInv, LimitInv, Walk, [Next]_vars PROVE Walk'
  OBVIOUS
<1>a. /\ FetchTyped /\ CallOfTheLoop /\ fetch \in Fetches /\ emitted \in Seq(Urls)
      /\ FetchTyped'
  BY NextTyped DEF TypeInv, FetchTyped
<1>b. /\ fetch.pages \in Seq(Urls) /\ fetch.items \in Seq(Urls)
  BY <1>a, FetchIs
<1>1. CASE Execute
  <2>1. fetch' = FirstLoop /\ emitted' = <<>> /\ UNCHANGED web
    BY <1>1 DEF Execute
  <2>2. /\ ToSet(fetch'.pages) = IF web.kind = "web_page" THEN {} ELSE ToSet(web.start)
        /\ Taken' = IF web.kind = "web_page" THEN ToSet(web.start) ELSE {}
        /\ fetch'.seen = {}
        /\ web.kind # "web_list" => Len(fetch'.pages) <= 1
        /\ web.kind = "web_list" => EachOnce'
    BY <1>a, <2>1, WalkBegins DEF Taken, EachOnce
  <2>3. ToSet(web.start) \subseteq Reachable
    BY <1>a, ReachableIs
  <2>4. Reachable' = Reachable /\ Expected' = Expected /\ IsApi' = IsApi
    BY <2>1, SiteStays
  <2>5. web.kind # "web_page" => Covers({})'
    BY <2>1, <2>2 DEF Covers
  <2> QED
    BY <2>1, <2>2, <2>3, <2>4, <2>5 DEF Walk, Expected, IsApi
<1>2. CASE Skip
  <2>1. /\ fetch' = [fetch EXCEPT !.pages = Tail(@)] /\ fetch.pages # <<>>
        /\ web.kind = "sitemap" /\ Head(fetch.pages) \in fetch.seen
        /\ UNCHANGED <<web, emitted>>
    BY <1>2 DEF Skip, ListsMore, AlreadyVisited
  <2>2. /\ fetch'.items = fetch.items /\ fetch'.found = fetch.found
        /\ fetch'.seen = fetch.seen /\ fetch'.pages = Tail(fetch.pages)
    BY <1>a, <2>1 DEF Fetches
  <2>3. ToSet(fetch.pages) = {Head(fetch.pages)} \cup ToSet(fetch'.pages)
    BY <1>b, <2>1, <2>2, HeadAndTail
  <2>4. /\ Reachable' = Reachable /\ Expected' = Expected /\ IsApi' = IsApi
        /\ \A url : Follows(url)' = Follows(url)
    BY <2>1, SiteStays
  <2>5. Taken' = Taken
    BY <2>1, <2>2 DEF Taken
  <2>6. ASSUME NEW D \in SUBSET Urls, Covers(D)
        PROVE  Covers(D)'
    <3>1. Head(fetch.pages) \in D
      BY <2>1, <2>6 DEF Covers
    <3>2. D \cup ToSet(fetch.pages) = D \cup ToSet(fetch'.pages)
      BY <2>3, <3>1
    <3> QED
      BY <2>1, <2>2, <2>4, <2>5, <2>6, <3>2 DEF Covers
  <2>7. ~IsApi
    BY <2>1 DEF IsApi
  <2> QED
    BY <2>1, <2>3, <2>4, <2>5, <2>6, <2>7 DEF Walk
<1>3. CASE ReadPage
  <2>1. /\ Listing /\ call.pc = "returned" /\ fetch' = AfterPage(call.url) /\ UNCHANGED web
        /\ emitted' = emitted \o ItemsOnPage(call.url)
    BY <1>3 DEF ReadPage
  <2>2. PICK url : url = call.url /\ url = Head(fetch.pages)
    BY <1>a, <2>1 DEF CallOfTheLoop, Listing
  <2>3. PICK rest : rest = ToSet(Tail(fetch.pages))
    OBVIOUS
  <2>4. url \in Urls /\ ItemsOnPage(url) \in Seq(Urls) /\ web.kind # "web_page"
    BY <1>a, <2>1, <2>2, PageRead
  <2>5. Taken' = ToSet(emitted) \cup ToSet(ItemsOnPage(url)) \cup ToSet(AfterPage(url).items)
    BY <1>a, <2>1, <2>2, <2>4, ToSetConcat DEF Taken
  <2>6. /\ ToSet(fetch.pages) = {url} \cup rest
        /\ ToSet(fetch'.pages) = rest \cup Follows(url)
        /\ Taken \subseteq Taken' /\ Taken' \subseteq Taken \cup ToSet(web.links[url])
        /\ IsApi \/ fetch'.found < MaxItems =>
               (IsApi \/ fetch.found < MaxItems) /\ ToSet(web.links[url]) \subseteq Taken'
        /\ web.kind = "sitemap" => fetch'.seen = fetch.seen \cup {url}
        /\ IsApi \/ web.kind = "rss" => Len(fetch'.pages) <= 1
    <3>1. PICK got : got = Taken'
      OBVIOUS
    <3>2. PICK l : l = AfterPage(url)
      OBVIOUS
    <3>4. /\ ToSet(fetch.pages) = {url} \cup rest
          /\ ToSet(AfterPage(url).pages) = rest \cup Follows(url)
          /\ Taken \subseteq got /\ got \subseteq Taken \cup ToSet(web.links[url])
          /\ IsApi \/ AfterPage(url).found < MaxItems =>
                 /\ IsApi \/ fetch.found < MaxItems
                 /\ ToSet(web.links[url]) \subseteq got
          /\ web.kind = "sitemap" => AfterPage(url).seen = fetch.seen \cup {url}
          /\ IsApi \/ web.kind = "rss" => Len(AfterPage(url).pages) <= 1
      BY <2>1, <2>2, <2>3, <2>5, <3>1, PageWalked
    <3>5. fetch' = l
      BY <2>1, <2>2, <3>2
    <3> QED
      BY <3>1, <3>2, <3>4, <3>5
  <2>7. /\ Reachable' = Reachable /\ Expected' = Expected /\ IsApi' = IsApi
        /\ \A u : Follows(u)' = Follows(u)
    BY <2>1, SiteStays
  <2>8. /\ url \in Reachable /\ Follows(url) \subseteq Reachable
        /\ ToSet(fetch.pages) \subseteq Reachable
    BY <1>a, <2>6, ReachableIs DEF Walk
  <2>9. ToSet(web.links[url]) \subseteq Expected
    BY <2>4, <2>8 DEF Expected
  <2>10. ASSUME NEW D \in SUBSET Urls, Covers(D)
         PROVE  Covers(D \cup {url})'
    BY <2>1, <2>6, <2>7, <2>10 DEF Covers
  <2>11. PICK D \in SUBSET Urls : Covers(D)
    BY <2>4 DEF Walk
  <2>12. Covers(D \cup {url})' /\ D \cup {url} \in SUBSET Urls
    BY <2>4, <2>10, <2>11
  <2>13. web.kind = "web_list" => EachOnce'
    <3> SUFFICES ASSUME web.kind = "web_list" PROVE EachOnce'
      OBVIOUS
    <3>1. emitted' = emitted
      <4>1. ItemsOnPage(url) = <<>>
        BY DEF ItemsOnPage, IsApi
      <4>2. emitted \o <<>> = emitted
        BY <1>a
      <4> QED
        BY <2>1, <2>2, <4>1, <4>2
    <3> QED
      BY <2>1, <2>2, <3>1, ListPageEachOnce DEF EachOnce, Taken
  <2> QED
    BY <2>1, <2>4, <2>6, <2>7, <2>8, <2>9, <2>12, <2>13 DEF Walk
<1>4. CASE EmitItem
  <2>1. /\ call.pc = "returned" /\ ~Listing /\ UNCHANGED web
        /\ emitted' = Append(emitted, Head(fetch.items))
        /\ fetch' = [fetch EXCEPT !.items = Tail(@)]
    BY <1>4 DEF EmitItem
  <2>2. fetch.items # <<>>
    BY <1>a, <2>1 DEF CallOfTheLoop
  <2>3. /\ fetch'.items = Tail(fetch.items) /\ fetch'.found = fetch.found
        /\ fetch'.seen = fetch.seen /\ fetch'.pages = fetch.pages
    BY <1>a, <2>1 DEF Fetches
  <2>4. /\ Head(fetch.items) \in Urls
        /\ ToSet(fetch.items) = {Head(fetch.items)} \cup ToSet(Tail(fetch.items))
    BY <1>b, <2>2, HeadAndTail
  <2>5. ToSet(emitted') = ToSet(emitted) \cup {Head(fetch.items)}
    BY <1>a, <2>1, <2>4, ToSetAppend
  <2>6. Taken' = Taken
    BY <2>3, <2>4, <2>5 DEF Taken
  <2>7. web.kind = "web_list" => EachOnce'
    <3> SUFFICES ASSUME web.kind = "web_list" PROVE EachOnce'
      OBVIOUS
    <3>1. /\ IsInjective(emitted) /\ IsInjective(fetch.items)
          /\ ToSet(emitted) \cap ToSet(fetch.items) = {} /\ fetch.seen = Taken
      BY DEF Walk, EachOnce
    <3>2. /\ IsInjective(emitted') /\ IsInjective(fetch'.items)
          /\ ToSet(emitted') \cap ToSet(fetch'.items) = {}
      BY <1>a, <1>b, <2>1, <2>2, <2>3, <3>1, InjectiveMoves
    <3> QED
      BY <2>3, <2>6, <3>1, <3>2 DEF EachOnce
  <2> QED
    BY <2>1, <2>3, <2>6, <2>7, WalkStays
<1>5. CASE UNCHANGED <<web, fetch, emitted>>
  <2>1. Taken' = Taken /\ (web.kind = "web_list" => EachOnce')
    BY <1>5 DEF Walk, Taken, EachOnce
  <2> QED
    BY <1>5, <2>1, WalkStays
<1> QED
  BY <1>1, <1>2, <1>3, <1>4, <1>5
     DEF Next, Step, GetPage, GetItem, Finish, ReportFailure, Unreadable, Kill, Tick, vars,
     fetchVars

\* A task is done only when its walk is over.
WalkedToTheEnd == task.status = "done" => ~ListsMore /\ fetch.items = <<>>

LEMMA EndNext == TypeInv /\ WalkedToTheEnd /\ [Next]_vars => WalkedToTheEnd'
<1> SUFFICES ASSUME TypeInv, WalkedToTheEnd, [Next]_vars, task'.status = "done"
             PROVE  (~ListsMore /\ fetch.items = <<>>)'
  BY DEF WalkedToTheEnd
<1>a. /\ TaskTyped /\ task \in Tasks /\ CallOfTheLoop /\ HttpTypeOK /\ call \in Calls
      /\ call.retry_after \in Nat
  BY DEF TypeInv, TaskTyped, HttpTypeOK, Calls
<1>1. CASE Finish
  BY <1>1 DEF Finish, ListsMore, CountsPages, IsApi
<1>2. CASE UNCHANGED <<web, fetch>> /\ task'.status = task.status
  BY <1>2 DEF WalkedToTheEnd, ListsMore, CountsPages, IsApi
<1>3. CASE Execute \/ Skip \/ GetPage \/ GetItem \/ ReadPage \/ EmitItem
  BY <1>3, <1>a
     DEF Execute, Skip, GetPage, GetItem, ReadPage, EmitItem, fetchVars, Running, Tasks
<1>4. ASSUME Running, NEW error \in RETRYABLE_ERRORS \cup {"permanent", "configuration"},
             NEW delay \in Nat, FailTask(error, delay)
      PROVE  FALSE
  BY <1>a, <1>4, FailTaskIs
<1>5. CASE ReportFailure
  <2>1. call.error \in RETRYABLE_ERRORS \cup {"permanent"}
    BY <1>5, <1>a DEF ReportFailure, HttpTypeOK, Calls, RETRYABLE_ERRORS
  <2> QED
    BY <1>5, <1>a, <1>4, <2>1 DEF ReportFailure
<1>6. CASE Unreadable \/ Kill
  <2>1. PICK error \in {"unknown", "configuration", "timeout"} :
            Running /\ FailTask(error, 0)
    BY <1>6, SMTT(30) DEF Unreadable, Kill, PageError
  <2> QED
    BY <1>4, <2>1 DEF RETRYABLE_ERRORS
<1>7. CASE Tick
  BY <1>7, <1>2, <1>a DEF Tick, Tasks
<1> QED
  BY <1>1, <1>2, <1>3, <1>5, <1>6, <1>7 DEF Next, Step, vars, fetchVars

\* FetchIsComplete for any site and any limits: the walk of a fetcher neither
\* leaves out what can be reached nor adds to it, whatever links back.
THEOREM FetchesAreComplete == Spec => []FetchIsComplete
<1>1. Init => Walk /\ WalkedToTheEnd
  BY WalkInit DEF Init, WalkedToTheEnd
<1>2. TypeInv /\ LimitInv /\ Walk /\ WalkedToTheEnd /\ [Next]_vars
          => Walk' /\ WalkedToTheEnd'
  BY WalkNext, EndNext
<1>3. TypeInv /\ LimitInv /\ Walk /\ WalkedToTheEnd => FetchIsComplete
  <2> SUFFICES ASSUME TypeInv, LimitInv, Walk, WalkedToTheEnd, task.status = "done"
               PROVE  /\ ToSet(emitted) \subseteq Expected
                      /\ ~CutOff => ToSet(emitted) = Expected
                      /\ web.kind = "web_list" => Len(emitted) = Cardinality(ToSet(emitted))
    BY DEF FetchIsComplete
  <2>a. FetchTyped /\ emitted \in Seq(Urls)
    BY DEF TypeInv, FetchTyped
  <2>1. ~ListsMore /\ fetch.items = <<>> /\ Taken = ToSet(emitted)
    BY ToSetEmpty DEF WalkedToTheEnd, Taken
  <2>2. ToSet(emitted) \subseteq Expected
    BY <2>1 DEF Walk
  <2>3. ASSUME ~CutOff, web.kind # "web_page" PROVE Expected \subseteq ToSet(emitted)
    <3>1. /\ CountsPages => fetch.count < MaxPages
          /\ ~IsApi => fetch.found < MaxItems
      BY <2>3, <2>a, FetchIs DEF CutOff
    <3>2. fetch.pages = <<>>
      BY <2>1, <3>1 DEF ListsMore, IsApi
    <3>3. ToSet(fetch.pages) = {}
      BY <3>2, ToSetEmpty
    <3>4. PICK D \in SUBSET Urls : Covers(D)
      BY <2>3 DEF Walk
    <3>5. Reachable \subseteq D
      BY <2>a, <3>3, <3>4, ReachableIs DEF Covers
    <3>6. \A u \in D : ToSet(web.links[u]) \subseteq ToSet(emitted)
      BY <2>1, <3>1, <3>4 DEF Covers
    <3> QED
      BY <2>3, <3>5, <3>6 DEF Expected
  <2>4. web.kind = "web_page" => ToSet(emitted) = Expected
    BY <2>1 DEF Walk
  <2>5. web.kind = "web_list" => Len(emitted) = Cardinality(ToSet(emitted))
    BY <2>a, InjectiveCounts DEF Walk, EachOnce
  <2> QED
    BY <2>2, <2>3, <2>4, <2>5
<1> QED
  BY <1>1, <1>2, <1>3, Limited, PTL DEF Spec
=============================================================================
