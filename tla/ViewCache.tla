------------------------------ MODULE ViewCache ------------------------------
(***************************************************************************)
(* The cache behind the API's analytics and report views                   *)
(* (app/cache/backends.py, app/api/routers/analytics.py _cached_view,      *)
(* app/api/routers/reports.py) and the ingest job that lands new data      *)
(* under it (app/workers/jobs.py ingest_job).                              *)
(*                                                                         *)
(* A request looks its view up, and on a miss computes it from the stored  *)
(* data and stores the answer.  The handlers never await in between, so a  *)
(* replica serves one request at a time, but ingest jobs and the other     *)
(* replicas run meanwhile.  The data is a version: the number of ingests   *)
(* that have landed.  With the memory backend each replica has a cache of  *)
(* its own, a bounded LRU; with the redis backend all share the server,    *)
(* which each reaches through a circuit breaker (app/core/retry.py).       *)
(*                                                                         *)
(* Keys are views: one set of parameters for each.  The hit, miss and      *)
(* error counters are left out, and so are the views that configuration    *)
(* keeps out of the cache.  Clearing the shared cache, a scan with one     *)
(* delete for each key, is one step.                                       *)
(***************************************************************************)
EXTENDS Integers, Sequences, FiniteSets

CONSTANTS
    Deployments,    \* what is deployed: see Deployment
    Families,       \* INGEST_SENSITIVE_PREFIXES: the undotted prefixes
    FamilyOf,       \* the family each view's prefix starts with
    MaxEntries,     \* MemoryCache.max_entries
    Threshold,      \* CircuitBreaker.failure_threshold
    ResetTimeout,   \* CircuitBreaker.reset_timeout
    ComputeBound,   \* the longest time from a request's scan to its store
    MaxOutages      \* bound: times the server goes down

VARIABLE deployment  \* the configuration, which does not change

\* settings.cache.backend, "memory" or "redis"; the API processes; the views,
\* named by their dotted prefix, those with a format but JSON, and the TTL each
\* is stored with; and the bounds on time and ingest jobs.
Deployment == {"backend", "replicas", "views", "rendered", "lifetime", "maxTime", "maxIngests"}

Backend == deployment.backend
Replicas == deployment.replicas
Views == deployment.views
Rendered == deployment.rendered
Lifetime == deployment.lifetime
MaxTime == deployment.maxTime
MaxIngests == deployment.maxIngests

ASSUME ViewCacheAssumption ==
    /\ \A d \in Deployments :
         /\ DOMAIN d = Deployment
         /\ d.backend \in {"memory", "redis"}
         /\ d.views \intersect Families = {}
         /\ d.rendered \subseteq d.views
         /\ d.views \subseteq DOMAIN FamilyOf
         /\ d.lifetime \in [d.views -> Nat \ {0}]
         /\ {d.maxTime, d.maxIngests} \subseteq Nat
    /\ \A v \in DOMAIN FamilyOf : FamilyOf[v] \in Families
    /\ {MaxEntries, Threshold, ResetTimeout} \subseteq Nat \ {0}
    /\ {ComputeBound, MaxOutages} \subseteq Nat

VARIABLES
    now,          \* the clock
    data,         \* ingests landed so far: what a view computes
    landedAt,     \* when each of them landed
    running,      \* those of them whose job has not returned yet
    entries,      \* the content of each cache, least recently used first
    up,           \* the redis server answers
    downSince,    \* when it last went down
    outages,      \* how often it did
    breaker,      \* the circuit breaker of each replica
    wasted,       \* calls of each replica into the current outage
    pc,           \* where each replica's request is
    request,      \* its locals
    answer        \* what each replica answered last at this moment

vars == <<deployment, now, data, landedAt, running, entries, up, downSince,
          outages, breaker, wasted, pc, request, answer>>

dataVars == <<deployment, data, landedAt, running>>
serverVars == <<up, downSince, outages>>

Caches == IF Backend = "memory" THEN Replicas ELSE {"redis"}

\* get_cache: the cache a replica's requests use.
CacheOf(r) == IF Backend = "memory" THEN r ELSE "redis"

NoRequest ==
    [view |-> "none", value |-> 0, scanned |-> 0, left |-> {}]
NoAnswer == [view |-> "none", value |-> 0]
ClosedBreaker == [state |-> "closed", failures |-> 0, openedAt |-> 0]

Init ==
    /\ deployment \in Deployments
    /\ now = 0
    /\ data = 0
    /\ landedAt = <<>>
    /\ running = {}
    /\ entries = [o \in Caches |-> <<>>]
    /\ up = TRUE
    /\ downSince = 0
    /\ outages = 0
    /\ breaker = [r \in Replicas |-> ClosedBreaker]
    /\ wasted = [r \in Replicas |-> 0]
    /\ pc = [r \in Replicas |-> "idle"]
    /\ request = [r \in Replicas |-> NoRequest]
    /\ answer = [r \in Replicas |-> NoAnswer]

-----------------------------------------------------------------------------
(* The circuit breaker *)

\* Reading the state property turns an open breaker half open in time.
State(b) ==
    IF b.state = "open" /\ now - b.openedAt >= ResetTimeout
    THEN "half_open" ELSE b.state

Allows(b) == State(b) # "open"

RecordSuccess(b) == [b EXCEPT !.state = "closed", !.failures = 0]

\* Variant: only the failure that reaches the threshold opens the breaker.
RecordFailure_once(b) ==
    IF b.failures + 1 = Threshold
    THEN [state |-> "open", failures |-> b.failures + 1, openedAt |-> now]
    ELSE [b EXCEPT !.state = State(b), !.failures = @ + 1]

RecordFailure(b) ==
    IF b.failures + 1 >= Threshold
    THEN [state |-> "open", failures |-> b.failures + 1, openedAt |-> now]
    ELSE [b EXCEPT !.state = State(b), !.failures = @ + 1]

\* _guard, when the call gets through and succeeds.
CallSucceeds(r) ==
    /\ Allows(breaker[r])
    /\ up
    /\ breaker' = [breaker EXCEPT ![r] = RecordSuccess(@)]
    /\ UNCHANGED wasted

\* _guard, when the call is refused by the breaker or fails: the default.
CallDegrades(r) ==
    \/ /\ ~ Allows(breaker[r])
       /\ UNCHANGED <<breaker, wasted>>
    \/ /\ Allows(breaker[r])
       /\ ~ up
       /\ breaker' = [breaker EXCEPT ![r] = RecordFailure(@)]
       /\ wasted' = [wasted EXCEPT ![r] = @ + 1]

-----------------------------------------------------------------------------
(* The content of a cache *)

\* The entries of s, in their order, that hold one of the views vs: a SelectSeq,
\* written as a function that the proofs can expand.
Keep(s, vs) ==
    LET kept[i \in 0..Len(s)] ==
            IF i = 0 THEN << >>
            ELSE IF s[i].view \in vs THEN Append(kept[i - 1], s[i]) ELSE kept[i - 1]
    IN  kept[Len(s)]

Without(s, v) == Keep(s, Views \ {v})

\* An entry is served until its deadline, and not at it.
Live(e) == e.expires > now

Found(o, v) == {e \in {entries[o][i] : i \in 1..Len(entries[o])} : e.view = v /\ Live(e)}

\* Variant: a hit prolongs the life of the entry.
AfterHit_renews(o, e) ==
    Append(Without(entries[o], e.view),
           [e EXCEPT !.expires = now + Lifetime[e.view]])

\* A hit makes the entry the most recently used; redis keeps no such order.
AfterHit(o, e) ==
    IF Backend = "memory" THEN Append(Without(entries[o], e.view), e) ELSE entries[o]

\* MemoryCache.get drops an entry that it finds expired.
AfterMiss(o, v) == Without(entries[o], v)

\* set: the newest entry goes to the end, and the memory backend evicts from
\* the other one.
AfterSet(o, v, value) ==
    LET s == Append(Without(entries[o], v),
                    [view |-> v, value |-> value, expires |-> now + Lifetime[v]])
    IN  IF Backend = "memory" /\ Len(s) > MaxEntries THEN Tail(s) ELSE s

\* clear(prefix): the memory backend compares the start of the key; the redis
\* pattern <namespace>:<prefix>:* wants the whole prefix.
Matches(prefix, v) ==
    \/ prefix = v
    \/ Backend = "memory" /\ prefix = FamilyOf[v]

Cleared(o, prefixes) ==
    Keep(entries[o], {v \in Views : \A p \in prefixes : ~ Matches(p, v)})

-----------------------------------------------------------------------------
(* Requests *)

\* cache.get finds the view: the cached payload is the answer.
Hit(r, v) ==
    /\ pc[r] = "idle"
    /\ Backend = "redis" => CallSucceeds(r)
    /\ Backend = "memory" => UNCHANGED <<breaker, wasted>>
    /\ \E e \in Found(CacheOf(r), v) :
          /\ entries' = [entries EXCEPT ![CacheOf(r)] = AfterHit(CacheOf(r), e)]
          /\ answer' = [answer EXCEPT ![r] =
                [view |-> v, value |-> e.value]]
    /\ UNCHANGED <<now, dataVars, serverVars, pc, request>>

\* Nothing is cached, the server cannot be asked, or the report is wanted as
\* Markdown or HTML, which is rendered from a new report.
Miss(r, v) ==
    /\ pc[r] = "idle"
    /\ \/ /\ Backend = "memory"
          /\ Found(r, v) = {}
          /\ entries' = [entries EXCEPT ![r] = AfterMiss(r, v)]
          /\ UNCHANGED <<breaker, wasted>>
       \/ /\ Backend = "redis"
          /\ Found("redis", v) = {}
          /\ CallSucceeds(r)
          /\ UNCHANGED entries
       \/ /\ Backend = "redis"
          /\ CallDegrades(r)
          /\ UNCHANGED entries
       \/ /\ v \in Rendered
          /\ Backend = "redis" => CallSucceeds(r)
          /\ Backend = "memory" => UNCHANGED <<breaker, wasted>>
          /\ \E e \in Found(CacheOf(r), v) :
                entries' = [entries EXCEPT ![CacheOf(r)] = AfterHit(CacheOf(r), e)]
    /\ pc' = [pc EXCEPT ![r] = "compute"]
    /\ request' = [request EXCEPT ![r] =
          [NoRequest EXCEPT !.view = v]]
    /\ UNCHANGED <<now, dataVars, serverVars, answer>>

\* factory(): the query over the stored data.
Compute(r) ==
    /\ pc[r] = "compute"
    /\ pc' = [pc EXCEPT ![r] = "store"]
    /\ request' = [request EXCEPT ![r].value = data, ![r].scanned = now]
    /\ UNCHANGED <<now, dataVars, entries, serverVars, breaker, wasted, answer>>

\* cache.set, and the answer is returned whether or not it could be stored.
Store(r) ==
    /\ pc[r] = "store"
    /\ \/ /\ Backend = "redis" => CallSucceeds(r)
          /\ Backend = "memory" => UNCHANGED <<breaker, wasted>>
          /\ entries' = [entries EXCEPT ![CacheOf(r)] =
                AfterSet(CacheOf(r), request[r].view, request[r].value)]
       \/ /\ Backend = "redis"
          /\ CallDegrades(r)
          /\ UNCHANGED entries
    /\ pc' = [pc EXCEPT ![r] = "idle"]
    /\ request' = [request EXCEPT ![r] = NoRequest]
    /\ answer' = [answer EXCEPT ![r] =
          [view |-> request[r].view, value |-> request[r].value]]
    /\ UNCHANGED <<now, dataVars, serverVars>>

\* cache.clear(prefix) on the replica's own cache.
Clear(r, prefix) ==
    \/ /\ Backend = "redis" => CallSucceeds(r)
       /\ Backend = "memory" => UNCHANGED <<breaker, wasted>>
       /\ entries' = [entries EXCEPT ![CacheOf(r)] = Cleared(CacheOf(r), {prefix})]
    \/ /\ Backend = "redis"
       /\ CallDegrades(r)
       /\ UNCHANGED entries

\* /admin/cache/clear with a prefix.
AdminClear(r, prefix) ==
    /\ pc[r] = "idle"
    /\ Clear(r, prefix)
    /\ UNCHANGED <<now, dataVars, serverVars, pc, request, answer>>

\* /admin/cache/clear without one: invalidate_after_ingest, a call for each of
\* the families.
AdminClearAll(r) ==
    /\ pc[r] = "idle"
    /\ pc' = [pc EXCEPT ![r] = "clear"]
    /\ request' = [request EXCEPT ![r].left = Families]
    /\ UNCHANGED <<now, dataVars, entries, serverVars, breaker, wasted, answer>>

ClearNext(r) ==
    /\ pc[r] = "clear"
    /\ \E p \in request[r].left :
          /\ Clear(r, p)
          /\ request' = [request EXCEPT ![r].left = @ \ {p}]
          /\ pc' = [pc EXCEPT ![r] = IF request[r].left = {p} THEN "idle" ELSE @]
    /\ UNCHANGED <<now, dataVars, serverVars, answer>>

\* /health/ready and /admin/cache/stats ping the server.
Ping(r) ==
    /\ pc[r] = "idle"
    /\ Backend = "redis"
    /\ CallSucceeds(r) \/ CallDegrades(r)
    /\ UNCHANGED <<now, dataVars, entries, serverVars, pc, request, answer>>

-----------------------------------------------------------------------------
(* Ingest jobs, time and the server *)

\* The pipeline of an ingest job publishes its files.
Land ==
    /\ data < MaxIngests
    /\ data' = data + 1
    /\ landedAt' = Append(landedAt, now)
    /\ running' = running \union {data + 1}
    /\ UNCHANGED <<deployment, now, entries, serverVars, breaker, wasted,
                   pc, request, answer>>

\* invalidate_after_ingest on the cache that build_cache makes for the job: a
\* new, empty MemoryCache, or the redis server if it answers.
Invalidate(j) ==
    /\ j \in running
    /\ running' = running \ {j}
    /\ entries' = IF Backend = "redis" /\ up
                  THEN [entries EXCEPT !["redis"] = Cleared("redis", Families)]
                  ELSE entries
    /\ UNCHANGED <<deployment, now, data, landedAt, serverVars, breaker, wasted,
                   pc, request, answer>>

\* Time passes.  A request takes no longer than ComputeBound from its scan.
Tick ==
    /\ now < MaxTime
    /\ \A r \in Replicas :
          pc[r] = "store" => now < request[r].scanned + ComputeBound
    /\ now' = now + 1
    /\ answer' = [r \in Replicas |-> NoAnswer]
    /\ UNCHANGED <<dataVars, entries, serverVars, breaker, wasted, pc, request>>

ServerFails ==
    /\ Backend = "redis"
    /\ up
    /\ outages < MaxOutages
    /\ up' = FALSE
    /\ downSince' = now
    /\ outages' = outages + 1
    /\ wasted' = [r \in Replicas |-> 0]
    /\ UNCHANGED <<now, dataVars, entries, breaker, pc, request, answer>>

ServerReturns ==
    /\ ~ up
    /\ up' = TRUE
    /\ UNCHANGED <<now, dataVars, entries, downSince, outages, breaker, wasted,
                   pc, request, answer>>

RequestStep(r) ==
    \/ \E v \in Views : Hit(r, v)
    \/ \E v \in Views : Miss(r, v)
    \/ Compute(r)
    \/ Store(r)
    \/ \E p \in Views \union Families : AdminClear(r, p)
    \/ AdminClearAll(r)
    \/ ClearNext(r)
    \/ Ping(r)

Next ==
    \/ \E r \in Replicas : RequestStep(r)
    \/ Land
    \/ \E j \in running : Invalidate(j)
    \/ Tick
    \/ ServerFails
    \/ ServerReturns

Spec == Init /\ [][Next]_vars
-----------------------------------------------------------------------------
Entry == [view : Views, value : Nat, expires : Nat]
Request == [view : Views \union {"none"}, value : Nat, scanned : Nat, left : SUBSET Families]
Answer == [view : Views \union {"none"}, value : Nat]
Breaker == [state : {"closed", "open", "half_open"}, failures : Nat, openedAt : Nat]

\* A cache holds one entry for a key and, in the memory backend, no more than
\* max_entries of them.
WithinLimits(s) ==
    /\ \A i, j \in 1..Len(s) : s[i].view = s[j].view => i = j
    /\ Backend = "memory" => Len(s) <= MaxEntries

\* Every variable keeps its type, and every cache its limits, whatever is
\* stored, found, evicted or cleared.
TypeOK ==
    /\ deployment \in Deployments
    /\ now \in Nat
    /\ data \in Nat /\ running \subseteq 1..data
    /\ landedAt \in Seq(Nat) /\ Len(landedAt) = data
    /\ entries \in [Caches -> Seq(Entry)]
    /\ \A o \in Caches : WithinLimits(entries[o])
    /\ up \in BOOLEAN /\ downSince \in Nat /\ outages \in 0..MaxOutages
    /\ breaker \in [Replicas -> Breaker]
    /\ wasted \in [Replicas -> Nat]
    /\ pc \in [Replicas -> {"idle", "compute", "store", "clear"}]
    /\ request \in [Replicas -> Request]
    /\ answer \in [Replicas -> Answer]
    /\ \A r \in Replicas : pc[r] \in {"compute", "store"} => request[r].view \in Views

\* "TTL is the primary mechanism" (app/cache/__init__.py): no answer misses an
\* ingest that landed longer ago than the view's TTL and the time a request may
\* take from its scan to its store, whatever was cached, by whom and when.
StalenessBounded ==
    \A r \in Replicas :
        LET a == answer[r] IN
        a.view # "none" /\ a.value < data =>
            now < landedAt[a.value + 1] + Lifetime[a.view] + ComputeBound

\* "A circuit breaker stops hammering a dead Redis on every request": during an
\* outage a replica's calls reach the server no more often than the threshold,
\* and once more for each reset timeout that has passed (RedisCache._guard).
NotHammered ==
    ~ up => \A r \in Replicas :
        wasted[r] <= Threshold + (now - downSince) \div ResetTimeout

-----------------------------------------------------------------------------
(* The inductive invariants behind StalenessBounded and NotHammered *)

\* When version v of the data stopped being the current one: not yet, or when
\* the ingest that followed it landed.
Superseded(v) == IF v < data THEN landedAt[v + 1] ELSE now

\* An entry dies, a computed value is stored, and an answer was given, in time
\* after its version was superseded.
EntryInTime(e) ==
    e.value <= data /\ e.expires <= Superseded(e.value) + Lifetime[e.view] + ComputeBound

RequestInTime(q) ==
    /\ q.value <= data /\ q.scanned <= Superseded(q.value)
    /\ q.scanned <= now /\ now <= q.scanned + ComputeBound

AnswerInTime(a) ==
    a.value <= data /\ now < Superseded(a.value) + Lifetime[a.view] + ComputeBound

InTime ==
    /\ \A o \in Caches : \A i \in 1..Len(entries[o]) : EntryInTime(entries[o][i])
    /\ \A r \in Replicas : pc[r] = "store" => RequestInTime(request[r])
    /\ \A r \in Replicas : answer[r].view # "none" => AnswerInTime(answer[r])

\* A breaker that is open has failed often enough; one that failed in this
\* outage has counted each of these failures, and if they opened it, it let
\* through one for each reset timeout before it opened last.
BreakerInv(r) ==
    LET b == breaker[r] IN
    /\ b.state = (IF b.failures < Threshold THEN "closed" ELSE "open")
    /\ ~ up => wasted[r] <= b.failures
    /\ ~ up /\ wasted[r] > 0 /\ b.failures >= Threshold =>
           /\ downSince <= b.openedAt /\ b.openedAt <= now
           /\ wasted[r] <= Threshold + (b.openedAt - downSince) \div ResetTimeout

Guarded ==
    /\ downSince <= now
    /\ \A r \in Replicas : BreakerInv(r)
=============================================================================
