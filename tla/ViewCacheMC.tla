---------------------------- MODULE ViewCacheMC ----------------------------
(* The deployments of ViewCache that TLC checks. *)
EXTENDS ViewCache, TLC

CONSTANTS r1, r2, alone

ViewFamilies == {"analytics", "reports"}
Family == [v \in {"analytics.errors", "reports.daily"} |->
               IF v = "reports.daily" THEN "reports" ELSE "analytics"]

\* One process with a cache of its own: an analytics view, and the daily
\* report, which is stored four times as long.
InMemory ==
    [backend |-> "memory", replicas |-> {alone}, views |-> {"analytics.errors", "reports.daily"},
     rendered |-> {"reports.daily"},
     lifetime |-> [v \in {"analytics.errors", "reports.daily"} |->
                       IF v = "reports.daily" THEN 4 ELSE 1],
     maxTime |-> 7, maxIngests |-> 2]

\* Two processes that share the server; one view is enough.
Shared ==
    [backend |-> "redis", replicas |-> {r1, r2}, views |-> {"analytics.errors"},
     rendered |-> {}, lifetime |-> [v \in {"analytics.errors"} |-> 2],
     maxTime |-> 4, maxIngests |-> 1]

Both == {InMemory, Shared}

\* The API processes are alike.
ReplicasAreAlike == Permutations({r1, r2})
=============================================================================
