----------------------------- MODULE ApiService -----------------------------
(***************************************************************************)
(* A request's way through the API: the middleware stack, the caller's     *)
(* identity (app/api/security.py), the collaborators it shares with other  *)
(* requests (app/api/deps.py) and the handler's answer (app/api/routers,   *)
(* app/api/errors.py), beside the admin operations that take keys and      *)
(* collaborators away under it.                                            *)
(*                                                                         *)
(* authenticate and the providers of app/api/deps.py are plain functions,  *)
(* which FastAPI runs in a thread pool; the handlers are coroutines without *)
(* an await, which run on the event loop.  So the steps of the former      *)
(* interleave with everything, and an admin handler is interleaved with    *)
(* them between any two of its own calls.  Each process has its own        *)
(* principals and collaborators; the keys are in the metadata store        *)
(* (app/storage/metadata.py), which all share.                             *)
(*                                                                         *)
(* A key stands for its name and its secret: a revoked row keeps its name, *)
(* so no second key can have it.  api.auth_required is true, as production *)
(* validation demands.  The engine stands for all the collaborators: the   *)
(* others are built from it in the same way.                               *)
(***************************************************************************)
EXTENDS Integers, Sequences, FiniteSets, SequencesExt

Scopes == {"read", "write", "admin"}

CONSTANTS
    Procs,          \* the API processes
    Threads,        \* requests under way at a time
    Keys,           \* keys of the metadata store
    ConfigKey,      \* the key that configuration accepts
    NoKey,          \* no key is presented, or an empty one
    RouteScopes,    \* scopes the routes ask for
    KeyScopes,      \* scope sets that keys are created with
    Ttl,            \* PRINCIPAL_CACHE_TTL_SECONDS
    CacheMax,       \* _PRINCIPAL_CACHE_MAX
    MaxTime,        \* bound: the time that passes
    MaxResets,      \* bound: reloads of each process
    MaxOutages      \* bound: times the metadata store goes down

ASSUME ApiAssumption ==
    /\ "nobody" \notin Threads
    /\ ConfigKey \notin Keys /\ NoKey \notin Keys \union {ConfigKey}
    /\ RouteScopes \subseteq Scopes /\ KeyScopes \subseteq SUBSET Scopes
    /\ {Ttl, CacheMax} \subseteq Nat \ {0}
    /\ {MaxTime, MaxResets, MaxOutages} \subseteq Nat

VARIABLES
    now,          \* the monotonic clock
    record,       \* the rows of api_keys: "absent", "active" or "revoked"
    scopes,       \* the scopes of each row
    revokedAt,    \* when each was revoked, or MaxTime + 1
    up,           \* the metadata store answers
    outages,
    cache,        \* _principal_cache of each process, oldest first
    engine,       \* _singletons["engine"] of each process, 0 when there is none
    epoch,        \* how often each process dropped its singletons
    built,        \* the engines built so far, each with its process and epoch
    lock,         \* who holds _lock of each process: a thread, or nobody
    admin,        \* the calls each process's admin handler has still to make
    pc,           \* where each request is
    req           \* its locals

vars == <<now, record, scopes, revokedAt, up, outages, cache, engine, epoch,
          built, lock, admin, pc, req>>

storeVars == <<record, scopes, revokedAt, up, outages>>
depVars == <<engine, epoch, built, lock>>

Nobody == "nobody"

\* The caller is known and has the scope of the route.
Authenticated(t) == pc[t] = "resolve"

NoRequest == [proc |-> Nobody, key |-> NoKey, needs |-> "read", asked |-> 0,
              scopes |-> {}, excuse |-> FALSE]

Init ==
    /\ now = 0
    /\ record = [k \in Keys |-> "absent"]
    /\ scopes = [k \in Keys |-> {}]
    /\ revokedAt = [k \in Keys |-> MaxTime + 1]
    /\ up = TRUE
    /\ outages = 0
    /\ cache = [p \in Procs |-> <<>>]
    /\ engine = [p \in Procs |-> 0]
    /\ epoch = [p \in Procs |-> 0]
    /\ built = <<>>
    /\ lock = [p \in Procs |-> Nobody]
    /\ admin = [p \in Procs |-> <<>>]
    /\ pc = [t \in Threads |-> "idle"]
    /\ req = [t \in Threads |-> NoRequest]

-----------------------------------------------------------------------------
(* Scopes and answers *)

\* _SCOPE_IMPLIES: admin grants everything, write implies read.
Implied(s) ==
    CASE s = "admin" -> Scopes
      [] s = "write" -> {"write", "read"}
      [] s = "read"  -> {"read"}

\* Principal.has
Has(held, scope) == \E s \in held : scope \in Implied(s)

\* The request is answered, and its connection takes the next one.  Statuses
\* other than 401 and 403 are not told apart: they depend on components outside.
Reply(t) ==
    /\ pc' = [pc EXCEPT ![t] = "idle"]
    /\ req' = [req EXCEPT ![t] = NoRequest]

\* The answer is a 401 or a 403.
Refuse(t, excuse) ==
    /\ pc' = [pc EXCEPT ![t] = "refused"]
    /\ req' = [req EXCEPT ![t] = [NoRequest EXCEPT !.excuse = excuse]]

\* require_scope, once the caller is known.
Authorise(t, r, held) ==
    IF Has(held, r.needs)
    THEN /\ pc' = [pc EXCEPT ![t] = "resolve"]
         /\ req' = [req EXCEPT ![t] = [r EXCEPT !.scopes = {}, !.excuse = FALSE]]
    ELSE Refuse(t, r.excuse \/ (r.key \in Keys /\ ~ Has(scopes[r.key], r.needs)))

-----------------------------------------------------------------------------
(* The metadata store: each operation is one transaction, which fails as a  *)
(* whole when the store is down.                                            *)

\* MetadataStore.verify_api_key: only active rows are candidates.
verify_api_key(k) == up /\ record[k] = "active"

\* MetadataStore.create_api_key: names are unique.
create_api_key(k, s) ==
    /\ up /\ record[k] = "absent"
    /\ record' = [record EXCEPT ![k] = "active"]
    /\ scopes' = [scopes EXCEPT ![k] = s]

\* MetadataStore.revoke_api_key: the row stays, inactive.
revoke_api_key(k) ==
    /\ up /\ record[k] # "absent"
    /\ record' = [record EXCEPT ![k] = "revoked"]
    /\ revokedAt' = [revokedAt EXCEPT ![k] = IF @ > now THEN now ELSE @]

-----------------------------------------------------------------------------
(* Arrival *)

\* What can make a refusal of the key right at this moment.
Excuse(k) == k = NoKey \/ (k \in Keys /\ (record[k] # "active" \/ ~ up))

\* RequestSizeLimitMiddleware and RateLimitMiddleware may answer for
\* themselves, which leaves no trace here; what they let pass is authenticated.
Arrive(t, p, k, s) ==
    /\ pc[t] = "idle"
    /\ pc' = [pc EXCEPT ![t] = "auth"]
    /\ req' = [req EXCEPT ![t] = [NoRequest EXCEPT
          !.proc = p, !.key = k, !.needs = s, !.excuse = Excuse(k)]]
    /\ UNCHANGED <<now, storeVars, cache, depVars, admin>>

\* The refusal is sent.
Refused(t) ==
    /\ pc[t] = "refused"
    /\ Reply(t)
    /\ UNCHANGED <<now, storeVars, cache, depVars, admin>>

-----------------------------------------------------------------------------
(* authenticate *)

\* An entry at its deadline is expired.
Cached(p, k) == {e \in ToSet(cache[p]) : e.key = k /\ e.expires > now}

\* pop(key, None): a key is there at most once.
Forget(s, k) ==
    IF \E i \in 1..Len(s) : s[i].key = k
    THEN RemoveAt(s, CHOOSE i \in 1..Len(s) : s[i].key = k) ELSE s

\* No key is a 401, a key of the configuration is an administrator's, and any
\* other is looked up among the principals: "now" is read before the lookup.
Lookup(t) ==
    /\ pc[t] = "auth"
    /\ LET p == req[t].proc
           k == req[t].key
           r == [req[t] EXCEPT !.asked = now]
       IN  \/ /\ k = NoKey
              /\ Refuse(t, req[t].excuse)
              /\ UNCHANGED cache
           \/ /\ k = ConfigKey
              /\ Authorise(t, r, {"admin"})
              /\ UNCHANGED cache
           \/ /\ \E e \in Cached(p, k) : Authorise(t, r, e.scopes)
              /\ UNCHANGED cache
           \/ /\ k \in Keys /\ Cached(p, k) = {}
              /\ cache' = [cache EXCEPT ![p] = Forget(@, k)]
              /\ pc' = [pc EXCEPT ![t] = "verify"]
              /\ req' = [req EXCEPT ![t] = r]
    /\ UNCHANGED <<now, storeVars, depVars, admin>>

\* Variant: a key that is not found is remembered as one without any scope.
Verify_cachesFailures(t) ==
    /\ pc[t] = "verify"
    /\ LET k == req[t].key
           p == req[t].proc
       IN  IF verify_api_key(k)
           THEN /\ pc' = [pc EXCEPT ![t] = "fill"]
                /\ req' = [req EXCEPT ![t].scopes = scopes[k]]
                /\ UNCHANGED cache
           ELSE /\ cache' = [cache EXCEPT ![p] = Append(Forget(@, k),
                      [key |-> k, scopes |-> {}, expires |-> req[t].asked + Ttl])]
                /\ Refuse(t, req[t].excuse)
    /\ UNCHANGED <<now, storeVars, depVars, admin>>

\* verify_api_key: the active rows are searched.  A store that cannot be asked
\* and a key that is not found are both a 401, and neither is remembered.
Verify(t) ==
    /\ pc[t] = "verify"
    /\ LET k == req[t].key
       IN  IF verify_api_key(k)
           THEN /\ pc' = [pc EXCEPT ![t] = "fill"]
                /\ req' = [req EXCEPT ![t].scopes = scopes[k]]
           ELSE Refuse(t, req[t].excuse)
    /\ UNCHANGED <<now, storeVars, cache, depVars, admin>>

\* The cache with an entry for k: one that is there keeps its place, and the
\* oldest go when there are too many.
Remember(s, e) ==
    LET with == IF \E i \in 1..Len(s) : s[i].key = e.key
                THEN [i \in 1..Len(s) |-> IF s[i].key = e.key THEN e ELSE s[i]]
                ELSE Append(s, e)
    IN  SubSeq(with, 1 + (IF Len(with) > CacheMax THEN Len(with) - CacheMax ELSE 0),
               Len(with))

\* Variant: the clock is read again when the principal is stored.
Fill_later(t) ==
    /\ pc[t] = "fill"
    /\ LET p == req[t].proc
           e == [key |-> req[t].key, scopes |-> req[t].scopes, expires |-> now + Ttl]
       IN  /\ cache' = [cache EXCEPT ![p] = Remember(@, e)]
           /\ Authorise(t, req[t], req[t].scopes)
    /\ UNCHANGED <<now, storeVars, depVars, admin>>

\* The principal is stored with a deadline counted from the lookup.
Fill(t) ==
    /\ pc[t] = "fill"
    /\ LET p == req[t].proc
           e == [key |-> req[t].key, scopes |-> req[t].scopes,
                 expires |-> req[t].asked + Ttl]
       IN  /\ cache' = [cache EXCEPT ![p] = Remember(@, e)]
           /\ Authorise(t, req[t], req[t].scopes)
    /\ UNCHANGED <<now, storeVars, depVars, admin>>

-----------------------------------------------------------------------------
(* Collaborators *)

\* _singleton: the first look, without the lock.  Who asked no longer matters.
Resolve(t) ==
    /\ pc[t] = "resolve"
    /\ pc' = [pc EXCEPT ![t] = IF engine[req[t].proc] # 0 THEN "handle" ELSE "lock"]
    /\ req' = [req EXCEPT ![t] = [NoRequest EXCEPT !.proc = req[t].proc,
                                                  !.needs = req[t].needs]]
    /\ UNCHANGED <<now, storeVars, cache, depVars, admin>>

Acquire(t) ==
    /\ pc[t] = "lock"
    /\ lock[req[t].proc] = Nobody
    /\ lock' = [lock EXCEPT ![req[t].proc] = t]
    /\ pc' = [pc EXCEPT ![t] = "build"]
    /\ UNCHANGED <<now, storeVars, cache, engine, epoch, built, admin, req>>

\* Variant: nobody looks again once the lock is held.
Build_unchecked(t) ==
    /\ pc[t] = "build"
    /\ pc' = [pc EXCEPT ![t] = "construct"]
    /\ UNCHANGED <<now, storeVars, cache, depVars, admin, req>>

\* Variant: the lock is kept when the second look finds an engine.
Build_keepsLock(t) ==
    /\ pc[t] = "build"
    /\ pc' = [pc EXCEPT ![t] = IF engine[req[t].proc] # 0 THEN "handle" ELSE "construct"]
    /\ UNCHANGED <<now, storeVars, cache, depVars, admin, req>>

\* The second look, with the lock held: an engine that is there is taken.
Build(t) ==
    /\ pc[t] = "build"
    /\ LET p == req[t].proc
       IN  IF engine[p] # 0
           THEN /\ lock' = [lock EXCEPT ![p] = Nobody]
                /\ pc' = [pc EXCEPT ![t] = "handle"]
           ELSE /\ pc' = [pc EXCEPT ![t] = "construct"]
                /\ UNCHANGED lock
    /\ UNCHANGED <<now, storeVars, cache, engine, epoch, built, admin, req>>

\* The factory has returned: its engine is everybody's, and the lock is free.
Construct(t) ==
    /\ pc[t] = "construct"
    /\ LET p == req[t].proc
       IN  /\ built' = Append(built, [proc |-> p, epoch |-> epoch[p]])
           /\ engine' = [engine EXCEPT ![p] = Len(built) + 1]
           /\ lock' = [lock EXCEPT ![p] = Nobody]
    /\ pc' = [pc EXCEPT ![t] = "handle"]
    /\ UNCHANGED <<now, storeVars, cache, epoch, admin, req>>

\* A handler that changes nothing here.  An engine that was closed meanwhile
\* connects again.
Handle(t) ==
    /\ pc[t] = "handle"
    /\ Reply(t)
    /\ UNCHANGED <<now, storeVars, cache, depVars, admin>>

-----------------------------------------------------------------------------
(* Admin handlers: what is left in admin[p] is done before the event loop of *)
(* the process takes another handler.                                        *)

\* The requests under way that now have an excuse for a refusal.
Excused(k) ==
    [t \in Threads |-> IF k = req[t].key /\ ~ Authenticated(t)
                       THEN [req[t] EXCEPT !.excuse = TRUE] ELSE req[t]]

\* An authorised request whose route is an admin operation.
IsAdminCall(t) ==
    /\ pc[t] = "handle"
    /\ req[t].needs = "admin"
    /\ admin[req[t].proc] = <<>>

\* POST /admin/apikeys: a name is used once.
CreateKey(t, k, s) ==
    /\ IsAdminCall(t)
    /\ create_api_key(k, s)
    /\ Reply(t)
    /\ UNCHANGED <<now, revokedAt, up, outages, cache, depVars, admin>>

\* DELETE /admin/apikeys/{name}: the row is committed as inactive; the cached
\* principals of this process go next.
RevokeKey(t, k) ==
    /\ IsAdminCall(t)
    /\ revoke_api_key(k)
    /\ admin' = [admin EXCEPT ![req[t].proc] = <<"clear">>]
    /\ pc' = [pc EXCEPT ![t] = "idle"]
    /\ req' = [Excused(k) EXCEPT ![t] = NoRequest]
    /\ UNCHANGED <<now, scopes, up, outages, cache, depVars>>

\* The same by a process that is not in Procs: its principals are not these.
RevokeElsewhere(k) ==
    /\ revoke_api_key(k)
    /\ req' = Excused(k)
    /\ UNCHANGED <<now, scopes, up, outages, cache, depVars, admin, pc>>

\* POST /admin/reload: the collaborators are dropped, then the principals.
Reload(t) ==
    /\ IsAdminCall(t)
    /\ epoch[req[t].proc] < MaxResets
    /\ admin' = [admin EXCEPT ![req[t].proc] = <<"reset", "clear">>]
    /\ Reply(t)
    /\ UNCHANGED <<now, storeVars, cache, depVars>>

\* reset_dependencies, under the lock.
ResetDependencies(p) ==
    /\ admin[p] # <<>> /\ Head(admin[p]) = "reset"
    /\ lock[p] = Nobody
    /\ engine' = [engine EXCEPT ![p] = 0]
    /\ epoch' = [epoch EXCEPT ![p] = @ + 1]
    /\ admin' = [admin EXCEPT ![p] = Tail(@)]
    /\ UNCHANGED <<now, storeVars, cache, built, lock, pc, req>>

\* clear_principal_cache
ClearPrincipals(p) ==
    /\ admin[p] # <<>> /\ Head(admin[p]) = "clear"
    /\ cache' = [cache EXCEPT ![p] = <<>>]
    /\ admin' = [admin EXCEPT ![p] = Tail(@)]
    /\ UNCHANGED <<now, storeVars, depVars, pc, req>>

-----------------------------------------------------------------------------
(* Time and the metadata store *)

Tick ==
    /\ now < MaxTime
    /\ now' = now + 1
    /\ UNCHANGED <<storeVars, cache, depVars, admin, pc, req>>

StoreFails ==
    /\ up /\ outages < MaxOutages
    /\ up' = FALSE
    /\ outages' = outages + 1
    /\ req' = [t \in Threads |->
          IF req[t].key \in Keys /\ ~ Authenticated(t)
          THEN [req[t] EXCEPT !.excuse = TRUE] ELSE req[t]]
    /\ UNCHANGED <<now, record, scopes, revokedAt, cache, depVars, admin, pc>>

StoreReturns ==
    /\ ~ up
    /\ up' = TRUE
    /\ UNCHANGED <<now, record, scopes, revokedAt, outages, cache, depVars,
                   admin, pc, req>>

RequestStep(t) ==
    \/ Lookup(t) \/ Verify(t) \/ Fill(t) \/ Resolve(t) \/ Acquire(t) \/ Build(t)
    \/ Construct(t) \/ Handle(t) \/ Refused(t)

AdminStep(p) == ResetDependencies(p) \/ ClearPrincipals(p)

Next ==
    \/ \E t \in Threads, p \in Procs, k \in Keys \union {ConfigKey, NoKey}, s \in RouteScopes :
          Arrive(t, p, k, s)
    \/ \E t \in Threads : RequestStep(t)
    \/ \E t \in Threads, k \in Keys, s \in KeyScopes : CreateKey(t, k, s)
    \/ \E t \in Threads, k \in Keys : RevokeKey(t, k)
    \/ \E k \in Keys : RevokeElsewhere(k)
    \/ \E t \in Threads : Reload(t)
    \/ \E p \in Procs : AdminStep(p)
    \/ Tick
    \/ StoreFails
    \/ StoreReturns

Spec == Init /\ [][Next]_vars

\* Threads of the pool and the event loops are scheduled; requests need not
\* come, and nothing is assumed of the store.
FairSpec ==
    /\ Spec
    /\ \A t \in Threads : WF_vars(RequestStep(t))
    /\ \A p \in Procs : WF_vars(AdminStep(p))
-----------------------------------------------------------------------------
(* Properties *)

\* "Revocation therefore takes effect within this window" (app/api/security.py):
\* no request that asks for its principal a TTL or more after the key was
\* revoked is taken for the key's owner, in any process, whatever was verified
\* before the revocation and stored in the cache after it.
RevocationBounded ==
    \A t \in Threads : Authenticated(t) /\ req[t].key \in Keys =>
        req[t].asked < revokedAt[req[t].key] + Ttl

\* "Failures are deliberately not cached ... a newly created key would be
\* rejected for 30 s": a key is refused only if at some moment of the request
\* it was not active, or the store could not be asked, or it lacks the scope.
ActiveKeyAccepted ==
    \A t \in Threads : pc[t] = "refused" => req[t].excuse

\* "A process-level singleton created on first use" (app/api/deps.py): between
\* two resets a process builds one engine, however many requests find none.
OneInstance ==
    \A i, j \in 1..Len(built) : built[i] = built[j] => i = j

\* Every request is answered, and a reload gets the singletons' lock that the
\* requests it races with take to build an engine.
RequestEnds ==
    /\ \A t \in Threads : pc[t] = "auth" ~> pc[t] = "idle"
    /\ \A p \in Procs : admin[p] # <<>> ~> admin[p] = <<>>
=============================================================================
