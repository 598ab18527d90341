--------------------------- MODULE ApiServiceProofs ---------------------------
(* Proofs about requests, keys and shared collaborators of the API. *)
EXTENDS ApiService, TLAPS

Entry == [key : Keys, scopes : SUBSET Scopes, expires : Nat]

Engine == [proc : Procs, epoch : Nat]

Request == [proc : Procs \union {Nobody}, key : Keys \union {ConfigKey, NoKey},
            needs : Scopes, asked : Nat, scopes : SUBSET Scopes, excuse : BOOLEAN]

\* Where a request is under way, and its process is known.
Active == {"auth", "verify", "fill", "resolve", "lock", "build", "construct", "handle"}

\* A request under way, the key it asks about included.
ReqOK ==
    /\ pc \in [Threads -> Active \union {"idle", "refused"}]
    /\ req \in [Threads -> Request]
    /\ \A t \in Threads : /\ pc[t] \in Active => req[t].proc \in Procs
                          /\ pc[t] \in {"verify", "fill"} => req[t].key \in Keys

TypeOK ==
    /\ now \in Nat
    /\ record \in [Keys -> {"absent", "active", "revoked"}]
    /\ scopes \in [Keys -> SUBSET Scopes]
    /\ revokedAt \in [Keys -> Nat]
    /\ up \in BOOLEAN
    /\ outages \in Nat
    /\ cache \in [Procs -> Seq(Entry)]
    /\ engine \in [Procs -> Nat]
    /\ epoch \in [Procs -> Nat]
    /\ built \in Seq(Engine)
    /\ lock \in [Procs -> Threads \union {Nobody}]
    /\ admin \in [Procs -> Seq({"reset", "clear"})]
    /\ ReqOK

-----------------------------------------------------------------------------
(* One engine: who builds has the lock and finds no engine, and an engine of *)
(* the present epoch is the one in use.                                      *)

LockInv == \A t \in Threads : pc[t] \in {"build", "construct"} => lock[req[t].proc] = t

ConstructInv == \A t \in Threads : pc[t] = "construct" => engine[req[t].proc] = 0

BuiltInv ==
    \A i \in 1..Len(built) :
        /\ built[i].epoch <= epoch[built[i].proc]
        /\ built[i].epoch = epoch[built[i].proc] => engine[built[i].proc] # 0

-----------------------------------------------------------------------------
(* Keys: when each was revoked, and what is known of one while it is asked for *)

TimeInv ==
    /\ now <= MaxTime
    /\ \A k \in Keys : \/ revokedAt[k] = MaxTime + 1
                       \/ revokedAt[k] <= now /\ record[k] = "revoked"

\* What is cached of a key was verified before it was revoked.
Sound(e) ==
    /\ e.expires <= now + Ttl
    /\ e.expires <= revokedAt[e.key] + Ttl
    /\ record[e.key] # "absent"
    /\ e.scopes = scopes[e.key]

CacheInv == \A p \in Procs : \A i \in 1..Len(cache[p]) : Sound(cache[p][i])

\* A request that asks for its principal, or has an answer.
CallerOK(t) ==
    /\ pc[t] \in {"verify", "fill", "resolve"} => req[t].asked <= now
    /\ pc[t] = "fill" => /\ req[t].asked <= revokedAt[req[t].key]
                         /\ record[req[t].key] # "absent"
                         /\ req[t].scopes = scopes[req[t].key]
    /\ pc[t] \in {"auth", "verify"} /\ req[t].key \in Keys
         => (up /\ record[req[t].key] = "active") \/ req[t].excuse
    /\ pc[t] = "auth" /\ req[t].key = NoKey => req[t].excuse
    /\ Authenticated(t) /\ req[t].key \in Keys
         => req[t].asked < revokedAt[req[t].key] + Ttl
    /\ pc[t] = "refused" => req[t].excuse

KeyInv == TimeInv /\ CacheInv /\ \A t \in Threads : CallerOK(t)

EngineInv == LockInv /\ ConstructInv /\ BuiltInv /\ OneInstance

-----------------------------------------------------------------------------
(* Types *)

\* A request's locals before and after their updates.
LEMMA NoRequestType == NoRequest \in Request
  BY DEF NoRequest, Request, Scopes

\* A request with another excuse, or other scopes.
LEMMA RequestExcept ==
  ASSUME NEW r \in Request, NEW x \in BOOLEAN, NEW h \in SUBSET Scopes
  PROVE  /\ [r EXCEPT !.excuse = x] \in Request
         /\ [r EXCEPT !.scopes = h] \in Request
         /\ [r EXCEPT !.scopes = h, !.excuse = x] \in Request
         /\ [r EXCEPT !.excuse = x].proc = r.proc
         /\ [r EXCEPT !.excuse = x].key = r.key
         /\ [r EXCEPT !.scopes = h].proc = r.proc
         /\ [r EXCEPT !.scopes = h].key = r.key
         /\ [r EXCEPT !.scopes = h, !.excuse = x].proc = r.proc
  BY DEF Request

\* Dropping an entry leaves entries that were there.
LEMMA ForgetEntries ==
  ASSUME NEW s \in Seq(Entry), NEW k
  PROVE  /\ Forget(s, k) \in Seq(Entry)
         /\ \A i \in 1..Len(Forget(s, k)) : \E j \in 1..Len(s) : Forget(s, k)[i] = s[j]
<1>1. CASE \E i \in 1..Len(s) : s[i].key = k
  <2> DEFINE n == CHOOSE i \in 1..Len(s) : s[i].key = k
  <2>1. n \in 1..Len(s)
    BY <1>1
  <2> HIDE DEF n
  <2> DEFINE a == SubSeq(s, 1, n - 1)
             b == SubSeq(s, n + 1, Len(s))
  <2>2. a \in Seq(Entry) /\ b \in Seq(Entry)
    BY <2>1
  <2>3. \A i \in 1..Len(a) : \E j \in 1..Len(s) : a[i] = s[j]
    BY <2>1
  <2>4. \A i \in 1..Len(b) : \E j \in 1..Len(s) : b[i] = s[j]
    BY <2>1
  <2>5. RemoveAt(s, n) = a \o b
    BY DEF RemoveAt
  <2> HIDE DEF a, b
  <2>6. /\ a \o b \in Seq(Entry)
        /\ \A i \in 1..Len(a \o b) : \E j \in 1..Len(s) : (a \o b)[i] = s[j]
    <3> DEFINE t == a \o b
    <3>1. /\ t \in Seq(Entry) /\ Len(a) \in Nat /\ Len(b) \in Nat
          /\ Len(t) = Len(a) + Len(b)
      BY <2>2
    <3>2. ASSUME NEW i \in 1..Len(t) PROVE \E j \in 1..Len(s) : t[i] = s[j]
      <4>1. CASE i <= Len(a)
        <5>1. i \in 1..Len(a) /\ t[i] = a[i]
          BY <2>2, <3>1, <4>1
        <5> QED
          BY <2>3, <5>1
      <4>2. CASE ~ (i <= Len(a))
        <5>1. i - Len(a) \in 1..Len(b) /\ t[i] = b[i - Len(a)]
          BY <2>2, <3>1, <4>2
        <5> QED
          BY <2>4, <5>1
      <4> QED
        BY <4>1, <4>2
    <3> QED
      BY <3>1, <3>2
  <2>7. Forget(s, k) = a \o b
    BY <1>1, <2>5 DEF Forget, n
  <2> QED
    BY <2>6, <2>7
<1>2. CASE ~ \E i \in 1..Len(s) : s[i].key = k
  BY <1>2 DEF Forget
<1> QED
  BY <1>1, <1>2

\* Remembering an entry adds that one and no other.
LEMMA RememberEntries ==
  ASSUME NEW s \in Seq(Entry), NEW e \in Entry
  PROVE  /\ Remember(s, e) \in Seq(Entry)
         /\ \A i \in 1..Len(Remember(s, e)) :
               Remember(s, e)[i] = e \/ \E j \in 1..Len(s) : Remember(s, e)[i] = s[j]
<1> DEFINE w == IF \E i \in 1..Len(s) : s[i].key = e.key
                THEN [i \in 1..Len(s) |-> IF s[i].key = e.key THEN e ELSE s[i]]
                ELSE Append(s, e)
           n == 1 + (IF Len(w) > CacheMax THEN Len(w) - CacheMax ELSE 0)
<1>1. /\ w \in Seq(Entry)
      /\ \A i \in 1..Len(w) : w[i] = e \/ \E j \in 1..Len(s) : w[i] = s[j]
  <2>1. CASE \E i \in 1..Len(s) : s[i].key = e.key
    <3> DEFINE f == [i \in 1..Len(s) |-> IF s[i].key = e.key THEN e ELSE s[i]]
    <3>1. f \in [1..Len(s) -> Entry] /\ Len(s) \in Nat
      OBVIOUS
    <3>2. f \in Seq(Entry) /\ Len(f) = Len(s)
      BY <3>1
    <3>3. w = f
      BY <2>1
    <3>4. \A i \in 1..Len(s) : f[i] = e \/ f[i] = s[i]
      OBVIOUS
    <3> HIDE DEF f, w
    <3> QED
      BY <3>2, <3>3, <3>4
  <2>2. CASE ~ \E i \in 1..Len(s) : s[i].key = e.key
    BY <2>2
  <2> QED
    BY <2>1, <2>2
<1>2. Remember(s, e) = SubSeq(w, n, Len(w))
  BY DEF Remember
<1>3. n \in Nat \ {0}
  <2>1. CacheMax \in Nat
    BY ApiAssumption
  <2>2. Len(w) \in Nat
    BY <1>1
  <2> HIDE DEF w
  <2> QED
    BY <2>1, <2>2
<1> HIDE DEF w, n
<1>4. /\ SubSeq(w, n, Len(w)) \in Seq(Entry)
      /\ \A i \in 1..Len(SubSeq(w, n, Len(w))) :
            \E j \in 1..Len(w) : SubSeq(w, n, Len(w))[i] = w[j]
  BY <1>1, <1>3
<1>5. \A i \in 1..Len(Remember(s, e)) : \E j \in 1..Len(w) : Remember(s, e)[i] = w[j]
  BY <1>2, <1>4
<1>6. Remember(s, e) \in Seq(Entry)
  BY <1>2, <1>4
<1>7. ASSUME NEW i \in 1..Len(Remember(s, e))
      PROVE  Remember(s, e)[i] = e \/ \E j \in 1..Len(s) : Remember(s, e)[i] = s[j]
  <2>1. PICK j \in 1..Len(w) : Remember(s, e)[i] = w[j]
    BY <1>5
  <2>2. w[j] = e \/ \E k \in 1..Len(s) : w[j] = s[k]
    BY <1>1
  <2> QED
    BY <2>1, <2>2
<1> QED
  BY <1>6, <1>7

\* What authorisation leaves of a request is a request.
LEMMA AuthoriseType ==
  ASSUME TypeOK, NEW t \in Threads, NEW r \in Request, r.proc \in Procs,
         NEW held, Authorise(t, r, held)
  PROVE  ReqOK'
<1>1. CASE Has(held, r.needs)
  <2> DEFINE q == [r EXCEPT !.scopes = {}, !.excuse = FALSE]
  <2>1. q \in Request /\ q.proc \in Procs
    BY RequestExcept
  <2>2. pc' = [pc EXCEPT ![t] = "resolve"] /\ req' = [req EXCEPT ![t] = q]
    BY <1>1 DEF Authorise
  <2> HIDE DEF q
  <2> QED
    BY <2>1, <2>2 DEF TypeOK, ReqOK, Active
<1>2. CASE ~ Has(held, r.needs)
  <2> DEFINE x == r.excuse \/ (r.key \in Keys /\ ~ Has(scopes[r.key], r.needs))
  <2>1. x \in BOOLEAN
    BY DEF Request
  <2>2. Refuse(t, x)
    BY <1>2 DEF Authorise
  <2> HIDE DEF x
  <2>3. [NoRequest EXCEPT !.excuse = x] \in Request
    BY <2>1, NoRequestType DEF Request, NoRequest
  <2> QED
    BY <2>2, <2>3 DEF Refuse, TypeOK, ReqOK, Active
<1> QED
  BY <1>1, <1>2

\* A refusal, too.
LEMMA RefuseType ==
  ASSUME TypeOK, NEW t \in Threads, NEW x \in BOOLEAN, Refuse(t, x)
  PROVE  ReqOK'
<1>1. [NoRequest EXCEPT !.excuse = x] \in Request
  BY NoRequestType DEF Request, NoRequest
<1> QED
  BY <1>1 DEF Refuse, TypeOK, ReqOK, Active

\* And an answer.
LEMMA ReplyType ==
  ASSUME TypeOK, NEW t \in Threads, Reply(t)
  PROVE  ReqOK'
  BY NoRequestType DEF Reply, TypeOK, ReqOK, Active

\* An excuse changes nothing else of a request.
LEMMA ExcusedType ==
  ASSUME TypeOK, NEW k
  PROVE  /\ Excused(k) \in [Threads -> Request]
         /\ \A u \in Threads : /\ Excused(k)[u].proc = req[u].proc
                               /\ Excused(k)[u].key = req[u].key
<1>1. \A u \in Threads : req[u] \in Request
  BY DEF TypeOK, ReqOK
<1>2. ASSUME NEW u \in Threads
      PROVE  /\ [req[u] EXCEPT !.excuse = TRUE] \in Request
             /\ [req[u] EXCEPT !.excuse = TRUE].proc = req[u].proc
             /\ [req[u] EXCEPT !.excuse = TRUE].key = req[u].key
  BY <1>1, RequestExcept
<1> QED
  BY <1>1, <1>2 DEF Excused

\* The steps of a request keep the types.
LEMMA RequestTypes ==
  ASSUME TypeOK, NEW t \in Threads, RequestStep(t)
  PROVE  TypeOK'
<1> USE DEF storeVars, depVars
<1>0. /\ req[t] \in Request
      /\ pc[t] \in Active => req[t].proc \in Procs
  BY DEF TypeOK, ReqOK
<1>1. CASE Lookup(t)
  <2> DEFINE p == req[t].proc
             k == req[t].key
             r == [req[t] EXCEPT !.asked = now]
  <2>1. p \in Procs /\ r \in Request /\ r.proc = p /\ req[t].excuse \in BOOLEAN
    BY <1>0, <1>1 DEF Lookup, Active, Request, TypeOK
  <2>2. CASE k = NoKey /\ Refuse(t, req[t].excuse) /\ UNCHANGED cache
    BY <1>1, <2>1, <2>2, RefuseType DEF Lookup, TypeOK
  <2>3. CASE k = ConfigKey /\ Authorise(t, r, {"admin"}) /\ UNCHANGED cache
    BY <1>1, <2>1, <2>3, AuthoriseType DEF Lookup, TypeOK
  <2>4. CASE (\E e \in Cached(p, k) : Authorise(t, r, e.scopes)) /\ UNCHANGED cache
    BY <1>1, <2>1, <2>4, AuthoriseType DEF Lookup, TypeOK
  <2>5. CASE /\ cache' = [cache EXCEPT ![p] = Forget(@, k)]
             /\ pc' = [pc EXCEPT ![t] = "verify"]
             /\ req' = [req EXCEPT ![t] = r]
             /\ k \in Keys
    <3>1. cache[p] \in Seq(Entry)
      BY <2>1 DEF TypeOK
    <3>2. Forget(cache[p], k) \in Seq(Entry)
      BY <3>1, ForgetEntries
    <3>3. cache' \in [Procs -> Seq(Entry)]
      BY <2>1, <2>5, <3>2 DEF TypeOK
    <3> QED
      BY <1>1, <2>1, <2>5, <3>3 DEF Lookup, TypeOK, ReqOK, Active, Request
  <2> QED
    BY <1>1, <2>2, <2>3, <2>4, <2>5 DEF Lookup
<1>2. CASE Verify(t)
  <2>0. req[t].key \in Keys /\ req[t].excuse \in BOOLEAN
    BY <1>0, <1>2 DEF Verify, TypeOK, ReqOK, Request
  <2>1. CASE verify_api_key(req[t].key)
    <3> DEFINE r == [req[t] EXCEPT !.scopes = scopes[req[t].key]]
    <3>1. r \in Request /\ r.proc = req[t].proc /\ r.key = req[t].key
      BY <1>0, <2>0, RequestExcept DEF TypeOK
    <3>2. pc' = [pc EXCEPT ![t] = "fill"] /\ req' = [req EXCEPT ![t] = r]
      BY <1>2, <2>1 DEF Verify
    <3> HIDE DEF r
    <3>3. req[t].proc \in Procs
      BY <1>0, <1>2 DEF Verify, Active
    <3>4. ReqOK'
      BY <2>0, <3>1, <3>2, <3>3 DEF TypeOK, ReqOK, Active
    <3> QED
      BY <1>2, <3>4 DEF Verify, TypeOK
  <2>2. CASE ~ verify_api_key(req[t].key)
    <3>1. Refuse(t, req[t].excuse)
      BY <1>2, <2>2 DEF Verify
    <3> QED
      BY <1>2, <2>0, <3>1, RefuseType DEF Verify, TypeOK
  <2> QED
    BY <2>1, <2>2
<1>3. CASE Fill(t)
  <2> DEFINE p == req[t].proc
             e == [key |-> req[t].key, scopes |-> req[t].scopes,
                   expires |-> req[t].asked + Ttl]
  <2>1. p \in Procs /\ e \in Entry
    BY <1>0, <1>3, ApiAssumption DEF Fill, TypeOK, ReqOK, Active, Request, Entry
  <2>2. Authorise(t, req[t], req[t].scopes) /\ cache' = [cache EXCEPT ![p] = Remember(@, e)]
    BY <1>3 DEF Fill
  <2>3. cache[p] \in Seq(Entry)
    BY <2>1 DEF TypeOK
  <2>4. Remember(cache[p], e) \in Seq(Entry)
    BY <2>1, <2>3, RememberEntries
  <2>5. cache' \in [Procs -> Seq(Entry)]
    BY <2>1, <2>2, <2>4 DEF TypeOK
  <2>6. ReqOK'
    BY <1>0, <2>1, <2>2, AuthoriseType
  <2> QED
    BY <1>3, <2>5, <2>6 DEF Fill, TypeOK
<1>4. CASE Resolve(t)
  <2>1. [NoRequest EXCEPT !.proc = req[t].proc, !.needs = req[t].needs] \in Request
    BY <1>0, NoRequestType DEF Request, NoRequest
  <2> QED
    BY <1>0, <1>4, <2>1 DEF Resolve, TypeOK, ReqOK, Active, NoRequest
<1>5. CASE Acquire(t)
  BY <1>0, <1>5 DEF Acquire, TypeOK, ReqOK, Active
<1>6. CASE Build(t)
  <2>1. ReqOK'
    BY <1>0, <1>6 DEF Build, TypeOK, ReqOK, Active
  <2>2. lock' \in [Procs -> Threads \union {Nobody}]
    BY <1>6 DEF Build, TypeOK
  <2>3. UNCHANGED <<now, storeVars, cache, engine, epoch, built, admin>>
    BY <1>6 DEF Build
  <2> QED
    BY <2>1, <2>2, <2>3 DEF TypeOK, storeVars
<1>7. CASE Construct(t)
  BY <1>0, <1>7 DEF Construct, TypeOK, ReqOK, Active, Engine
<1>8. CASE Handle(t)
  BY <1>8, ReplyType DEF Handle, TypeOK
<1>9. CASE Refused(t)
  BY <1>9, ReplyType DEF Refused, TypeOK
<1> QED
  BY <1>1, <1>2, <1>3, <1>4, <1>5, <1>6, <1>7, <1>8, <1>9 DEF RequestStep

\* So does every other step.
LEMMA TypeStep ==
  ASSUME TypeOK, [Next]_vars
  PROVE  TypeOK'
<1> USE DEF storeVars, depVars
<1>1. ASSUME NEW t \in Threads, NEW p \in Procs, NEW k \in Keys \union {ConfigKey, NoKey},
             NEW s \in RouteScopes, Arrive(t, p, k, s)
      PROVE  TypeOK'
  <2> DEFINE r == [NoRequest EXCEPT !.proc = p, !.key = k, !.needs = s, !.excuse = Excuse(k)]
  <2>1. Excuse(k) \in BOOLEAN /\ s \in Scopes
    BY ApiAssumption DEF Excuse
  <2>2. r \in Request /\ r.proc = p
    BY <2>1, NoRequestType DEF Request, NoRequest
  <2>3. pc' = [pc EXCEPT ![t] = "auth"] /\ req' = [req EXCEPT ![t] = r]
    BY <1>1 DEF Arrive
  <2> HIDE DEF r
  <2>4. ReqOK'
    BY <2>2, <2>3 DEF TypeOK, ReqOK, Active
  <2> QED
    BY <1>1, <2>4 DEF Arrive, TypeOK
<1>2. ASSUME NEW t \in Threads, RequestStep(t)
      PROVE  TypeOK'
  BY <1>2, RequestTypes
<1>3. ASSUME NEW t \in Threads, NEW k \in Keys, NEW s \in KeyScopes, CreateKey(t, k, s)
      PROVE  TypeOK'
  <2>1. ReqOK'
    BY <1>3, ReplyType DEF CreateKey
  <2> QED
    BY <1>3, <2>1, ApiAssumption DEF CreateKey, create_api_key, TypeOK
<1>4. ASSUME NEW t \in Threads, NEW k \in Keys, RevokeKey(t, k)
      PROVE  TypeOK'
  <2>1. req' \in [Threads -> Request] /\ \A u \in Threads : u # t => req'[u] = Excused(k)[u]
    BY <1>4, ExcusedType, NoRequestType DEF RevokeKey
  <2>2. ReqOK'
    <3>1. \A u \in Threads : Excused(k)[u].key = req[u].key /\ Excused(k)[u].proc = req[u].proc
      BY ExcusedType
    <3> QED
      BY <1>4, <2>1, <3>1 DEF RevokeKey, TypeOK, ReqOK, Active
  <2>3. req[t].proc \in Procs
    BY <1>4 DEF RevokeKey, IsAdminCall, TypeOK, ReqOK, Active
  <2> QED
    BY <1>4, <2>2, <2>3 DEF RevokeKey, revoke_api_key, TypeOK
<1>5. ASSUME NEW k \in Keys, RevokeElsewhere(k)
      PROVE  TypeOK'
  <2>1. ReqOK'
    BY <1>5, ExcusedType DEF RevokeElsewhere, TypeOK, ReqOK
  <2> QED
    BY <1>5, <2>1 DEF RevokeElsewhere, revoke_api_key, TypeOK
<1>6. ASSUME NEW t \in Threads, Reload(t)
      PROVE  TypeOK'
  <2>1. req[t].proc \in Procs
    BY <1>6 DEF Reload, IsAdminCall, TypeOK, ReqOK, Active
  <2> QED
    BY <1>6, <2>1, ReplyType DEF Reload, TypeOK
<1>7. ASSUME NEW p \in Procs, AdminStep(p)
      PROVE  TypeOK'
  <2>1. CASE ResetDependencies(p)
    BY <2>1 DEF ResetDependencies, TypeOK, ReqOK
  <2>2. CASE ClearPrincipals(p)
    BY <2>2 DEF ClearPrincipals, TypeOK, ReqOK
  <2> QED
    BY <1>7, <2>1, <2>2 DEF AdminStep
<1>8. CASE Tick
  BY <1>8 DEF Tick, TypeOK, ReqOK
<1>9. CASE StoreFails
  <2>1. ReqOK'
    <3>1. \A u \in Threads : req[u] \in Request
      BY DEF TypeOK, ReqOK
    <3>2. ASSUME NEW u \in Threads
          PROVE  /\ [req[u] EXCEPT !.excuse = TRUE] \in Request
                 /\ [req[u] EXCEPT !.excuse = TRUE].proc = req[u].proc
                 /\ [req[u] EXCEPT !.excuse = TRUE].key = req[u].key
      BY <3>1, RequestExcept
    <3> QED
      BY <1>9, <3>1, <3>2 DEF StoreFails, TypeOK, ReqOK
  <2>2. up' \in BOOLEAN
    BY <1>9 DEF StoreFails
  <2> QED
    BY <1>9, <2>1, <2>2 DEF StoreFails, TypeOK
<1>10. CASE StoreReturns
  BY <1>10 DEF StoreReturns, TypeOK, ReqOK
<1>11. CASE UNCHANGED vars
  BY <1>11 DEF vars, TypeOK, ReqOK
<1> QED
  BY <1>1, <1>2, <1>3, <1>4, <1>5, <1>6, <1>7, <1>8, <1>9, <1>10, <1>11 DEF Next

\* Every request under way has a process and a scope, and one that asks about
\* a key asks about one of the store's.
THEOREM TypeCorrect == Spec => []TypeOK
<1>1. Init => TypeOK
  BY NoRequestType, ApiAssumption DEF Init, TypeOK, ReqOK, Active, Nobody
<1>2. TypeOK /\ [Next]_vars => TypeOK'
  BY TypeStep
<1> QED
  BY <1>1, <1>2, PTL DEF Spec

-----------------------------------------------------------------------------
(* One engine between two resets *)

\* Steps that leave the collaborators alone bring nobody to where one is built.
LEMMA EngineFrame ==
  ASSUME EngineInv, UNCHANGED depVars,
         \A t \in Threads : pc'[t] \in {"build", "construct"} =>
             pc'[t] = pc[t] /\ req'[t].proc = req[t].proc
  PROVE  EngineInv'
<1>1. LockInv' /\ ConstructInv'
  BY DEF EngineInv, LockInv, ConstructInv, depVars
<1>2. BuiltInv' /\ OneInstance'
  BY DEF EngineInv, BuiltInv, OneInstance, depVars
<1> QED
  BY <1>1, <1>2 DEF EngineInv

\* No answer or authorisation does.
LEMMA AnswerFrame ==
  ASSUME TypeOK, NEW t \in Threads,
         \/ Reply(t)
         \/ \E x : Refuse(t, x)
         \/ \E r, held : Authorise(t, r, held)
  PROVE  \A u \in Threads : pc'[u] \in {"build", "construct"} =>
             pc'[u] = pc[u] /\ req'[u].proc = req[u].proc
  BY DEF TypeOK, ReqOK, Reply, Refuse, Authorise

\* The steps of a request keep the engine the only one: whoever builds it has
\* the lock and has seen, since it was taken, that there is none.
LEMMA RequestEngine ==
  ASSUME TypeOK, EngineInv, NEW t \in Threads, RequestStep(t)
  PROVE  EngineInv'
<1>1. CASE Lookup(t)
  <2>1. UNCHANGED depVars
    BY <1>1 DEF Lookup
  <2>2. \A u \in Threads : pc'[u] \in {"build", "construct"} =>
            pc'[u] = pc[u] /\ req'[u].proc = req[u].proc
    <3>1. CASE pc' = [pc EXCEPT ![t] = "verify"]
               /\ req' = [req EXCEPT ![t] = [req[t] EXCEPT !.asked = now]]
      BY <3>1 DEF TypeOK, ReqOK
    <3>2. CASE \/ \E x : Refuse(t, x)
               \/ \E r, held : Authorise(t, r, held)
      BY <3>2, AnswerFrame
    <3> QED
      BY <1>1, <3>1, <3>2 DEF Lookup
  <2> QED
    BY <2>1, <2>2, EngineFrame
<1>2. CASE Verify(t)
  <2>1. UNCHANGED depVars
    BY <1>2 DEF Verify
  <2>2. \A u \in Threads : pc'[u] \in {"build", "construct"} =>
            pc'[u] = pc[u] /\ req'[u].proc = req[u].proc
    <3>1. CASE verify_api_key(req[t].key)
      BY <1>2, <3>1 DEF Verify, TypeOK, ReqOK
    <3>2. CASE ~ verify_api_key(req[t].key)
      BY <1>2, <3>2, AnswerFrame DEF Verify
    <3> QED
      BY <3>1, <3>2
  <2> QED
    BY <2>1, <2>2, EngineFrame
<1>3. CASE Fill(t)
  <2>1. UNCHANGED depVars /\ \E r, held : Authorise(t, r, held)
    BY <1>3 DEF Fill
  <2> QED
    BY <2>1, AnswerFrame, EngineFrame
<1>4. CASE Resolve(t)
  <2>1. /\ UNCHANGED depVars
        /\ \A u \in Threads : pc'[u] \in {"build", "construct"} =>
               pc'[u] = pc[u] /\ req'[u].proc = req[u].proc
    BY <1>4 DEF Resolve, TypeOK, ReqOK
  <2> QED
    BY <2>1, EngineFrame
<1>5. CASE Acquire(t)
  <2>1. req[t].proc \in Procs /\ t # Nobody
    BY <1>5, ApiAssumption DEF Acquire, TypeOK, ReqOK, Active, Nobody
  <2>2. LockInv'
    BY <1>5, <2>1, ApiAssumption DEF Acquire, EngineInv, LockInv, TypeOK, ReqOK, Active, Nobody
  <2>3. ConstructInv'
    BY <1>5 DEF Acquire, EngineInv, ConstructInv, TypeOK, ReqOK
  <2>4. BuiltInv' /\ OneInstance'
    BY <1>5 DEF Acquire, EngineInv, BuiltInv, OneInstance
  <2> QED
    BY <2>2, <2>3, <2>4 DEF EngineInv
<1>6. CASE Build(t)
  <2>1. lock[req[t].proc] = t /\ req[t].proc \in Procs
    BY <1>6 DEF Build, EngineInv, LockInv, TypeOK, ReqOK, Active
  <2>2. LockInv'
    <3>1. CASE engine[req[t].proc] # 0
      <4>1. /\ lock' = [lock EXCEPT ![req[t].proc] = Nobody] /\ req' = req
            /\ pc' = [pc EXCEPT ![t] = "handle"]
        BY <1>6, <3>1 DEF Build
      <4>2. \A u \in Threads : pc'[u] \in {"build", "construct"} => u # t /\ pc'[u] = pc[u]
        BY <4>1 DEF TypeOK, ReqOK
      <4> QED
        BY <2>1, <4>1, <4>2 DEF EngineInv, LockInv, TypeOK
    <3>2. CASE engine[req[t].proc] = 0
      <4>1. lock' = lock /\ req' = req /\ pc' = [pc EXCEPT ![t] = "construct"]
        BY <1>6, <3>2 DEF Build
      <4> QED
        BY <2>1, <4>1 DEF EngineInv, LockInv, TypeOK, ReqOK
    <3> QED
      BY <3>1, <3>2
  <2>3. ConstructInv'
    BY <1>6 DEF Build, EngineInv, ConstructInv, TypeOK, ReqOK
  <2>4. BuiltInv' /\ OneInstance'
    BY <1>6 DEF Build, EngineInv, BuiltInv, OneInstance
  <2> QED
    BY <2>2, <2>3, <2>4 DEF EngineInv
<1>7. CASE Construct(t)
  <2> DEFINE p == req[t].proc
             e == [proc |-> p, epoch |-> epoch[p]]
             n == Len(built)
  <2>1. lock[p] = t /\ p \in Procs /\ engine[p] = 0 /\ n \in Nat
    BY <1>7 DEF Construct, EngineInv, LockInv, ConstructInv, TypeOK, ReqOK, Active
  <2>2. LockInv'
    BY <1>7, <2>1 DEF Construct, EngineInv, LockInv, TypeOK, ReqOK
  <2>3. ConstructInv'
    <3>1. ASSUME NEW u \in Threads, pc'[u] = "construct" PROVE req[u].proc # p
      BY <1>7, <2>1, <3>1 DEF Construct, EngineInv, LockInv, TypeOK, ReqOK
    <3> QED
      BY <1>7, <2>1, <3>1 DEF Construct, EngineInv, ConstructInv, TypeOK, ReqOK
  <2>4. /\ Len(built') = n + 1 /\ built'[n + 1] = e
        /\ \A i \in 1..n : built'[i] = built[i]
        /\ \A i \in 1..n : built[i] \in [proc : Procs, epoch : Nat]
    <3>1. built \in Seq(Engine) /\ built' = Append(built, e)
      BY <1>7 DEF Construct, TypeOK
    <3>2. \A i \in 1..n : built[i] \in Engine
      BY <3>1
    <3> HIDE DEF e
    <3>3. /\ Len(built') = n + 1 /\ built'[n + 1] = e
          /\ \A i \in 1..n : built'[i] = built[i]
      BY <2>1, <3>1
    <3> QED
      BY <3>2, <3>3 DEF Engine
  <2>5. engine' = [engine EXCEPT ![p] = n + 1] /\ epoch' = epoch
    BY <1>7 DEF Construct
  <2>6. BuiltInv'
    <3> SUFFICES ASSUME NEW i \in 1..(n + 1)
                 PROVE  /\ built'[i].epoch <= epoch[built'[i].proc]
                        /\ built'[i].epoch = epoch[built'[i].proc]
                              => engine'[built'[i].proc] # 0
      BY <2>4, <2>5 DEF BuiltInv
    <3>1. CASE i = n + 1
      BY <2>1, <2>4, <2>5, <3>1 DEF TypeOK
    <3>2. CASE i \in 1..n
      BY <2>1, <2>4, <2>5, <3>2 DEF EngineInv, BuiltInv, TypeOK
    <3> QED
      BY <2>1, <3>1, <3>2
  <2>7. ASSUME NEW i \in 1..n PROVE built[i] # e
    <3>1. built[i].epoch = epoch[built[i].proc] => engine[built[i].proc] # 0
      BY DEF EngineInv, BuiltInv
    <3> QED
      BY <2>1, <3>1
  <2>8. OneInstance'
    <3> SUFFICES ASSUME NEW i \in 1..(n + 1), NEW j \in 1..(n + 1), built'[i] = built'[j]
                 PROVE  i = j
      BY <2>4 DEF OneInstance
    <3>1. CASE i \in 1..n /\ j \in 1..n
      BY <2>4, <3>1 DEF EngineInv, OneInstance
    <3>2. CASE i = n + 1 \/ j = n + 1
      BY <2>1, <2>4, <2>7, <3>2
    <3> QED
      BY <2>1, <3>1, <3>2
  <2> QED
    BY <2>2, <2>3, <2>6, <2>8 DEF EngineInv
<1>8. CASE Handle(t)
  BY <1>8, AnswerFrame, EngineFrame DEF Handle
<1>9. CASE Refused(t)
  BY <1>9, AnswerFrame, EngineFrame DEF Refused
<1> QED
  BY <1>1, <1>2, <1>3, <1>4, <1>5, <1>6, <1>7, <1>8, <1>9 DEF RequestStep

\* A reset ends the epoch of every engine built so far, and cannot come while
\* one is being built; nothing else touches the collaborators.
LEMMA EngineStep ==
  ASSUME TypeOK, EngineInv, [Next]_vars
  PROVE  EngineInv'
<1>1. ASSUME NEW t \in Threads, NEW p \in Procs, NEW k \in Keys \union {ConfigKey, NoKey},
             NEW s \in RouteScopes, Arrive(t, p, k, s)
      PROVE  EngineInv'
  BY <1>1, EngineFrame DEF Arrive, TypeOK, ReqOK
<1>2. ASSUME NEW t \in Threads, RequestStep(t)
      PROVE  EngineInv'
  BY <1>2, RequestEngine
<1>3. ASSUME NEW t \in Threads, NEW k \in Keys, NEW s \in KeyScopes, CreateKey(t, k, s)
      PROVE  EngineInv'
  BY <1>3, AnswerFrame, EngineFrame DEF CreateKey
<1>4. ASSUME NEW t \in Threads, NEW k \in Keys, RevokeKey(t, k)
      PROVE  EngineInv'
  <2>1. \A u \in Threads : pc'[u] \in {"build", "construct"} =>
            pc'[u] = pc[u] /\ req'[u].proc = req[u].proc
    <3>1. \A u \in Threads : u # t => req'[u] = Excused(k)[u]
      BY <1>4, ExcusedType DEF RevokeKey
    <3> QED
      BY <1>4, <3>1, ExcusedType DEF RevokeKey, TypeOK, ReqOK
  <2> QED
    BY <1>4, <2>1, EngineFrame DEF RevokeKey
<1>5. ASSUME NEW k \in Keys, RevokeElsewhere(k)
      PROVE  EngineInv'
  BY <1>5, ExcusedType, EngineFrame DEF RevokeElsewhere
<1>6. ASSUME NEW t \in Threads, Reload(t)
      PROVE  EngineInv'
  BY <1>6, AnswerFrame, EngineFrame DEF Reload
<1>7. ASSUME NEW p \in Procs, AdminStep(p)
      PROVE  EngineInv'
  <2>1. CASE ResetDependencies(p)
    <3>1. LockInv'
      BY <2>1 DEF ResetDependencies, EngineInv, LockInv
    <3>2. ConstructInv'
      BY <2>1 DEF ResetDependencies, EngineInv, ConstructInv, TypeOK, ReqOK, Active
    <3>3. BuiltInv'
      <4> SUFFICES ASSUME NEW i \in 1..Len(built)
                   PROVE  /\ built[i].epoch <= epoch'[built[i].proc]
                          /\ built[i].epoch = epoch'[built[i].proc]
                                => engine'[built[i].proc] # 0
        BY <2>1 DEF ResetDependencies, BuiltInv
      <4>1. built[i] \in [proc : Procs, epoch : Nat]
        <5>1. built \in Seq(Engine)
          BY DEF TypeOK
        <5>2. built[i] \in Engine
          BY <5>1
        <5> QED
          BY <5>2 DEF Engine
      <4>2. /\ built[i].epoch <= epoch[built[i].proc]
            /\ built[i].epoch = epoch[built[i].proc] => engine[built[i].proc] # 0
        BY DEF EngineInv, BuiltInv
      <4>3. /\ epoch' = [epoch EXCEPT ![p] = epoch[p] + 1] /\ engine' = [engine EXCEPT ![p] = 0]
            /\ epoch \in [Procs -> Nat] /\ engine \in [Procs -> Nat]
        BY <2>1 DEF ResetDependencies, TypeOK
      <4> DEFINE q == built[i].proc
                 c == built[i].epoch
      <4>4. q \in Procs /\ c \in Nat /\ c <= epoch[q] /\ (c = epoch[q] => engine[q] # 0)
        BY <4>1, <4>2
      <4> HIDE DEF q, c
      <4>5. c <= epoch'[q] /\ (c = epoch'[q] => engine'[q] # 0)
        BY <4>3, <4>4
      <4> QED
        BY <4>5 DEF q, c
    <3>4. OneInstance'
      BY <2>1 DEF ResetDependencies, EngineInv, OneInstance
    <3> QED
      BY <3>1, <3>2, <3>3, <3>4 DEF EngineInv
  <2>2. CASE ClearPrincipals(p)
    BY <2>2, EngineFrame DEF ClearPrincipals
  <2> QED
    BY <1>7, <2>1, <2>2 DEF AdminStep
<1>8. CASE Tick
  BY <1>8, EngineFrame DEF Tick
<1>9. CASE StoreFails
  <2>1. \A u \in Threads : req'[u].proc = req[u].proc
    BY <1>9 DEF StoreFails, TypeOK, ReqOK, Request
  <2> QED
    BY <1>9, <2>1, EngineFrame DEF StoreFails
<1>10. CASE StoreReturns
  BY <1>10, EngineFrame DEF StoreReturns
<1>11. CASE UNCHANGED vars
  BY <1>11, EngineFrame DEF vars, depVars
<1> QED
  BY <1>1, <1>2, <1>3, <1>4, <1>5, <1>6, <1>7, <1>8, <1>9, <1>10, <1>11 DEF Next

\* _singleton's double check: however many requests find no engine, and
\* whatever a reload does meanwhile, a process builds one between two resets.
THEOREM OneInstanceHolds == Spec => []OneInstance
<1>1. Init => EngineInv
  BY DEF Init, EngineInv, LockInv, ConstructInv, BuiltInv, OneInstance
<1>2. TypeOK /\ EngineInv /\ [Next]_vars => EngineInv'
  BY EngineStep
<1>3. EngineInv => OneInstance
  BY DEF EngineInv
<1> QED
  BY <1>1, <1>2, <1>3, TypeCorrect, PTL DEF Spec

-----------------------------------------------------------------------------
(* Keys *)

\* An administrator has every scope.
LEMMA AdminHasAll ==
  ASSUME NEW c \in Scopes
  PROVE  Has({"admin"}, c)
  BY DEF Has, Implied

\* While the clock and the store stand still, only the requests that move matter.
LEMMA KeyFrame ==
  ASSUME TypeOK, KeyInv, UNCHANGED <<now, storeVars>>, CacheInv',
         \A u \in Threads : \/ pc'[u] = pc[u] /\ req'[u] = req[u]
                            \/ CallerOK(u)'
  PROVE  KeyInv'
<1>1. TimeInv'
  BY DEF KeyInv, TimeInv, storeVars
<1>2. ASSUME NEW u \in Threads PROVE CallerOK(u)'
  BY DEF KeyInv, CallerOK, Authenticated, storeVars
<1> QED
  BY <1>1, <1>2 DEF KeyInv

\* Cached principals stay sound while nothing is stored among them.
LEMMA CacheFrame ==
  ASSUME TypeOK, KeyInv, UNCHANGED <<now, storeVars, cache>>
  PROVE  CacheInv'
  BY DEF KeyInv, CacheInv, Sound, storeVars

\* What authorisation makes of a caller whose principal is known.
LEMMA AuthoriseCaller ==
  ASSUME TypeOK, NEW t \in Threads, NEW r \in Request, NEW held, Authorise(t, r, held),
         UNCHANGED <<now, storeVars>>, r.asked <= now,
         r.key \in Keys => held = scopes[r.key] /\ r.asked < revokedAt[r.key] + Ttl,
         r.key \notin Keys => Has(held, r.needs)
  PROVE  /\ CallerOK(t)'
         /\ \A u \in Threads \ {t} : pc'[u] = pc[u] /\ req'[u] = req[u]
<1>1. CASE Has(held, r.needs)
  <2> DEFINE q == [r EXCEPT !.scopes = {}, !.excuse = FALSE]
  <2>1. q.asked = r.asked /\ q.key = r.key
    BY DEF Request
  <2>2. pc' = [pc EXCEPT ![t] = "resolve"] /\ req' = [req EXCEPT ![t] = q]
    BY <1>1 DEF Authorise
  <2> HIDE DEF q
  <2> QED
    BY <2>1, <2>2 DEF CallerOK, Authenticated, TypeOK, ReqOK, storeVars
<1>2. CASE ~ Has(held, r.needs)
  <2> DEFINE x == r.excuse \/ (r.key \in Keys /\ ~ Has(scopes[r.key], r.needs))
             q == [NoRequest EXCEPT !.excuse = x]
  <2>1. x = TRUE
    BY <1>2 DEF Request
  <2>2. pc' = [pc EXCEPT ![t] = "refused"] /\ req' = [req EXCEPT ![t] = q]
    BY <1>2 DEF Authorise, Refuse
  <2>3. q.excuse = TRUE
    BY <2>1 DEF NoRequest
  <2> HIDE DEF q, x
  <2> QED
    BY <2>2, <2>3 DEF CallerOK, Authenticated, TypeOK, ReqOK
<1> QED
  BY <1>1, <1>2

\* And a refusal for a reason.
LEMMA RefuseCaller ==
  ASSUME TypeOK, NEW t \in Threads, Refuse(t, TRUE)
  PROVE  /\ CallerOK(t)'
         /\ \A u \in Threads \ {t} : pc'[u] = pc[u] /\ req'[u] = req[u]
  BY DEF Refuse, CallerOK, Authenticated, TypeOK, ReqOK, NoRequest

\* An answered request is nobody's.
LEMMA ReplyCaller ==
  ASSUME TypeOK, NEW t \in Threads, Reply(t)
  PROVE  /\ CallerOK(t)'
         /\ \A u \in Threads \ {t} : pc'[u] = pc[u] /\ req'[u] = req[u]
  BY DEF Reply, CallerOK, Authenticated, TypeOK, ReqOK

\* The steps of a request keep what is known of keys: a principal comes from
\* the cache before its deadline, or from a row that was active when asked for.
LEMMA RequestKeys ==
  ASSUME TypeOK, KeyInv, NEW t \in Threads, RequestStep(t)
  PROVE  KeyInv'
<1>0. /\ req[t] \in Request
      /\ pc[t] \in Active => req[t].proc \in Procs
      /\ pc[t] \in {"verify", "fill"} => req[t].key \in Keys
      /\ CallerOK(t) /\ CacheInv /\ TimeInv
  BY DEF TypeOK, ReqOK, KeyInv
<1>1. CASE Lookup(t)
  <2> DEFINE p == req[t].proc
             k == req[t].key
             r == [req[t] EXCEPT !.asked = now]
  <2>1. /\ p \in Procs /\ pc[t] = "auth"
        /\ r \in Request /\ r.asked = now /\ r.key = k /\ r.needs = req[t].needs
        /\ r.proc = p /\ r.excuse = req[t].excuse
        /\ UNCHANGED <<now, storeVars>>
    BY <1>0, <1>1 DEF Lookup, Active, Request, TypeOK
  <2>2. CASE k = NoKey /\ Refuse(t, req[t].excuse) /\ UNCHANGED cache
    <3>1. req[t].excuse = TRUE
      BY <1>0, <2>1, <2>2 DEF CallerOK, Request
    <3> QED
      BY <2>1, <2>2, <3>1, RefuseCaller, KeyFrame, CacheFrame
  <2>3. CASE k = ConfigKey /\ Authorise(t, r, {"admin"}) /\ UNCHANGED cache
    <3>1. r.key \notin Keys /\ Has({"admin"}, r.needs) /\ r.asked <= now
      <4>1. req[t].needs \in Scopes
        BY <1>0 DEF Request
      <4>2. r.asked <= now
        BY <2>1 DEF TypeOK
      <4>3. ConfigKey \notin Keys
        BY ApiAssumption
      <4> HIDE DEF r
      <4> QED
        BY <2>1, <2>3, <4>1, <4>2, <4>3, AdminHasAll
    <3> HIDE DEF r
    <3> QED
      BY <2>1, <2>3, <3>1, AuthoriseCaller, KeyFrame, CacheFrame
  <2>4. CASE (\E e \in Cached(p, k) : Authorise(t, r, e.scopes)) /\ UNCHANGED cache
    <3>1. PICK e \in Cached(p, k) : Authorise(t, r, e.scopes)
      BY <2>4
    <3>2. PICK i \in 1..Len(cache[p]) : cache[p][i] = e
      <4>1. cache[p] \in Seq(Entry)
        BY <2>1 DEF TypeOK
      <4>2. e \in ToSet(cache[p])
        BY <3>1 DEF Cached
      <4>3. DOMAIN cache[p] = 1..Len(cache[p])
        BY <4>1
      <4> QED
        BY <4>2, <4>3 DEF ToSet
    <3>3. e.key = k /\ e.expires > now
      BY <3>1 DEF Cached
    <3>4. Sound(e) /\ e \in Entry
      <4>1. cache[p] \in Seq(Entry)
        BY <2>1 DEF TypeOK
      <4> QED
        BY <1>0, <2>1, <3>2, <4>1 DEF CacheInv
    <3>5. k \in Keys /\ e.scopes = scopes[k] /\ now < revokedAt[k] + Ttl
      BY <3>3, <3>4, ApiAssumption DEF Sound, Entry, TypeOK
    <3>6. r.asked <= now
      BY <2>1 DEF TypeOK
    <3> HIDE DEF r
    <3> QED
      BY <2>1, <2>4, <3>1, <3>5, <3>6, AuthoriseCaller, KeyFrame, CacheFrame
  <2>5. CASE /\ k \in Keys
             /\ cache' = [cache EXCEPT ![p] = Forget(@, k)]
             /\ pc' = [pc EXCEPT ![t] = "verify"]
             /\ req' = [req EXCEPT ![t] = r]
    <3>1. cache[p] \in Seq(Entry)
      BY <2>1 DEF TypeOK
    <3>2. CacheInv'
      <4> SUFFICES ASSUME NEW q \in Procs, NEW i \in 1..Len(cache'[q])
                   PROVE  Sound(cache'[q][i])
        BY <2>1 DEF CacheInv, Sound, storeVars
      <4>1. \E j \in 1..Len(cache[q]) : cache'[q][i] = cache[q][j]
        <5>1. cache'[p] = Forget(cache[p], k) /\ (q # p => cache'[q] = cache[q])
          BY <2>1, <2>5 DEF TypeOK
        <5>2. CASE q = p
          BY <3>1, <5>1, <5>2, ForgetEntries
        <5>3. CASE q # p
          BY <5>1, <5>3
        <5> QED
          BY <5>2, <5>3
      <4> QED
        BY <1>0, <4>1 DEF CacheInv
    <3> HIDE DEF r
    <3>3. CallerOK(t)'
      BY <1>0, <2>1, <2>5 DEF CallerOK, Authenticated, TypeOK, ReqOK, storeVars
    <3>4. \A u \in Threads \ {t} : pc'[u] = pc[u] /\ req'[u] = req[u]
      BY <2>5 DEF TypeOK, ReqOK
    <3> QED
      BY <2>1, <3>2, <3>3, <3>4, KeyFrame
  <2> QED
    BY <1>1, <2>2, <2>3, <2>4, <2>5 DEF Lookup
<1>2. CASE Verify(t)
  <2>1. UNCHANGED <<now, storeVars, cache>> /\ req[t].key \in Keys /\ pc[t] = "verify"
    BY <1>0, <1>2 DEF Verify
  <2>2. CASE verify_api_key(req[t].key)
    <3> DEFINE r == [req[t] EXCEPT !.scopes = scopes[req[t].key]]
    <3>1. r.asked = req[t].asked /\ r.key = req[t].key /\ r.scopes = scopes[req[t].key]
      BY <1>0 DEF Request
    <3>2. pc' = [pc EXCEPT ![t] = "fill"] /\ req' = [req EXCEPT ![t] = r]
      BY <1>2, <2>2 DEF Verify
    <3>3. req[t].asked <= revokedAt[req[t].key]
      <4>1. req[t].asked <= now /\ now <= MaxTime
        BY <1>0, <2>1 DEF CallerOK, TimeInv
      <4>2. revokedAt[req[t].key] = MaxTime + 1
        BY <1>0, <2>1, <2>2 DEF verify_api_key, TimeInv
      <4>3. req[t].asked \in Nat /\ now \in Nat /\ MaxTime \in Nat
        BY <1>0, ApiAssumption DEF TypeOK, Request
      <4> QED
        BY <4>1, <4>2, <4>3
    <3> HIDE DEF r
    <3>4. CallerOK(t)'
      BY <1>0, <2>1, <2>2, <3>1, <3>2, <3>3
      DEF CallerOK, Authenticated, verify_api_key, TypeOK, ReqOK, storeVars
    <3>5. \A u \in Threads \ {t} : pc'[u] = pc[u] /\ req'[u] = req[u]
      BY <3>2 DEF TypeOK, ReqOK
    <3> QED
      BY <2>1, <3>4, <3>5, KeyFrame, CacheFrame
  <2>3. CASE ~ verify_api_key(req[t].key)
    <3>1. req[t].excuse = TRUE
      BY <1>0, <2>1, <2>3 DEF CallerOK, Request, verify_api_key
    <3>2. Refuse(t, TRUE)
      BY <1>2, <2>3, <3>1 DEF Verify
    <3> QED
      BY <2>1, <3>2, RefuseCaller, KeyFrame, CacheFrame
  <2> QED
    BY <2>2, <2>3
<1>3. CASE Fill(t)
  <2> DEFINE p == req[t].proc
             e == [key |-> req[t].key, scopes |-> req[t].scopes,
                   expires |-> req[t].asked + Ttl]
  <2>1. /\ p \in Procs /\ e \in Entry /\ pc[t] = "fill" /\ req[t].key \in Keys
        /\ cache' = [cache EXCEPT ![p] = Remember(@, e)]
        /\ UNCHANGED <<now, storeVars>>
    BY <1>0, <1>3, ApiAssumption DEF Fill, TypeOK, ReqOK, Active, Request, Entry
  <2>2. Sound(e)
    <3>1. /\ req[t].asked <= now /\ req[t].asked <= revokedAt[req[t].key]
          /\ record[req[t].key] # "absent" /\ req[t].scopes = scopes[req[t].key]
      BY <1>0, <2>1 DEF CallerOK
    <3>2. now \in Nat /\ revokedAt[req[t].key] \in Nat
      BY <2>1 DEF TypeOK
    <3>3. req[t].asked \in Nat /\ Ttl \in Nat
      BY <1>0, ApiAssumption DEF Request
    <3>4. e.expires <= now + Ttl /\ e.expires <= revokedAt[req[t].key] + Ttl
      BY <3>1, <3>2, <3>3
    <3> QED
      BY <3>1, <3>4 DEF Sound
  <2>3. CacheInv'
    <3> HIDE DEF e, p
    <3>0. \A x : Sound(x)' <=> Sound(x)
      BY <2>1 DEF Sound, storeVars
    <3> SUFFICES ASSUME NEW q \in Procs, NEW i \in 1..Len(cache'[q])
                 PROVE  Sound(cache'[q][i])
      BY <3>0 DEF CacheInv
    <3>1. cache[p] \in Seq(Entry)
      BY <2>1 DEF TypeOK
    <3>2. cache'[q][i] = e \/ \E j \in 1..Len(cache[q]) : cache'[q][i] = cache[q][j]
      <4>1. cache'[p] = Remember(cache[p], e) /\ (q # p => cache'[q] = cache[q])
        BY <2>1 DEF TypeOK
      <4>2. CASE q = p
        <5>1. e \in Entry /\ i \in 1..Len(Remember(cache[p], e))
          BY <2>1, <4>1, <4>2
        <5>2. \/ Remember(cache[p], e)[i] = e
              \/ \E j \in 1..Len(cache[p]) : Remember(cache[p], e)[i] = cache[p][j]
          BY <3>1, <5>1, RememberEntries
        <5> QED
          BY <4>1, <4>2, <5>2
      <4>3. CASE q # p
        BY <4>1, <4>3
      <4> QED
        BY <4>2, <4>3
    <3> QED
      BY <1>0, <2>2, <3>2 DEF CacheInv
  <2>4. Authorise(t, req[t], req[t].scopes)
    BY <1>3 DEF Fill
  <2>5. /\ req[t].asked <= now
        /\ req[t].scopes = scopes[req[t].key]
        /\ req[t].asked < revokedAt[req[t].key] + Ttl
    <3>1. /\ req[t].asked <= now /\ req[t].asked <= revokedAt[req[t].key]
          /\ req[t].scopes = scopes[req[t].key]
      BY <1>0, <2>1 DEF CallerOK
    <3>2. req[t].asked \in Nat /\ revokedAt[req[t].key] \in Nat /\ Ttl \in Nat \ {0}
      <4>1. req[t].asked \in Nat
        BY <1>0 DEF Request
      <4>2. revokedAt[req[t].key] \in Nat
        BY <2>1 DEF TypeOK
      <4> QED
        BY <4>1, <4>2, ApiAssumption
    <3> QED
      BY <3>1, <3>2
  <2> HIDE DEF e, p
  <2>6. CallerOK(t)' /\ \A u \in Threads \ {t} : pc'[u] = pc[u] /\ req'[u] = req[u]
    BY <1>0, <2>1, <2>4, <2>5, AuthoriseCaller
  <2> QED
    BY <2>1, <2>3, <2>6, KeyFrame
<1>4. CASE Resolve(t)
  <2>1. /\ UNCHANGED <<now, storeVars, cache>>
        /\ pc'[t] \in {"handle", "lock"}
        /\ \A u \in Threads \ {t} : pc'[u] = pc[u] /\ req'[u] = req[u]
    BY <1>4 DEF Resolve, TypeOK, ReqOK
  <2>2. CallerOK(t)'
    BY <2>1 DEF CallerOK, Authenticated
  <2> QED
    BY <2>1, <2>2, KeyFrame, CacheFrame
<1>5. CASE Acquire(t) \/ Build(t) \/ Construct(t)
  <2>1. /\ UNCHANGED <<now, storeVars, cache, req>>
        /\ pc'[t] \in {"build", "construct", "handle"}
        /\ \A u \in Threads \ {t} : pc'[u] = pc[u]
    BY <1>5 DEF Acquire, Build, Construct, TypeOK, ReqOK
  <2>2. CallerOK(t)'
    BY <2>1 DEF CallerOK, Authenticated
  <2> QED
    BY <2>1, <2>2, KeyFrame, CacheFrame
<1>6. CASE Handle(t) \/ Refused(t)
  BY <1>6, ReplyCaller, KeyFrame, CacheFrame DEF Handle, Refused
<1> QED
  BY <1>1, <1>2, <1>3, <1>4, <1>5, <1>6 DEF RequestStep

\* A revocation cuts the deadlines of what was verified before it, wherever it is.
LEMMA RevokeKeys ==
  ASSUME TypeOK, KeyInv, NEW k \in Keys, revoke_api_key(k), UNCHANGED <<now, scopes, up, cache>>,
         \A u \in Threads : \/ CallerOK(u)'
                            \/ pc'[u] = pc[u] /\ req'[u] = Excused(k)[u]
  PROVE  KeyInv'
<1>0. /\ now \in Nat /\ Ttl \in Nat \ {0} /\ MaxTime \in Nat
      /\ revokedAt \in [Keys -> Nat] /\ record \in [Keys -> {"absent", "active", "revoked"}]
      /\ record' = [record EXCEPT ![k] = "revoked"] /\ record[k] # "absent"
      /\ revokedAt' = [revokedAt EXCEPT ![k] = IF revokedAt[k] > now THEN now ELSE revokedAt[k]]
      /\ now' = now /\ scopes' = scopes /\ cache' = cache
  BY ApiAssumption DEF TypeOK, revoke_api_key
<1>1. TimeInv'
  BY <1>0 DEF KeyInv, TimeInv
<1>2. CacheInv'
  <2> SUFFICES ASSUME NEW p \in Procs, NEW i \in 1..Len(cache[p])
               PROVE  Sound(cache[p][i])'
    BY <1>0 DEF CacheInv
  <2> DEFINE e == cache[p][i]
  <2>1. Sound(e)
    BY DEF KeyInv, CacheInv
  <2>2. e \in Entry
    <3>1. cache[p] \in Seq(Entry)
      BY DEF TypeOK
    <3> QED
      BY <3>1
  <2>3. e.key \in Keys /\ e.expires \in Nat
    BY <2>2 DEF Entry
  <2>4. e' = e
    BY <1>0
  <2> HIDE DEF e
  <2>5. Sound(e)'
    BY <1>0, <2>1, <2>3, <2>4 DEF Sound
  <2> QED
    BY <2>5 DEF e
<1>3. ASSUME NEW u \in Threads PROVE CallerOK(u)'
  <2>1. CASE pc'[u] = pc[u] /\ req'[u] = Excused(k)[u]
    <3>1. req[u] \in Request /\ CallerOK(u)
      BY DEF TypeOK, ReqOK, KeyInv
    <3>2. /\ req'[u].asked = req[u].asked /\ req'[u].key = req[u].key
          /\ req'[u].scopes = req[u].scopes
      BY <2>1, <3>1 DEF Excused, Request
    <3>3. /\ k = req[u].key /\ ~ Authenticated(u) => req'[u].excuse = TRUE
          /\ req[u].excuse => req'[u].excuse
      BY <2>1, <3>1 DEF Excused, Request
    <3>4. req[u].asked \in Nat
      BY <3>1 DEF Request
    <3>5. pc[u] \in {"verify", "fill"} => req[u].key \in Keys
      BY DEF TypeOK, ReqOK
    <3>8. pc[u] \in {"verify", "fill", "resolve"} => req'[u].asked <= now
      BY <3>1, <3>2 DEF CallerOK
    <3>9. pc[u] = "fill" => /\ req'[u].asked <= revokedAt'[req'[u].key]
                            /\ record'[req'[u].key] # "absent"
                            /\ req'[u].scopes = scopes[req'[u].key]
      BY <1>0, <3>1, <3>2, <3>4, <3>5 DEF CallerOK
    <3>10. Authenticated(u) /\ req'[u].key \in Keys
               => req'[u].asked < revokedAt'[req'[u].key] + Ttl
      BY <1>0, <3>1, <3>2, <3>4, <3>5 DEF CallerOK, Authenticated
    <3>7. /\ pc[u] \in {"auth", "verify"} /\ req'[u].key \in Keys
               => (up /\ record'[req'[u].key] = "active") \/ req'[u].excuse
          /\ pc[u] = "auth" /\ req'[u].key = NoKey => req'[u].excuse
          /\ pc[u] = "refused" => req'[u].excuse
      BY <1>0, <3>1, <3>2, <3>3 DEF CallerOK, Authenticated
    <3> QED
      BY <1>0, <2>1, <3>7, <3>8, <3>9, <3>10 DEF CallerOK, Authenticated
  <2> QED
    BY <2>1
<1> QED
  BY <1>1, <1>2, <1>3 DEF KeyInv

\* So does every other step.
LEMMA KeyStep ==
  ASSUME TypeOK, KeyInv, [Next]_vars
  PROVE  KeyInv'
<1>1. ASSUME NEW t \in Threads, NEW p \in Procs, NEW k \in Keys \union {ConfigKey, NoKey},
             NEW s \in RouteScopes, Arrive(t, p, k, s)
      PROVE  KeyInv'
  <2> DEFINE r == [NoRequest EXCEPT !.proc = p, !.key = k, !.needs = s, !.excuse = Excuse(k)]
  <2>1. r.key = k /\ r.excuse = Excuse(k)
    BY DEF NoRequest
  <2>2. pc' = [pc EXCEPT ![t] = "auth"] /\ req' = [req EXCEPT ![t] = r]
    BY <1>1 DEF Arrive
  <2>3. UNCHANGED <<now, storeVars, cache>>
    BY <1>1 DEF Arrive
  <2> HIDE DEF r
  <2>4. CallerOK(t)'
    BY <2>1, <2>2, <2>3 DEF CallerOK, Authenticated, Excuse, TypeOK, ReqOK, storeVars
  <2>5. \A u \in Threads \ {t} : pc'[u] = pc[u] /\ req'[u] = req[u]
    BY <2>2 DEF TypeOK, ReqOK
  <2> QED
    BY <2>3, <2>4, <2>5, KeyFrame, CacheFrame
<1>2. ASSUME NEW t \in Threads, RequestStep(t)
      PROVE  KeyInv'
  BY <1>2, RequestKeys
<1>3. ASSUME NEW t \in Threads, NEW k \in Keys, NEW s \in KeyScopes, CreateKey(t, k, s)
      PROVE  KeyInv'
  <2>1. /\ record' = [record EXCEPT ![k] = "active"] /\ scopes' = [scopes EXCEPT ![k] = s]
        /\ record[k] = "absent" /\ UNCHANGED <<now, revokedAt, up, cache>>
        /\ record \in [Keys -> {"absent", "active", "revoked"}]
        /\ scopes \in [Keys -> SUBSET Scopes]
    BY <1>3 DEF CreateKey, create_api_key, TypeOK
  <2>2. TimeInv'
    BY <2>1 DEF KeyInv, TimeInv
  <2>3. CacheInv'
    <3> SUFFICES ASSUME NEW p \in Procs, NEW i \in 1..Len(cache[p])
                 PROVE  Sound(cache[p][i])'
      BY <2>1 DEF CacheInv
    <3> DEFINE e == cache[p][i]
    <3>1. Sound(e)
      BY DEF KeyInv, CacheInv
    <3>2. e \in Entry
      <4>1. cache[p] \in Seq(Entry)
        BY DEF TypeOK
      <4> QED
        BY <4>1
    <3>3. e.key \in Keys
      BY <3>2 DEF Entry
    <3>4. e' = e
      BY <2>1
    <3> HIDE DEF e
    <3>5. Sound(e)'
      BY <2>1, <3>1, <3>3, <3>4 DEF Sound
    <3> QED
      BY <3>5 DEF e
  <2>4. ASSUME NEW u \in Threads PROVE CallerOK(u)'
    <3>1. CASE u = t
      BY <1>3, <3>1, ReplyCaller DEF CreateKey
    <3>2. CASE u # t
      <4>1. pc'[u] = pc[u] /\ req'[u] = req[u] /\ CallerOK(u)
        BY <1>3, <3>2, ReplyCaller DEF CreateKey, KeyInv
      <4>2. pc[u] \in {"verify", "fill"} => req[u].key \in Keys
        BY DEF TypeOK, ReqOK
      <4> QED
        BY <2>1, <4>1, <4>2 DEF CallerOK, Authenticated
    <3> QED
      BY <3>1, <3>2
  <2> QED
    BY <2>2, <2>3, <2>4 DEF KeyInv
<1>4. ASSUME NEW t \in Threads, NEW k \in Keys, RevokeKey(t, k)
      PROVE  KeyInv'
  <2>1. /\ pc' = [pc EXCEPT ![t] = "idle"] /\ req' = [Excused(k) EXCEPT ![t] = NoRequest]
        /\ revoke_api_key(k) /\ UNCHANGED <<now, scopes, up, cache>>
    BY <1>4 DEF RevokeKey
  <2>2. CallerOK(t)'
    BY <2>1 DEF CallerOK, Authenticated, TypeOK, ReqOK
  <2>3. \A u \in Threads \ {t} : pc'[u] = pc[u] /\ req'[u] = Excused(k)[u]
    BY <2>1, ExcusedType DEF TypeOK, ReqOK
  <2> QED
    BY <2>1, <2>2, <2>3, RevokeKeys
<1>5. ASSUME NEW k \in Keys, RevokeElsewhere(k)
      PROVE  KeyInv'
  <2>1. /\ pc' = pc /\ req' = Excused(k)
        /\ revoke_api_key(k) /\ UNCHANGED <<now, scopes, up, cache>>
    BY <1>5 DEF RevokeElsewhere
  <2> QED
    BY <2>1, RevokeKeys
<1>6. ASSUME NEW t \in Threads, Reload(t)
      PROVE  KeyInv'
  BY <1>6, ReplyCaller, KeyFrame, CacheFrame DEF Reload
<1>7. ASSUME NEW p \in Procs, AdminStep(p)
      PROVE  KeyInv'
  <2>1. CASE ResetDependencies(p)
    BY <2>1, KeyFrame, CacheFrame DEF ResetDependencies
  <2>2. CASE ClearPrincipals(p)
    <3>1. UNCHANGED <<now, storeVars, pc, req>> /\ cache' = [cache EXCEPT ![p] = <<>>]
      BY <2>2 DEF ClearPrincipals
    <3>2. CacheInv'
      <4> SUFFICES ASSUME NEW q \in Procs, NEW i \in 1..Len(cache'[q])
                   PROVE  Sound(cache'[q][i])
        BY <3>1 DEF CacheInv, Sound, storeVars
      <4>1. q # p /\ cache'[q] = cache[q]
        BY <3>1 DEF TypeOK
      <4> QED
        BY <4>1 DEF KeyInv, CacheInv
    <3> QED
      BY <3>1, <3>2, KeyFrame
  <2> QED
    BY <1>7, <2>1, <2>2 DEF AdminStep
<1>8. CASE Tick
  <2>1. /\ now' = now + 1 /\ now < MaxTime /\ now \in Nat /\ MaxTime \in Nat /\ Ttl \in Nat
        /\ UNCHANGED <<storeVars, cache, pc, req>>
    BY <1>8, ApiAssumption DEF Tick, TypeOK
  <2>2. TimeInv'
    BY <2>1 DEF KeyInv, TimeInv, TypeOK, storeVars
  <2>3. CacheInv'
    <3> SUFFICES ASSUME NEW p \in Procs, NEW i \in 1..Len(cache[p])
                 PROVE  Sound(cache[p][i])'
      BY <2>1 DEF CacheInv
    <3> DEFINE e == cache[p][i]
    <3>1. Sound(e)
      BY DEF KeyInv, CacheInv
    <3>2. e \in Entry
      <4>1. cache[p] \in Seq(Entry)
        BY DEF TypeOK
      <4> QED
        BY <4>1
    <3>3. e.expires \in Nat
      BY <3>2 DEF Entry
    <3>4. e' = e
      BY <2>1
    <3> HIDE DEF e
    <3>5. Sound(e)'
      BY <2>1, <3>1, <3>3, <3>4 DEF Sound, storeVars
    <3> QED
      BY <3>5 DEF e
  <2>4. ASSUME NEW u \in Threads PROVE CallerOK(u)'
    <3>1. req[u].asked \in Nat /\ CallerOK(u)
      BY DEF TypeOK, ReqOK, Request, KeyInv
    <3> QED
      BY <2>1, <3>1 DEF CallerOK, Authenticated, storeVars
  <2> QED
    BY <2>2, <2>3, <2>4 DEF KeyInv
<1>9. CASE StoreFails
  <2>1. UNCHANGED <<now, record, scopes, revokedAt, cache, pc>>
    BY <1>9 DEF StoreFails
  <2>2. TimeInv' /\ CacheInv'
    BY <2>1 DEF KeyInv, TimeInv, CacheInv, Sound
  <2>3. ASSUME NEW u \in Threads PROVE CallerOK(u)'
    <3>1. req[u] \in Request /\ CallerOK(u)
      BY DEF TypeOK, ReqOK, KeyInv
    <3>2. /\ req'[u].asked = req[u].asked /\ req'[u].key = req[u].key
          /\ req'[u].scopes = req[u].scopes
      BY <1>9, <3>1 DEF StoreFails, Request
    <3>3. /\ req[u].key \in Keys /\ ~ Authenticated(u) => req'[u].excuse = TRUE
          /\ req[u].excuse => req'[u].excuse
      BY <1>9, <3>1 DEF StoreFails, Request
    <3> QED
      BY <2>1, <3>1, <3>2, <3>3 DEF CallerOK, Authenticated
  <2> QED
    BY <2>2, <2>3 DEF KeyInv
<1>10. CASE StoreReturns
  <2>1. UNCHANGED <<now, record, scopes, revokedAt, cache, pc, req>> /\ ~ up
    BY <1>10 DEF StoreReturns
  <2>2. TimeInv' /\ CacheInv'
    BY <2>1 DEF KeyInv, TimeInv, CacheInv, Sound
  <2>3. \A u \in Threads : CallerOK(u)'
    BY <2>1 DEF KeyInv, CallerOK, Authenticated
  <2> QED
    BY <2>2, <2>3 DEF KeyInv
<1>11. CASE UNCHANGED vars
  BY <1>11, KeyFrame, CacheFrame DEF vars, storeVars
<1> QED
  BY <1>1, <1>2, <1>3, <1>4, <1>5, <1>6, <1>7, <1>8, <1>9, <1>10, <1>11 DEF Next

\* What is known of keys and callers always holds.
LEMMA KeysSound == Spec => []KeyInv
<1>1. Init => KeyInv
  BY ApiAssumption DEF Init, KeyInv, TimeInv, CacheInv, CallerOK, Authenticated
<1>2. TypeOK /\ KeyInv /\ [Next]_vars => KeyInv'
  BY KeyStep
<1> QED
  BY <1>1, <1>2, TypeCorrect, PTL DEF Spec

\* The window of PRINCIPAL_CACHE_TTL_SECONDS: no request that asks for its
\* principal a TTL or more after the revocation is taken for the key's owner.
THEOREM RevocationBoundedHolds == Spec => []RevocationBounded
<1>1. KeyInv => RevocationBounded
  BY DEF KeyInv, CallerOK, RevocationBounded
<1> QED
  BY <1>1, KeysSound, PTL

\* Failures are not cached: a refusal has a reason in the store, in the scopes
\* of the key, or in what was presented.
THEOREM ActiveKeyAcceptedHolds == Spec => []ActiveKeyAccepted
<1>1. KeyInv => ActiveKeyAccepted
  BY DEF KeyInv, CallerOK, ActiveKeyAccepted
<1> QED
  BY <1>1, KeysSound, PTL
=============================================================================
