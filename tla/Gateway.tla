--------------------------------- MODULE Gateway ---------------------------------
(***************************************************************************)
(* The way of a request through a worker process: rate limiter             *)
(* (api/middleware/rate_limiter.py), tenant context                        *)
(* (api/middleware/tenant_context.py), then an endpoint that changes what  *)
(* the requests of one tenant share: the API key, the settings             *)
(* (api/v1/endpoints/tenants.py) or a coupon (api/v1/endpoints/coupons.py).*)
(*                                                                         *)
(* Every request is a process.  A step ends where the coroutine awaits     *)
(* Redis or PostgreSQL.  The cache of tenants is memory of a worker; key,  *)
(* settings and coupon are rows, read and written under READ COMMITTED.    *)
(* Keys are numbered in the order in which they are issued.                *)
(***************************************************************************)
EXTENDS Integers, FiniteSets

CONSTANTS
  Requests,
  Workers,
  Fields,       \* of the settings
  Limit,        \* default_limit of a window
  Window,       \* its length in seconds
  Traffics,     \* bounds, of which a behaviour has one: the names of its operations, the
                \* number of its requests, its seconds, its restarts and failures
  MaxTime,      \* bound on the clock of every behaviour
  MaxKeys,      \* bound on the keys that are issued
  None

Names == {"rotate", "update", "redeem", "chat", "admin", "analytics"}

ASSUME GatewayAssumption ==
  /\ Traffics \subseteq [names: SUBSET Names, requests: Nat, seconds: 0 .. MaxTime, troubles: Nat]
  /\ IsFiniteSet(Requests) /\ None \notin Requests \union Workers
  /\ Limit \in Nat \ {0} /\ Window \in Nat \ {0}
  /\ MaxTime \in Nat /\ MaxKeys \in Nat \ {0}

VARIABLES
  traffic,   \* the bounds of this behaviour
  now,
  window,    \* sorted set ratelimit:<address>; a member is the second itself
  expires,   \* the time at which its key expires
  cache,     \* the keys in _tenant_cache of each worker
  key,       \* the valid key of the tenant
  settings,  \* the request that last wrote each field
  used,      \* the coupon is marked as used
  pc,
  at,        \* what each request knows
  rotator,   \* history: the worker that replaced each key
  late,      \* history: lookups of a worker that a rotation there overtook
  troubles

rows == <<key, settings, used>>
history == <<rotator, late>>
limiter == <<window, expires>>
vars == <<traffic, now, limiter, cache, rows, pc, at, history, troubles>>

--------------------------------------------------------------------------------
Keys == 1 .. MaxKeys
\* "admin" and "analytics" stand for the endpoints below these paths.
Operations == [name: Names \ {"update"}] \union [name: {"update"}, field: Fields]

\* time: the second that the limiter read on arrival; when: the time at which
\* Redis executed its pipeline; verdict: uncounted if the limiter had no reply;
\* before: the requests that had changed something when this one arrived; copy:
\* the settings as read.
Request ==
  [worker: Workers, key: Keys, op: Operations, time: 0 .. MaxTime, when: 0 .. MaxTime,
   verdict: {"uncounted", "admitted", "refused"},
   before: SUBSET Requests, copy: [Fields -> Requests \union {None}]]

NoSettings == [f \in Fields |-> None]

\* unacknowledged: answered with an error after a commit that took place.
Ended ==
  {"limited", "unauthorized", "failed", "unacknowledged", "rotated", "updated", "valid",
   "invalid", "served"}
\* An update or a validation that took place, answered or not.
Committed == {"updated", "valid", "unacknowledged"}
Points ==
  {"idle", "count", "retract", "cached", "lookup", "fill", "endpoint", "clear", "merge", "mark"}
    \union Ended

Init ==
  /\ traffic \in Traffics
  /\ now = 0 /\ window = {} /\ expires = 0 /\ troubles = 0
  /\ cache = [w \in Workers |-> {}]
  /\ key = 1 /\ settings = NoSettings /\ used = FALSE
  /\ pc = [r \in Requests |-> "idle"] /\ at = [r \in Requests |-> None]
  /\ rotator = [k \in Keys |-> None] /\ late = {}

Goto(r, point) == pc' = [pc EXCEPT ![r] = point]
Fine == UNCHANGED troubles
Trouble == troubles < traffic.troubles /\ troubles' = troubles + 1

--------------------------------------------------------------------------------
(* RateLimiterMiddleware                                                   *)

\* _get_limit_for_request.  The tenant, and with it a limit of its own, is not
\* known yet.
LimitOf(op) ==
  CASE op.name = "admin"     -> Limit * 2
    [] op.name = "analytics" -> Limit \div 2
    [] OTHER                 -> Limit

\* A request arrives with a key that was issued, and the limiter reads the clock.
Arrive(r) ==
  /\ pc[r] = "idle"
  /\ Cardinality({q \in Requests : pc[q] # "idle"}) < traffic.requests
  /\ \E w \in Workers, k \in 1 .. key, op \in {o \in Operations : o.name \in traffic.names} :
       at' = [at EXCEPT ![r] =
                [worker |-> w, key |-> k, op |-> op, time |-> now, when |-> now,
                 verdict |-> "uncounted", before |-> {q \in Requests : pc[q] \in Committed},
                 copy |-> NoSettings]]
  /\ Goto(r, "count")
  /\ UNCHANGED <<now, limiter, cache, rows, history, troubles>>

\* What ZREMRANGEBYSCORE leaves for ZCARD: by the second that r read, which may
\* be past when Redis executes the pipeline.
InWindow(r) == {s \in window : s > at[r].time - Window}

\* request_count >= limit; and off by one.
OverLimitByOne(r) == Cardinality(InWindow(r)) > LimitOf(at[r].op)
OverLimit(r) == Cardinality(InWindow(r)) >= LimitOf(at[r].op)

\* The pipeline ends with ZADD and EXPIRE.
Pipeline(r) ==
  /\ window' = InWindow(r) \union {at[r].time}
  /\ expires' = now + Window

Count(r) ==
  /\ pc[r] = "count"
  /\ Pipeline(r)
  /\ at' = [at EXCEPT ![r] =
              [@ EXCEPT !.when = now,
                        !.verdict = IF OverLimit(r) THEN "refused" ELSE "admitted"]]
  /\ Goto(r, IF OverLimit(r) THEN "retract" ELSE "cached")
  /\ UNCHANGED <<now, cache, rows, history, troubles>>

\* Redis fails, or its reply is lost: the request passes.
FailOpen(r) ==
  /\ pc[r] = "count"
  /\ Trouble
  /\ Pipeline(r) \/ UNCHANGED limiter
  /\ Goto(r, "cached")
  /\ UNCHANGED <<now, cache, rows, at, history>>

\* ZREM of the second, whoever else it stands for; not in the try block.
Remove(r) == window' = window \ {at[r].time}

Retract(r) ==
  /\ pc[r] = "retract"
  /\ \/ Remove(r) /\ Goto(r, "limited") /\ Fine
     \/ (Remove(r) \/ UNCHANGED window) /\ Goto(r, "failed") /\ Trouble
  /\ UNCHANGED <<now, expires, cache, rows, at, history>>

\* The key expires.
Expire ==
  /\ window # {} /\ now >= expires
  /\ window' = {}
  /\ UNCHANGED <<now, expires, cache, rows, pc, at, history, troubles>>

--------------------------------------------------------------------------------
(* TenantContextMiddleware                                                 *)

Cached(r) == at[r].key \in cache[at[r].worker]

CheckCache(r) ==
  /\ pc[r] = "cached"
  /\ Goto(r, IF Cached(r) THEN "endpoint" ELSE "lookup")
  /\ UNCHANGED <<now, limiter, cache, rows, at, history, troubles>>

\* get_by_api_key_hash
Lookup(r) ==
  /\ pc[r] = "lookup"
  /\ Goto(r, IF at[r].key = key THEN "fill" ELSE "unauthorized")
  /\ UNCHANGED <<now, limiter, cache, rows, at, history, troubles>>

FillCache(r) ==
  /\ pc[r] = "fill"
  /\ cache' = [cache EXCEPT ![at[r].worker] = @ \union {at[r].key}]
  /\ Goto(r, "endpoint")
  /\ UNCHANGED <<now, limiter, rows, at, history, troubles>>

--------------------------------------------------------------------------------
(* Endpoints                                                               *)

Reaches(r, name) == pc[r] = "endpoint" /\ at[r].op.name = name

\* A commit that fails answers with an error, whether it took place or not.
Aborted(r) == Goto(r, "failed") /\ UNCHANGED rows /\ Trouble

\* rotate_api_key up to the commit.
ReplaceKey ==
  /\ key < MaxKeys
  /\ key' = key + 1
  /\ UNCHANGED <<settings, used>>

RotateKey(r) ==
  /\ Reaches(r, "rotate")
  /\ \/ /\ ReplaceKey
        /\ rotator' = [rotator EXCEPT ![key] = at[r].worker]
        /\ Goto(r, "clear") /\ Fine
     \/ ReplaceKey /\ UNCHANGED rotator /\ Goto(r, "unacknowledged") /\ Trouble
     \/ Aborted(r) /\ UNCHANGED rotator
  /\ UNCHANGED <<now, limiter, cache, at, late>>

\* clear_cache(tenant_id) of this worker; and if only the key of the request
\* itself was forgotten.
WithoutOwnKey(r) == cache[at[r].worker] \ {at[r].key}
Cleared(r) == {}

ClearCache(r) ==
  /\ pc[r] = "clear"
  /\ cache' = [cache EXCEPT ![at[r].worker] = Cleared(r)]
  /\ late' = late \union
       {<<at[r].worker, at[q].key>> :
          q \in {p \in Requests : pc[p] = "fill" /\ at[p].worker = at[r].worker}}
  /\ Goto(r, "rotated")
  /\ UNCHANGED <<now, limiter, rows, at, rotator, troubles>>

\* update_tenant_settings: get_by_id, then the merge and the commit.
ReadSettings(r) ==
  /\ Reaches(r, "update")
  /\ at' = [at EXCEPT ![r].copy = settings]
  /\ Goto(r, "merge")
  /\ UNCHANGED <<now, limiter, cache, rows, history, troubles>>

\* merged.update(settings_update); and without the copy, and with the copy as value.
Replaced(r) == [NoSettings EXCEPT ![at[r].op.field] = r]
Nested(r) == [at[r].copy EXCEPT ![at[r].op.field] = at[r].copy]
Merged(r) == [at[r].copy EXCEPT ![at[r].op.field] = r]

WriteSettings(r) ==
  /\ pc[r] = "merge"
  /\ \/ /\ settings' = Merged(r) /\ UNCHANGED <<key, used>>
        /\ \/ Goto(r, "updated") /\ Fine
           \/ Goto(r, "unacknowledged") /\ Trouble
     \/ Aborted(r)
  /\ UNCHANGED <<now, limiter, cache, at, history>>

\* validate_coupon: get_by_code and is_valid, then mark_used and the commit.
IgnoreUsed == TRUE
IsValid == ~used

GetCoupon(r) ==
  /\ Reaches(r, "redeem")
  /\ Goto(r, IF IsValid THEN "mark" ELSE "invalid")
  /\ UNCHANGED <<now, limiter, cache, rows, at, history, troubles>>

MarkUsed(r) ==
  /\ pc[r] = "mark"
  /\ \/ /\ used' = TRUE /\ UNCHANGED <<key, settings>>
        /\ \/ Goto(r, "valid") /\ Fine
           \/ Goto(r, "unacknowledged") /\ Trouble
     \/ Aborted(r)
  /\ UNCHANGED <<now, limiter, cache, at, history>>

\* An endpoint below "/admin/" or "/analytics/": nothing here changes.
Serve(r) ==
  /\ \E name \in {"chat", "admin", "analytics"} : Reaches(r, name)
  /\ Goto(r, "served")
  /\ UNCHANGED <<now, limiter, cache, rows, at, history, troubles>>

--------------------------------------------------------------------------------
\* A worker dies and starts again with an empty cache.
Restart(w) ==
  /\ Trouble
  /\ cache' = [cache EXCEPT ![w] = {}]
  /\ pc' = [r \in Requests |->
              IF pc[r] \notin Ended \union {"idle"} /\ at[r].worker = w THEN "failed" ELSE pc[r]]
  /\ UNCHANGED <<now, limiter, rows, at, history>>

\* A key does not outlive the second in which it expires.
Tick ==
  /\ now < traffic.seconds
  /\ window = {} \/ now < expires
  /\ now' = now + 1
  /\ UNCHANGED <<limiter, cache, rows, pc, at, history, troubles>>

Handle(r) ==
  \/ Count(r) \/ FailOpen(r) \/ Retract(r) \/ CheckCache(r) \/ Lookup(r) \/ FillCache(r)
  \/ RotateKey(r) \/ ClearCache(r) \/ ReadSettings(r) \/ WriteSettings(r)
  \/ GetCoupon(r) \/ MarkUsed(r) \/ Serve(r)

Next ==
  /\ \/ \E r \in Requests : Arrive(r) \/ Handle(r)
     \/ \E w \in Workers : Restart(w)
     \/ Expire
     \/ Tick
  /\ UNCHANGED traffic

Spec == Init /\ [][Next]_vars

--------------------------------------------------------------------------------
(* Properties                                                              *)

TypeOK ==
  /\ traffic \in Traffics /\ now \in 0 .. MaxTime
  /\ window \subseteq 0 .. MaxTime /\ expires \in 0 .. MaxTime + Window
  /\ cache \in [Workers -> SUBSET Keys]
  /\ key \in Keys /\ settings \in [Fields -> Requests \union {None}] /\ used \in BOOLEAN
  /\ pc \in [Requests -> Points] /\ at \in [Requests -> Request \union {None}]
  /\ \A r \in Requests : pc[r] # "idle" => at[r] \in Request
  /\ rotator \in [Keys -> Workers \union {None}]
  /\ late \subseteq Workers \X Keys
  /\ troubles \in 0 .. traffic.troubles

\* The requests that the limiter counted and let through within Window seconds
\* from start, on paths with a limit of at most limit.
AdmittedWithin(start, limit) ==
  {r \in Requests : /\ pc[r] # "idle" /\ at[r].verdict = "admitted"
                    /\ at[r].time >= start /\ at[r].when < start + Window
                    /\ LimitOf(at[r].op) <= limit}

\* A refused request takes the member of its second out of the window.
RefusedSeconds ==
  {at[q].time : q \in {p \in Requests : pc[p] # "idle" /\ at[p].verdict = "refused"}}

\* "Sliding window": the requests that are read and counted within a window and
\* let through are of at most limit different seconds, those seconds apart in
\* which a request was refused; however late the pipelines are executed, and in
\* whatever order.  Requests of one second are one member, so the limit is one of
\* seconds.
AtMostLimit ==
  \A start \in 0 .. MaxTime, limit \in {LimitOf(op) : op \in Operations} :
    LET seconds == {at[r].time : r \in AdmittedWithin(start, limit)}
    IN Cardinality(seconds \ RefusedSeconds) <= limit

\* The comment in rotate_api_key: once the worker that replaced a key has cleared
\* its cache, the key does not come back into it, except by a lookup that read
\* the tenant before and was not through yet.
RevokedIsForgotten ==
  \A w \in Workers : \A k \in cache[w] :
    \/ k = key
    \/ rotator[k] # w
    \/ \E r \in Requests : pc[r] = "clear" /\ at[r].worker = w
    \/ <<w, k>> \in late

\* A coupon is accepted once, on whatever worker: of two validations that both
\* succeed neither ended before the other began.
RedeemedOnce ==
  \A q, r \in Requests : pc[q] = "valid" /\ pc[r] = "valid" => q \notin at[r].before

\* Update q was stored, not before r arrived, and it did not arrive after r was
\* answered, or writes the same field.
Overwrites(q, r) ==
  /\ pc[q] \in {"updated", "unacknowledged"} /\ at[q].op.name = "update"
  /\ q \notin at[r].before
  /\ r \in at[q].before => at[q].op.field = at[r].op.field

\* An update that was answered stays, unless a later update writes the same field
\* or an update that was under way at the same time writes any field; the other
\* one may have been answered with an error, if only its acknowledgement was lost.
UpdateKept ==
  \A r \in Requests : pc[r] = "updated" =>
    \/ settings[at[r].op.field] = r
    \/ \E q \in Requests \ {r} : Overwrites(q, r)
================================================================================
