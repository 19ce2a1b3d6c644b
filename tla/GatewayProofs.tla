----------------------------- MODULE GatewayProofs -----------------------------
(***************************************************************************)
(* Theorems about Gateway, for every finite set of requests, every set of  *)
(* workers and fields, every limit and window and every bound, however the *)
(* requests interleave and whatever restarts.                              *)
(***************************************************************************)
EXTENDS Gateway, FiniteSetTheorems, TLAPS

LEMMA PointsDiffer ==
  /\ Ended \subseteq Points /\ Committed \subseteq Ended
  /\ "idle" \notin Ended /\ "mark" \notin Ended /\ "merge" \notin Ended
BY DEF Points, Ended, Committed

--------------------------------------------------------------------------------
(* Type correctness.                                                       *)

LEMMA TypeInit == Init => TypeOK
<1> SUFFICES ASSUME Init PROVE TypeOK
  OBVIOUS
<1>1. /\ traffic \in Traffics /\ now \in 0 .. MaxTime /\ key \in Keys
      /\ window \subseteq 0 .. MaxTime /\ expires \in 0 .. MaxTime + Window
      /\ troubles \in 0 .. traffic.troubles
  BY GatewayAssumption DEF Init, Keys
<1>2. /\ cache \in [Workers -> SUBSET Keys] /\ rotator \in [Keys -> Workers \union {None}]
      /\ settings \in [Fields -> Requests \union {None}] /\ used \in BOOLEAN
      /\ late \subseteq Workers \X Keys
  BY DEF Init, NoSettings
<1>3. /\ pc \in [Requests -> Points] /\ at \in [Requests -> Request \union {None}]
      /\ \A r \in Requests : pc[r] = "idle"
  BY DEF Init, Points
<1> QED BY <1>1, <1>2, <1>3 DEF TypeOK

\* What a request knows when it has arrived.
LEMMA ArrivalType ==
  ASSUME NEW w \in Workers, NEW k \in Keys, NEW op \in Operations, NEW t \in 0 .. MaxTime,
         NEW before \in SUBSET Requests
  PROVE  [worker |-> w, key |-> k, op |-> op, time |-> t, when |-> t, verdict |-> "uncounted",
          before |-> before, copy |-> NoSettings] \in Request
BY DEF Request, NoSettings

LEMMA ArriveType ==
  ASSUME TypeOK, NEW r \in Requests, Arrive(r), UNCHANGED traffic
  PROVE  TypeOK'
<1>1. PICK w \in Workers, k \in 1 .. key, op \in {o \in Operations : o.name \in traffic.names} :
        at' = [at EXCEPT ![r] =
                 [worker |-> w, key |-> k, op |-> op, time |-> now, when |-> now,
                  verdict |-> "uncounted", before |-> {q \in Requests : pc[q] \in Committed},
                  copy |-> NoSettings]]
  BY DEF Arrive
<1> DEFINE before == {q \in Requests : pc[q] \in Committed}
           known == [worker |-> w, key |-> k, op |-> op, time |-> now, when |-> now,
                     verdict |-> "uncounted", before |-> before, copy |-> NoSettings]
<1>2. known \in Request
  <2>1. k \in Keys
    BY GatewayAssumption DEF TypeOK, Keys
  <2> QED BY <2>1, ArrivalType DEF TypeOK
<1>3. /\ at' = [at EXCEPT ![r] = known] /\ at' \in [Requests -> Request \union {None}]
      /\ at'[r] \in Request /\ \A q \in Requests \ {r} : at'[q] = at[q]
  <2>1. at' = [at EXCEPT ![r] = known]
    BY <1>1
  <2> HIDE DEF known
  <2> QED BY <1>2, <2>1 DEF TypeOK
<1>4. pc' \in [Requests -> Points] /\ \A q \in Requests \ {r} : pc'[q] = pc[q]
  BY DEF Arrive, Goto, Points, TypeOK
<1>5. UNCHANGED <<traffic, now, limiter, cache, rows, history, troubles>>
  BY DEF Arrive
<1> QED BY <1>3, <1>4, <1>5 DEF TypeOK, limiter, rows, history

\* What a pipeline leaves in Redis.
LEMMA PipelineType ==
  ASSUME TypeOK, NEW r \in Requests, pc[r] # "idle", Pipeline(r)
  PROVE  window' \subseteq 0 .. MaxTime /\ expires' \in 0 .. MaxTime + Window
<1>1. at[r].time \in 0 .. MaxTime
  BY DEF TypeOK, Request
<1>2. window' \subseteq 0 .. MaxTime
  BY <1>1 DEF TypeOK, Pipeline, InWindow
<1>3. expires' \in 0 .. MaxTime + Window
  <2>1. now \in 0 .. MaxTime /\ Window \in Nat /\ MaxTime \in Nat /\ expires' = now + Window
    BY GatewayAssumption DEF TypeOK, Pipeline
  <2> QED BY <2>1
<1> QED BY <1>2, <1>3

\* What the reply to its pipeline adds to what a request knows.
LEMMA Counted ==
  ASSUME TypeOK, NEW r \in Requests, Count(r)
  PROVE  /\ at' \in [Requests -> Request \union {None}] /\ at'[r] \in Request
         /\ \A q \in Requests \ {r} : at'[q] = at[q]
         /\ at'[r] = [at[r] EXCEPT !.when = now,
                                  !.verdict = IF OverLimit(r) THEN "refused" ELSE "admitted"]
<1> DEFINE verdict == IF OverLimit(r) THEN "refused" ELSE "admitted"
           known == [at[r] EXCEPT !.when = now, !.verdict = verdict]
<1>1. at[r] \in Request /\ verdict \in {"refused", "admitted"}
  BY DEF Count, TypeOK
<1>2. at' = [at EXCEPT ![r] = known]
  BY DEF Count
<1>3. known \in Request
  <2> HIDE DEF verdict
  <2> QED BY <1>1 DEF Request, TypeOK
<1> HIDE DEF known
<1>4. at'[r] = known
  BY <1>2 DEF TypeOK
<1>5. /\ at' \in [Requests -> Request \union {None}] /\ at'[r] \in Request
      /\ \A q \in Requests \ {r} : at'[q] = at[q]
  BY <1>2, <1>3 DEF TypeOK
<1> QED BY <1>4, <1>5 DEF known

LEMMA TroublesType ==
  ASSUME TypeOK, UNCHANGED traffic, Fine \/ Trouble
  PROVE  troubles' \in 0 .. traffic'.troubles
<1>1. traffic.troubles \in Nat
  BY GatewayAssumption DEF TypeOK
<1> QED BY <1>1 DEF TypeOK, Fine, Trouble

LEMMA LimiterType ==
  ASSUME TypeOK, NEW r \in Requests, Count(r) \/ FailOpen(r) \/ Retract(r), UNCHANGED traffic
  PROVE  TypeOK'
<1>1. pc' \in [Requests -> Points] /\ \A q \in Requests : pc'[q] # "idle" => pc[q] # "idle"
  BY DEF TypeOK, Count, FailOpen, Retract, Goto, Points, Ended
<1>2. window' \subseteq 0 .. MaxTime /\ expires' \in 0 .. MaxTime + Window
  <2>1. CASE Count(r)
    BY <2>1, PipelineType DEF Count
  <2>2. CASE FailOpen(r)
    BY <2>2, PipelineType DEF FailOpen, limiter, TypeOK
  <2>3. CASE Retract(r)
    BY <2>3 DEF Retract, Remove, TypeOK
  <2> QED BY <2>1, <2>2, <2>3
<1>3. troubles' \in 0 .. traffic'.troubles
  BY TroublesType DEF Count, FailOpen, Retract, Fine
<1>4. /\ at' \in [Requests -> Request \union {None}]
      /\ \A q \in Requests : pc[q] # "idle" => at'[q] \in Request
  <2>1. CASE Count(r)
    BY <2>1, Counted DEF TypeOK
  <2>2. CASE ~Count(r)
    BY <2>2 DEF FailOpen, Retract, TypeOK
  <2> QED BY <2>1, <2>2
<1>5. UNCHANGED <<traffic, now, cache, rows, history>>
  BY DEF Count, FailOpen, Retract
<1> QED BY <1>1, <1>2, <1>3, <1>4, <1>5 DEF TypeOK, rows, history

LEMMA TenantType ==
  ASSUME TypeOK, NEW r \in Requests, CheckCache(r) \/ Lookup(r) \/ FillCache(r), UNCHANGED traffic
  PROVE  TypeOK'
<1>1. at[r] \in Request
  BY DEF TypeOK, CheckCache, Lookup, FillCache
<1>2. CASE CheckCache(r)
  BY <1>2 DEF TypeOK, CheckCache, Goto, limiter, rows, history, Points, Ended
<1>3. CASE Lookup(r)
  BY <1>3 DEF TypeOK, Lookup, Goto, limiter, rows, history, Points, Ended
<1>4. CASE FillCache(r)
  <2>1. at[r].worker \in Workers /\ at[r].key \in Keys
    BY <1>1 DEF Request
  <2>2. cache' \in [Workers -> SUBSET Keys]
    BY <1>4, <2>1 DEF TypeOK, FillCache
  <2> QED BY <1>4, <2>2 DEF TypeOK, FillCache, Goto, limiter, rows, history, Points, Ended
<1> QED BY <1>2, <1>3, <1>4

LEMMA KeyType ==
  ASSUME TypeOK, NEW r \in Requests, RotateKey(r) \/ ClearCache(r), UNCHANGED traffic
  PROVE  TypeOK'
<1>1. at[r] \in Request
  BY DEF TypeOK, RotateKey, ClearCache, Reaches
<1>2. at[r].worker \in Workers
  BY <1>1 DEF Request
<1>3. CASE RotateKey(r)
  <2>1. key' \in Keys /\ UNCHANGED <<settings, used>>
    BY <1>3, GatewayAssumption DEF TypeOK, RotateKey, ReplaceKey, Aborted, rows, Keys
  <2>2. rotator' \in [Keys -> Workers \union {None}]
    BY <1>2, <1>3 DEF TypeOK, RotateKey
  <2>3. pc' \in [Requests -> Points] /\ \A q \in Requests : pc'[q] # "idle" => pc[q] # "idle"
    BY <1>3 DEF TypeOK, RotateKey, Aborted, Reaches, Goto, Points, Ended
  <2>4. troubles' \in 0 .. traffic'.troubles
    BY <1>3, TroublesType DEF RotateKey, Aborted
  <2> QED BY <1>3, <2>1, <2>2, <2>3, <2>4 DEF TypeOK, RotateKey, limiter
<1>4. CASE ClearCache(r)
  <2>1. cache' \in [Workers -> SUBSET Keys]
    BY <1>2, <1>4 DEF TypeOK, ClearCache, Cleared
  <2>2. late' \subseteq Workers \X Keys
    <3>1. \A q \in Requests : pc[q] = "fill" => at[q].key \in Keys
      BY DEF TypeOK, Request
    <3> QED BY <1>2, <1>4, <3>1 DEF TypeOK, ClearCache
  <2>3. pc' \in [Requests -> Points] /\ \A q \in Requests : pc'[q] # "idle" => pc[q] # "idle"
    BY <1>4 DEF TypeOK, ClearCache, Goto, Points, Ended
  <2> QED BY <1>4, <2>1, <2>2, <2>3 DEF TypeOK, ClearCache, limiter, rows
<1> QED BY <1>3, <1>4

LEMMA SettingsType ==
  ASSUME TypeOK, NEW r \in Requests, ReadSettings(r) \/ WriteSettings(r), UNCHANGED traffic
  PROVE  TypeOK'
<1>1. at[r] \in Request
  BY DEF TypeOK, ReadSettings, WriteSettings, Reaches
<1>2. CASE ReadSettings(r)
  <2>1. [at[r] EXCEPT !.copy = settings] \in Request
    BY <1>1 DEF TypeOK, Request
  <2>2. at' = [at EXCEPT ![r] = [at[r] EXCEPT !.copy = settings]]
    BY <1>2 DEF ReadSettings
  <2>3. at' \in [Requests -> Request \union {None}] /\ at'[r] \in Request
        /\ \A q \in Requests \ {r} : at'[q] = at[q]
    BY <2>1, <2>2 DEF TypeOK
  <2>4. pc' \in [Requests -> Points] /\ \A q \in Requests : pc'[q] # "idle" => pc[q] # "idle"
    BY <1>2 DEF TypeOK, ReadSettings, Reaches, Goto, Points, Ended
  <2> QED BY <1>2, <2>3, <2>4 DEF TypeOK, ReadSettings, limiter, rows, history
<1>3. CASE WriteSettings(r)
  <2>1. at[r].copy \in [Fields -> Requests \union {None}]
    BY <1>1 DEF Request
  <2>2. settings' \in [Fields -> Requests \union {None}] /\ UNCHANGED <<key, used>>
    BY <1>3, <2>1 DEF WriteSettings, Aborted, Merged, TypeOK, rows
  <2>3. troubles' \in 0 .. traffic'.troubles
    BY <1>3, TroublesType DEF WriteSettings, Aborted
  <2>4. pc' \in [Requests -> Points] /\ \A q \in Requests : pc'[q] # "idle" => pc[q] # "idle"
    BY <1>3 DEF TypeOK, WriteSettings, Aborted, Goto, Points, Ended
  <2> QED BY <1>3, <2>2, <2>3, <2>4 DEF TypeOK, WriteSettings, limiter, history
<1> QED BY <1>2, <1>3

LEMMA CouponType ==
  ASSUME TypeOK, NEW r \in Requests, GetCoupon(r) \/ MarkUsed(r) \/ Serve(r), UNCHANGED traffic
  PROVE  TypeOK'
<1>1. CASE GetCoupon(r) \/ Serve(r)
  BY <1>1 DEF TypeOK, GetCoupon, Serve, Reaches, Goto, limiter, rows, history, Points, Ended
<1>2. CASE MarkUsed(r)
  <2>1. UNCHANGED <<key, settings>> /\ used' \in BOOLEAN
    BY <1>2 DEF MarkUsed, Aborted, TypeOK, rows
  <2>2. troubles' \in 0 .. traffic'.troubles
    BY <1>2, TroublesType DEF MarkUsed, Aborted
  <2>3. pc' \in [Requests -> Points] /\ \A q \in Requests : pc'[q] # "idle" => pc[q] # "idle"
    BY <1>2 DEF TypeOK, MarkUsed, Aborted, Goto, Points, Ended
  <2> QED BY <1>2, <2>1, <2>2, <2>3 DEF TypeOK, MarkUsed, limiter, history
<1> QED BY <1>1, <1>2

LEMMA WorkerType ==
  ASSUME TypeOK, NEW w \in Workers, Restart(w), UNCHANGED traffic
  PROVE  TypeOK'
BY TroublesType DEF TypeOK, Restart, limiter, rows, history, Points, Ended

LEMMA TickType ==
  ASSUME TypeOK, Expire \/ Tick, UNCHANGED traffic
  PROVE  TypeOK'
<1>1. now' \in 0 .. MaxTime
  <2>1. traffic.seconds \in 0 .. MaxTime /\ MaxTime \in Nat
    BY GatewayAssumption DEF TypeOK
  <2> QED BY <2>1 DEF TypeOK, Expire, Tick
<1>2. window' \subseteq 0 .. MaxTime /\ expires' = expires
  BY DEF TypeOK, Expire, Tick, limiter
<1> QED BY <1>1, <1>2 DEF TypeOK, Expire, Tick, limiter, rows, history

LEMMA TypeStep == TypeOK /\ [Next]_vars => TypeOK'
<1> SUFFICES ASSUME TypeOK, [Next]_vars PROVE TypeOK'
  OBVIOUS
<1>1. CASE UNCHANGED vars
  BY <1>1 DEF TypeOK, vars, limiter, rows, history
<1>2. ASSUME NEW r \in Requests, Handle(r), UNCHANGED traffic PROVE TypeOK'
  BY <1>2, LimiterType, TenantType, KeyType, SettingsType, CouponType DEF Handle
<1> QED BY <1>1, <1>2, ArriveType, WorkerType, TickType DEF Next

\* Every variable keeps its type.
THEOREM TypeCorrect == Spec => []TypeOK
BY TypeInit, TypeStep, PTL DEF Spec

--------------------------------------------------------------------------------
(* What a step does to a request.                                          *)

\* A request that ended stays as it is, and what it knew on arrival is kept.
LEMMA Kept ==
  ASSUME TypeOK, [Next]_vars, NEW p \in Requests
  PROVE  /\ pc[p] \in Ended => pc'[p] = pc[p]
         /\ pc[p] # "idle" =>
              /\ pc'[p] # "idle"
              /\ at'[p].worker = at[p].worker /\ at'[p].key = at[p].key
              /\ at'[p].op = at[p].op /\ at'[p].time = at[p].time
              /\ at'[p].before = at[p].before
<1>1. CASE UNCHANGED vars
  BY <1>1 DEF vars
<1>2. ASSUME NEW r \in Requests, Arrive(r)
      PROVE  pc[r] = "idle" /\ \A q \in Requests \ {r} : pc'[q] = pc[q] /\ at'[q] = at[q]
  BY <1>2 DEF Arrive, Goto, TypeOK
<1>3. ASSUME NEW r \in Requests, Handle(r), ~ReadSettings(r), ~Count(r)
      PROVE  /\ at' = at /\ pc[r] \notin Ended /\ pc[r] # "idle" /\ pc'[r] # "idle"
             /\ \A q \in Requests \ {r} : pc'[q] = pc[q]
  BY <1>3 DEF Handle, Count, FailOpen, Retract, CheckCache, Lookup, FillCache, RotateKey, ClearCache,
              WriteSettings, GetCoupon, MarkUsed, Serve, Aborted, Reaches, Goto, TypeOK, Ended
<1>4. ASSUME NEW r \in Requests, ReadSettings(r)
      PROVE  /\ pc[r] \notin Ended /\ pc[r] # "idle" /\ pc'[r] # "idle"
             /\ at' = [at EXCEPT ![r] = [at[r] EXCEPT !.copy = settings]]
             /\ at[r] \in Request
             /\ \A q \in Requests \ {r} : pc'[q] = pc[q] /\ at'[q] = at[q]
  BY <1>4 DEF ReadSettings, Reaches, Goto, TypeOK, Ended
<1>5. CASE \E r \in Requests : ReadSettings(r)
  <2>1. PICK r \in Requests : ReadSettings(r)
    BY <1>5
  <2>2. at'[r] = [at[r] EXCEPT !.copy = settings]
    BY <1>4, <2>1 DEF TypeOK
  <2>3. /\ at'[r].worker = at[r].worker /\ at'[r].key = at[r].key
        /\ at'[r].op = at[r].op /\ at'[r].time = at[r].time
        /\ at'[r].before = at[r].before
    BY <1>4, <2>1, <2>2 DEF Request
  <2> QED BY <1>4, <2>1, <2>3
<1>10. CASE \E r \in Requests : Count(r)
  <2>1. PICK r \in Requests : Count(r)
    BY <1>10
  <2>2. /\ pc[r] \notin Ended /\ pc[r] # "idle" /\ pc'[r] # "idle"
        /\ \A q \in Requests \ {r} : pc'[q] = pc[q]
    BY <2>1 DEF Count, Goto, TypeOK, Ended
  <2>3. /\ at'[r].worker = at[r].worker /\ at'[r].key = at[r].key
        /\ at'[r].op = at[r].op /\ at'[r].time = at[r].time
        /\ at'[r].before = at[r].before
    <3>1. at[r] \in Request
      BY <2>2 DEF TypeOK
    <3>2. at'[r] = [at[r] EXCEPT !.when = now,
                               !.verdict = IF OverLimit(r) THEN "refused" ELSE "admitted"]
      BY <2>1, Counted
    <3> QED BY <3>1, <3>2 DEF Request
  <2> QED BY <2>1, <2>2, <2>3, Counted
<1>6. CASE \E w \in Workers : Restart(w)
  BY <1>6 DEF Restart, TypeOK, Ended
<1>7. CASE Expire \/ Tick
  BY <1>7 DEF Expire, Tick
<1>8. CASE \E r \in Requests : Arrive(r)
  BY <1>2, <1>8, PointsDiffer
<1>9. CASE \E r \in Requests : Handle(r) /\ ~ReadSettings(r) /\ ~Count(r)
  BY <1>3, <1>9
<1> QED BY <1>1, <1>5, <1>6, <1>7, <1>8, <1>9, <1>10 DEF Next

\* The steps that a request takes to the points the properties speak of.
LEMMA Reached ==
  ASSUME TypeOK, [Next]_vars, NEW p \in Requests, pc'[p] # pc[p]
  PROVE  /\ pc'[p] = "mark" => GetCoupon(p)
         /\ pc'[p] = "valid" => MarkUsed(p)
         /\ pc'[p] = "merge" => ReadSettings(p)
         /\ pc'[p] = "updated" => WriteSettings(p)
         /\ pc'[p] = "fill" => Lookup(p)
<1>1. ASSUME NEW r \in Requests, Arrive(r)
      PROVE  /\ r # p => pc'[p] = pc[p]
             /\ pc'[r] = "count"
  BY <1>1 DEF Arrive, Goto, TypeOK
<1>2. ASSUME NEW r \in Requests, Handle(r), r # p
      PROVE  pc'[p] = pc[p]
  BY <1>2 DEF Handle, Count, FailOpen, Retract, CheckCache, Lookup, FillCache, RotateKey, ClearCache,
              ReadSettings, WriteSettings, GetCoupon, MarkUsed, Serve, Aborted, Goto, TypeOK
<1>3. ASSUME Handle(p)
      PROVE  /\ pc'[p] = "mark" => GetCoupon(p)
             /\ pc'[p] = "valid" => MarkUsed(p)
             /\ pc'[p] = "merge" => ReadSettings(p)
             /\ pc'[p] = "updated" => WriteSettings(p)
             /\ pc'[p] = "fill" => Lookup(p)
  BY <1>3 DEF Handle, Count, FailOpen, Retract, CheckCache, Lookup, FillCache, RotateKey, ClearCache,
              ReadSettings, WriteSettings, GetCoupon, MarkUsed, Serve, Aborted, Goto, TypeOK
<1>4. ASSUME NEW w \in Workers, Restart(w)
      PROVE  pc'[p] = "failed"
  BY <1>4 DEF Restart, TypeOK
<1> QED BY <1>1, <1>2, <1>3, <1>4 DEF Next, Expire, Tick, vars

--------------------------------------------------------------------------------
(* The requests that had changed something when one arrived.              *)

BeforeCommitted ==
  \A p \in Requests : pc[p] # "idle" => \A q \in at[p].before : pc[q] \in Committed

LEMMA BeforeStep ==
  ASSUME TypeOK, TypeOK', BeforeCommitted, [Next]_vars
  PROVE  BeforeCommitted'
<1> SUFFICES ASSUME NEW p \in Requests, pc'[p] # "idle", NEW q \in at'[p].before
             PROVE  pc'[q] \in Committed
  BY DEF BeforeCommitted
<1>1. at'[p].before \subseteq Requests
  BY DEF TypeOK, Request
<1>2. CASE pc[p] # "idle"
  BY <1>1, <1>2, Kept, PointsDiffer DEF BeforeCommitted
<1>3. CASE pc[p] = "idle"
  <2>1. Arrive(p)
    <3>1. ASSUME NEW r \in Requests \ {p}, Arrive(r) \/ Handle(r)
          PROVE  pc'[p] = pc[p]
      BY <3>1 DEF Arrive, Handle, Count, FailOpen, Retract, CheckCache, Lookup, FillCache, RotateKey, ClearCache,
                  ReadSettings, WriteSettings, GetCoupon, MarkUsed, Serve, Aborted, Goto, TypeOK
    <3>2. ~Handle(p)
      BY <1>3 DEF Handle, Count, FailOpen, Retract, CheckCache, Lookup, FillCache, RotateKey, ClearCache,
                  ReadSettings, WriteSettings, GetCoupon, MarkUsed, Serve, Aborted, Reaches
    <3>3. ASSUME NEW w \in Workers, Restart(w)
          PROVE  pc'[p] = pc[p]
      BY <1>3, <3>3 DEF Restart, TypeOK
    <3> QED BY <1>3, <3>1, <3>2, <3>3 DEF Next, Expire, Tick, vars
  <2>2. at'[p].before = {s \in Requests : pc[s] \in Committed}
    BY <2>1 DEF Arrive, TypeOK
  <2> QED BY <1>1, <2>2, Kept, PointsDiffer
<1> QED BY <1>2, <1>3

LEMMA BeforeCorrect == Spec => []BeforeCommitted
<1>1. Init => BeforeCommitted
  BY DEF Init, BeforeCommitted
<1> QED BY <1>1, BeforeStep, TypeCorrect, PTL DEF Spec

--------------------------------------------------------------------------------
(* A coupon is redeemed once.                                              *)

CouponInv ==
  /\ \A q \in Requests : pc[q] = "valid" => used
  /\ \A q, r \in Requests :
       pc[q] = "valid" /\ pc[r] \in {"mark", "valid"} => q \notin at[r].before

LEMMA CouponStep ==
  ASSUME TypeOK, BeforeCommitted, CouponInv, [Next]_vars
  PROVE  CouponInv'
<1>1. \A q \in Requests : pc'[q] = "valid" => used'
  <2>1. used => used'
    <3>1. ASSUME NEW r \in Requests, Arrive(r) \/ Handle(r)
          PROVE  used => used'
      BY <3>1 DEF Arrive, Handle, Count, FailOpen, Retract, CheckCache, Lookup, FillCache,
           RotateKey, ReplaceKey, ClearCache, ReadSettings, WriteSettings, GetCoupon, MarkUsed,
           Serve, Aborted, rows
    <3> QED BY <3>1 DEF Next, Restart, Expire, Tick, rows, vars
  <2>2. ASSUME NEW q \in Requests, MarkUsed(q), pc'[q] = "valid"
        PROVE  used'
    BY <2>2 DEF MarkUsed, Aborted, Goto, TypeOK
  <2> QED BY <2>1, <2>2, Reached DEF CouponInv
<1>2. ASSUME NEW q \in Requests, NEW r \in Requests,
             pc'[q] = "valid", pc'[r] \in {"mark", "valid"}
      PROVE  q \notin at'[r].before
  <2>1. /\ pc[r] # "idle" /\ at'[r].before = at[r].before
    <3>1. pc[r] # "idle"
      BY <1>2, Reached DEF GetCoupon, MarkUsed, Serve, Aborted, Reaches
    <3> QED BY <3>1, Kept
  <2>2. CASE pc[q] # "valid"
    BY <1>2, <2>1, <2>2, Reached, PointsDiffer DEF MarkUsed, BeforeCommitted
  <2>3. CASE pc[q] = "valid" /\ pc[r] \in {"mark", "valid"}
    BY <2>1, <2>3 DEF CouponInv
  <2>4. CASE pc[q] = "valid" /\ pc[r] \notin {"mark", "valid"}
    <3>1. used
      BY <2>4 DEF CouponInv
    <3>2. GetCoupon(r) \/ MarkUsed(r)
      BY <1>2, <2>4, Reached
    <3>3. pc'[r] = "invalid"
      BY <2>4, <3>1, <3>2 DEF GetCoupon, MarkUsed, IsValid, Goto, TypeOK
    <3> QED BY <1>2, <3>3
  <2> QED BY <2>2, <2>3, <2>4
<1> QED BY <1>1, <1>2 DEF CouponInv

\* A coupon is not accepted again by a request that arrived after one that
\* redeemed it was answered.
THEOREM CouponRedeemedOnce == Spec => []RedeemedOnce
<1>1. Init => CouponInv
  BY DEF Init, CouponInv
<1>2. CouponInv => RedeemedOnce
  BY DEF CouponInv, RedeemedOnce
<1> QED BY <1>1, <1>2, CouponStep, TypeCorrect, BeforeCorrect, PTL DEF Spec

--------------------------------------------------------------------------------
(* A worker that replaced a key forgets it.                                *)

Excused(w, k) ==
  \/ k = key
  \/ rotator[k] # w
  \/ \E r \in Requests : pc[r] = "clear" /\ at[r].worker = w
  \/ <<w, k>> \in late

\* What is in a cache, and what a lookup in flight is about to put there.
KeysInv ==
  /\ \A w \in Workers : \A k \in cache[w] : Excused(w, k)
  /\ \A r \in Requests : pc[r] = "fill" => Excused(at[r].worker, at[r].key)
  /\ \A k \in Keys : k >= key => rotator[k] = None

\* An excuse lasts, but for the end of the clearing, which takes the cache with
\* it, and for a restart.
LEMMA ExcuseLasts ==
  ASSUME TypeOK, [Next]_vars, NEW w \in Workers, NEW k \in Keys, Excused(w, k),
         \A r \in Requests : at[r].worker = w => ~ClearCache(r),
         ~Restart(w), rotator[key] # w
  PROVE  Excused(w, k)'
<1>1. ASSUME NEW r \in Requests, Arrive(r) \/ Handle(r), ~RotateKey(r)
      PROVE  key' = key /\ rotator' = rotator
  BY <1>1 DEF Arrive, Handle, Count, FailOpen, Retract, CheckCache, Lookup, FillCache, ClearCache,
       ReadSettings, WriteSettings, GetCoupon, MarkUsed, Serve, Aborted, rows, history
<1>4. \/ key' = key /\ rotator' = rotator
      \/ \E r \in Requests : RotateKey(r)
  BY <1>1 DEF Next, Restart, Expire, Tick, rows, history, vars
<1>2. late \subseteq late'
  <2>1. ASSUME NEW r \in Requests, Arrive(r) \/ Handle(r)
        PROVE  late \subseteq late'
    BY <2>1 DEF Arrive, Handle, Count, FailOpen, Retract, CheckCache, Lookup, FillCache,
         RotateKey, ClearCache, ReadSettings, WriteSettings, GetCoupon, MarkUsed, Serve, history
  <2> QED BY <2>1 DEF Next, Restart, Expire, Tick, history, vars
<1>3. ASSUME NEW r \in Requests, RotateKey(r)
      PROVE  /\ pc[r] = "endpoint" /\ at' = at /\ at[r].worker \in Workers
             /\ \A q \in Requests \ {r} : pc'[q] = pc[q]
             /\ \/ key' = key + 1 /\ rotator' = [rotator EXCEPT ![key] = at[r].worker]
                                 /\ pc'[r] = "clear"
                \/ key' = key + 1 /\ rotator' = rotator
                \/ key' = key /\ rotator' = rotator
  BY <1>3 DEF RotateKey, ReplaceKey, Aborted, Reaches, Goto, TypeOK, Request, rows
<1>5. CASE \E r \in Requests : RotateKey(r)
  <2>1. PICK r \in Requests : RotateKey(r)
    BY <1>5
  <2>2. \A q \in Requests : pc[q] = "clear" => pc'[q] = "clear" /\ at'[q] = at[q]
    BY <1>3, <2>1
  <2>3. CASE pc'[r] = "clear" /\ at[r].worker = w
    BY <1>3, <2>1, <2>3 DEF Excused
  <2>4. CASE ~(pc'[r] = "clear" /\ at[r].worker = w)
    <3>1. \A j \in Keys : rotator[j] # w => rotator'[j] # w
      BY <1>3, <2>1, <2>4 DEF TypeOK
    <3>2. key' = key \/ rotator'[key] # w
      BY <3>1 DEF TypeOK
    <3> QED BY <1>2, <2>2, <3>1, <3>2 DEF Excused
  <2> QED BY <2>3, <2>4
<1>6. CASE ~\E r \in Requests : RotateKey(r)
  <2>1. key' = key /\ rotator' = rotator
    BY <1>1, <1>4, <1>6
  <2>2. ASSUME NEW q \in Requests, pc[q] = "clear", at[q].worker = w
        PROVE  pc'[q] = "clear" /\ at'[q].worker = w
    <3>1. at'[q].worker = w
      BY <2>2, Kept
    <3>2. ASSUME NEW r \in Requests, Arrive(r) \/ Handle(r)
          PROVE  pc'[q] = pc[q]
      BY <2>2, <3>2 DEF Arrive, Handle, Count, FailOpen, Retract, CheckCache, Lookup, FillCache, RotateKey,
                        ClearCache, ReadSettings, WriteSettings, GetCoupon, MarkUsed, Serve, Aborted,
                        Reaches, Goto, TypeOK
    <3>3. ASSUME NEW v \in Workers, Restart(v)
          PROVE  pc'[q] = pc[q]
      BY <2>2, <3>3 DEF Restart, TypeOK
    <3> QED BY <2>2, <3>1, <3>2, <3>3 DEF Next, Expire, Tick, vars
  <2> QED BY <1>2, <2>1, <2>2 DEF Excused
<1> QED BY <1>5, <1>6

LEMMA KeysStep ==
  ASSUME TypeOK, TypeOK', KeysInv, [Next]_vars
  PROVE  KeysInv'
<1>1. ASSUME NEW r \in Requests, pc[r] # "idle"
      PROVE  at[r].worker \in Workers /\ at[r].key \in Keys
  BY <1>1 DEF TypeOK, Request
<1>5. \A w \in Workers : rotator[key] # w
  BY GatewayAssumption DEF TypeOK, KeysInv, Keys
<1>2. ASSUME NEW w \in Workers, NEW k \in cache'[w]
      PROVE  Excused(w, k)'
  <2>1. k \in Keys
    BY <1>2 DEF TypeOK
  <2>2. cache'[w] # {}
    BY <1>2
  <2>3. ~Restart(w)
    BY <2>2 DEF Restart, TypeOK
  <2>4. \A r \in Requests : at[r].worker = w => ~ClearCache(r)
    BY <2>2 DEF ClearCache, Cleared, TypeOK
  <2>5. Excused(w, k)
    <3>1. CASE k \in cache[w]
      BY <3>1 DEF KeysInv
    <3>2. CASE k \notin cache[w]
      <4>1. PICK r \in Requests : FillCache(r)
        BY <1>2, <3>2 DEF Next, Arrive, Handle, Count, FailOpen, Retract, CheckCache, Lookup, RotateKey,
             ClearCache, Cleared, ReadSettings, WriteSettings, GetCoupon, MarkUsed, Serve, Aborted, Restart,
             Expire, Tick, TypeOK, vars
      <4>2. pc[r] = "fill" /\ at[r].worker = w /\ at[r].key = k
        BY <1>2, <3>2, <4>1 DEF FillCache, TypeOK
      <4> QED BY <4>2 DEF KeysInv
    <3> QED BY <3>1, <3>2
  <2> QED BY <1>5, <2>1, <2>3, <2>4, <2>5, ExcuseLasts
<1>3. ASSUME NEW r \in Requests, pc'[r] = "fill"
      PROVE  Excused(at[r].worker, at[r].key)' /\ at'[r].worker = at[r].worker
  <2>1. pc[r] # "idle" /\ Excused(at[r].worker, at[r].key)
    <3>1. CASE pc[r] = "fill"
      BY <3>1 DEF KeysInv
    <3>2. CASE pc[r] # "fill"
      <4>1. Lookup(r)
        BY <1>3, <3>2, Reached
      <4> QED BY <1>3, <4>1 DEF Lookup, Excused, Goto, TypeOK
    <3> QED BY <3>1, <3>2
  <2> DEFINE w == at[r].worker
             k == at[r].key
  <2>2. /\ w \in Workers /\ k \in Keys
        /\ at'[r].worker = w /\ at'[r].key = k
    BY <1>1, <2>1, Kept
  <2>3. ~Restart(w)
    BY <1>3, <2>1 DEF Restart, TypeOK, Ended
  <2>4. CASE \E q \in Requests : at[q].worker = w /\ ClearCache(q)
    <3>1. PICK q \in Requests : at[q].worker = w /\ ClearCache(q)
      BY <2>4
    <3>2. pc[r] = "fill"
      BY <1>3, <3>1 DEF ClearCache, Goto, TypeOK
    <3>3. <<w, k>> \in late'
      BY <3>1, <3>2 DEF ClearCache
    <3> HIDE DEF w, k
    <3>4. Excused(w, k)' \/ <<w', k'>> \in late'
      BY <2>2, <3>3 DEF w, k
    <3> QED BY <2>2, <3>3 DEF w, k, Excused
  <2>5. CASE ~\E q \in Requests : at[q].worker = w /\ ClearCache(q)
    <3> HIDE DEF w, k
    <3>1. Excused(w, k)
      BY <2>1 DEF w, k
    <3>2. \A v \in Workers, j \in Keys : v = w /\ j = k => Excused(v, j)'
      BY <1>5, <2>2, <2>3, <2>5, <3>1, ExcuseLasts
    <3> QED BY <2>2, <3>2 DEF w, k, Excused
  <2> QED BY <2>2, <2>4, <2>5
<1>4. ASSUME NEW k \in Keys, k >= key'
      PROVE  rotator'[k] = None
  <2>1. ASSUME NEW r \in Requests, RotateKey(r)
        PROVE  rotator'[k] = None
    <3>1. \/ key' = key + 1 /\ rotator' = [rotator EXCEPT ![key] = at[r].worker]
          \/ key' = key + 1 /\ rotator' = rotator
          \/ key' = key /\ rotator' = rotator
      BY <2>1 DEF RotateKey, ReplaceKey, Aborted, rows
    <3> QED BY <1>4, <3>1 DEF TypeOK, Keys, KeysInv
  <2>2. ASSUME NEW r \in Requests, Arrive(r) \/ Handle(r), ~RotateKey(r)
        PROVE  key' = key /\ rotator' = rotator
    BY <2>2 DEF Arrive, Handle, Count, FailOpen, Retract, CheckCache, Lookup, FillCache,
         ClearCache, ReadSettings, WriteSettings, GetCoupon, MarkUsed, Serve, Aborted, rows, history
  <2>3. CASE ~\E r \in Requests : RotateKey(r)
    <3>1. key' = key /\ rotator' = rotator
      BY <2>2, <2>3 DEF Next, Restart, Expire, Tick, rows, history, vars
    <3> QED BY <1>4, <3>1 DEF KeysInv
  <2> QED BY <2>1, <2>3
<1> QED BY <1>2, <1>3, <1>4 DEF KeysInv

\* The comment in rotate_api_key, with the exception of the lookup that the
\* rotation overtook.
THEOREM RevokedKeysForgotten == Spec => []RevokedIsForgotten
<1>1. Init => KeysInv
  BY DEF Init, KeysInv
<1>2. KeysInv => RevokedIsForgotten
  BY DEF KeysInv, Excused, RevokedIsForgotten
<1> QED BY <1>1, <1>2, KeysStep, TypeCorrect, PTL DEF Spec

--------------------------------------------------------------------------------
(* Updates of the settings.                                                *)

\* The copy of an update in progress respects the updates before it.
SettingsInv ==
  /\ UpdateKept
  /\ \A r \in Requests :
       pc[r] \in {"merge", "updated"} => at[r].op \in [name: {"update"}, field: Fields]
  /\ \A p, r \in Requests :
       pc[p] = "merge" /\ pc[r] = "updated" /\ r \in at[p].before =>
         \/ at[p].copy[at[r].op.field] = r
         \/ \E q \in Requests \ {r} : Overwrites(q, r)

LEMMA OverwritesLasts ==
  ASSUME TypeOK, [Next]_vars, NEW q \in Requests, NEW r \in Requests, pc[r] = "updated",
         Overwrites(q, r)
  PROVE  Overwrites(q, r)'
BY Kept DEF Overwrites, Ended

LEMMA SettingsStep ==
  ASSUME TypeOK, TypeOK', BeforeCommitted, SettingsInv, [Next]_vars
  PROVE  SettingsInv'
<1> DEFINE Writes(p) == WriteSettings(p) /\ pc'[p] # "failed"
<1>1. settings' = settings \/ \E r \in Requests : Writes(r)
  <2>1. ASSUME NEW r \in Requests, Arrive(r) \/ Handle(r), ~WriteSettings(r)
        PROVE  settings' = settings
    BY <2>1 DEF Arrive, Handle, Count, FailOpen, Retract, CheckCache, Lookup, FillCache,
         RotateKey, ReplaceKey, ClearCache, ReadSettings, GetCoupon, MarkUsed, Serve, Aborted, rows
  <2>2. ASSUME NEW r \in Requests, WriteSettings(r), ~Writes(r)
        PROVE  settings' = settings
    BY <2>2 DEF WriteSettings, Goto, Aborted, TypeOK, rows
  <2> QED BY <2>1, <2>2 DEF Next, Restart, Expire, Tick, rows, vars
<1>2. ASSUME NEW p \in Requests, Writes(p)
      PROVE  /\ pc[p] = "merge" /\ pc'[p] \in {"updated", "unacknowledged"} /\ at' = at
             /\ at[p] \in Request
             /\ \A q \in Requests \ {p} : pc'[q] = pc[q]
             /\ settings' = [at[p].copy EXCEPT ![at[p].op.field] = p]
  BY <1>2 DEF WriteSettings, Merged, Aborted, Goto, TypeOK
<1>6. ASSUME NEW r \in Requests, pc'[r] \in {"merge", "updated"}
      PROVE  at[r].op \in [name: {"update"}, field: Fields] /\ at'[r].op = at[r].op
  <2>1. CASE pc[r] \in {"merge", "updated"}
    BY <2>1, Kept DEF SettingsInv
  <2>2. CASE pc[r] \notin {"merge", "updated"}
    <3>1. ReadSettings(r)
      BY <1>6, <2>2, Reached DEF WriteSettings
    <3>2. at[r].op \in Operations /\ at[r].op.name = "update" /\ pc[r] # "idle"
      BY <3>1 DEF ReadSettings, Reaches, TypeOK, Request
    <3>3. at[r].op \in [name: {"update"}, field: Fields]
      BY <3>2 DEF Operations
    <3> QED BY <3>2, <3>3, Kept
  <2> QED BY <2>1, <2>2
<1> DEFINE Safe(r) == settings[at[r].op.field] = r \/ \E q \in Requests \ {r} : Overwrites(q, r)
<1>3. ASSUME NEW r \in Requests, pc'[r] = "updated"
      PROVE  Safe(r)'
  <2>1. CASE \E p \in Requests : Writes(p)
    <3>1. PICK p \in Requests : Writes(p)
      BY <2>1
    <3>2. CASE p = r
      <4>1. at[r].op.field \in Fields
        BY <1>3, <1>6
      <4>2. settings'[at[r].op.field] = r
        BY <1>2, <3>1, <3>2, <4>1 DEF Request
      <4> QED BY <1>2, <3>1, <4>2
    <3>3. CASE p # r
      <4>1. pc[r] = "updated" /\ p \notin at[r].before
        BY <1>2, <1>3, <3>1, <3>3 DEF BeforeCommitted, Committed
      <4>2. CASE r \in at[p].before /\ at[p].op.field # at[r].op.field
        <5>1. \/ at[p].copy[at[r].op.field] = r
              \/ \E q \in Requests \ {r} : Overwrites(q, r)
          BY <1>2, <3>1, <4>1, <4>2 DEF SettingsInv
        <5>2. settings'[at[r].op.field] = at[p].copy[at[r].op.field]
          BY <1>2, <1>3, <1>6, <3>1, <4>2 DEF Request
        <5> QED BY <1>2, <3>1, <4>1, <5>1, <5>2, OverwritesLasts
      <4>3. CASE ~(r \in at[p].before /\ at[p].op.field # at[r].op.field)
        <5>1. Overwrites(p, r)'
          <6>1. at[p].op.name = "update"
            BY <1>2, <3>1 DEF SettingsInv
          <6> QED BY <1>2, <3>1, <4>1, <4>3, <6>1 DEF Overwrites
        <5> QED BY <3>3, <5>1
      <4> QED BY <4>2, <4>3
    <3> QED BY <3>2, <3>3
  <2>2. CASE ~\E p \in Requests : Writes(p)
    <3>1. settings' = settings /\ pc[r] = "updated"
      BY <1>1, <1>3, <2>2, Reached
    <3>2. at'[r].op = at[r].op
      BY <3>1, Kept
    <3>3. Safe(r)
      BY <3>1 DEF SettingsInv, UpdateKept, Overwrites
    <3> QED BY <3>1, <3>2, <3>3, OverwritesLasts
  <2> QED BY <2>1, <2>2
<1>4. ASSUME NEW p \in Requests, NEW r \in Requests,
             pc'[p] = "merge", pc'[r] = "updated", r \in at'[p].before
      PROVE  \/ at'[p].copy[at'[r].op.field] = r
             \/ \E q \in Requests \ {r} : Overwrites(q, r)'
  <2>1. pc[p] # "idle" /\ at'[p].before = at[p].before
    <3>1. pc[p] # "idle"
      BY <1>4, Reached DEF ReadSettings, Reaches
    <3> QED BY <3>1, Kept
  <2>2. pc[r] = "updated" /\ at'[r].op = at[r].op
    <3>1. pc[r] \in Ended
      BY <1>4, <2>1, PointsDiffer DEF BeforeCommitted
    <3> QED BY <1>4, <3>1, Kept, PointsDiffer
  <2>3. CASE pc[p] = "merge"
    <3>1. at'[p] = at[p]
      <4>1. ASSUME NEW q \in Requests, Arrive(q) \/ Handle(q)
            PROVE  at'[p] = at[p]
        BY <2>3, <4>1 DEF Arrive, Handle, Count, FailOpen, Retract, CheckCache, Lookup, FillCache, RotateKey,
             ClearCache, ReadSettings, WriteSettings, GetCoupon, MarkUsed, Serve, Aborted, Reaches, TypeOK
      <4> QED BY <4>1 DEF Next, Restart, Expire, Tick, vars
    <3>2. \/ at[p].copy[at[r].op.field] = r
          \/ \E q \in Requests \ {r} : Overwrites(q, r)
      BY <1>4, <2>1, <2>2, <2>3 DEF SettingsInv
    <3> QED BY <2>2, <3>1, <3>2, OverwritesLasts
  <2>4. CASE pc[p] # "merge"
    <3>1. ReadSettings(p)
      BY <1>4, <2>4, Reached
    <3>2. at'[p].copy = settings
      <4>1. at[p] \in Request /\ at'[p] = [at[p] EXCEPT !.copy = settings]
        BY <3>1 DEF ReadSettings, Reaches, TypeOK
      <4> QED BY <4>1 DEF Request
    <3>3. Safe(r)
      BY <2>2 DEF SettingsInv, UpdateKept, Overwrites
    <3> QED BY <2>2, <3>2, <3>3, OverwritesLasts
  <2> QED BY <2>3, <2>4
<1>5. UpdateKept'
  BY <1>3 DEF UpdateKept, Overwrites
<1>7. \A r \in Requests :
        pc'[r] \in {"merge", "updated"} => at'[r].op \in [name: {"update"}, field: Fields]
  BY <1>6
<1> QED BY <1>4, <1>5, <1>7 DEF SettingsInv

\* An answered update is lost to a concurrent update only.
THEOREM UpdatesKept == Spec => []UpdateKept
<1>1. Init => SettingsInv
  BY DEF Init, SettingsInv, UpdateKept
<1>2. SettingsInv => UpdateKept
  BY DEF SettingsInv
<1> QED BY <1>1, <1>2, SettingsStep, TypeCorrect, BeforeCorrect, PTL DEF Spec

--------------------------------------------------------------------------------
(* The sliding window.                                                     *)

LEMMA LimitType == \A op \in Operations : LimitOf(op) \in Nat
BY GatewayAssumption DEF LimitOf, Operations, Names

\* The verdict of a request comes with the reply to its pipeline.
LEMMA VerdictKept ==
  ASSUME TypeOK, [Next]_vars, NEW p \in Requests, ~Count(p)
  PROVE  /\ pc[p] # "idle" => at'[p].verdict = at[p].verdict /\ at'[p].when = at[p].when
         /\ pc[p] = "idle" /\ pc'[p] # "idle" =>
              /\ pc'[p] = "count" /\ at'[p].verdict = "uncounted"
              /\ at'[p].time = now /\ at'[p].when = now /\ now' = now
<1>1. ASSUME NEW r \in Requests, Arrive(r)
      PROVE  /\ pc[r] = "idle" /\ \A q \in Requests \ {r} : pc'[q] = pc[q] /\ at'[q] = at[q]
             /\ pc'[r] = "count" /\ at'[r].verdict = "uncounted"
             /\ at'[r].time = now /\ at'[r].when = now /\ now' = now
  BY <1>1 DEF Arrive, Goto, TypeOK
<1>2. ASSUME NEW r \in Requests, Handle(r), ~ReadSettings(r), ~Count(r)
      PROVE  at' = at /\ pc[r] # "idle" /\ \A q \in Requests \ {r} : pc'[q] = pc[q]
  BY <1>2 DEF Handle, FailOpen, Retract, CheckCache, Lookup, FillCache, RotateKey, ClearCache,
              WriteSettings, GetCoupon, MarkUsed, Serve, Aborted, Reaches, Goto, TypeOK
<1>3. ASSUME NEW r \in Requests, ReadSettings(r)
      PROVE  /\ \A q \in Requests \ {r} : pc'[q] = pc[q] /\ at'[q] = at[q]
             /\ pc[r] # "idle" /\ at'[r].verdict = at[r].verdict /\ at'[r].when = at[r].when
  <2>1. /\ pc[r] # "idle" /\ at[r] \in Request
        /\ \A q \in Requests \ {r} : pc'[q] = pc[q] /\ at'[q] = at[q]
    BY <1>3 DEF ReadSettings, Reaches, Goto, TypeOK
  <2>2. at'[r] = [at[r] EXCEPT !.copy = settings]
    BY <1>3 DEF ReadSettings, TypeOK
  <2> QED BY <2>1, <2>2 DEF Request
<1>4. ASSUME NEW r \in Requests, Count(r)
      PROVE  r # p /\ pc'[p] = pc[p] /\ at'[p] = at[p]
  BY <1>4, Counted DEF Count, Goto, TypeOK
<1>5. CASE ~\E r \in Requests : Arrive(r) \/ Handle(r)
  BY <1>5 DEF Next, Restart, Expire, Tick, TypeOK, vars
<1>6. CASE \E r \in Requests : Arrive(r)
  BY <1>1, <1>6
<1>7. CASE \E r \in Requests : Handle(r)
  BY <1>2, <1>3, <1>4, <1>7
<1> QED BY <1>5, <1>6, <1>7

LEMMA RefusedLasts ==
  ASSUME TypeOK, [Next]_vars, \A q \in Requests : pc[q] = "count" => at[q].verdict = "uncounted",
         NEW s \in RefusedSeconds
  PROVE  s \in RefusedSeconds'
<1>1. PICK q \in Requests : pc[q] # "idle" /\ at[q].verdict = "refused" /\ at[q].time = s
  BY DEF RefusedSeconds
<1>2. ~Count(q)
  BY <1>1 DEF Count
<1>3. pc'[q] # "idle" /\ at'[q].verdict = "refused" /\ at'[q].time = s
  BY <1>1, <1>2, Kept, VerdictKept
<1> QED BY <1>3 DEF RefusedSeconds

\* What a step does to the clock and to Redis.
LEMMA LimiterStep ==
  ASSUME TypeOK, [Next]_vars
  PROVE  \/ \E r \in Requests : pc[r] = "count" /\ Pipeline(r) /\ now' = now
         \/ \E r \in Requests : pc[r] = "retract" /\ Remove(r) /\ UNCHANGED <<now, expires>>
         \/ Expire
         \/ UNCHANGED limiter /\ now' >= now
<1>1. now' >= now
  <2>1. ASSUME NEW r \in Requests, Arrive(r) \/ Handle(r) PROVE now' = now
    BY <2>1 DEF Arrive, Handle, Count, FailOpen, Retract, CheckCache, Lookup, FillCache,
         RotateKey, ClearCache, ReadSettings, WriteSettings, GetCoupon, MarkUsed, Serve
  <2>2. now' = now \/ now' = now + 1
    BY <2>1 DEF Next, Restart, Expire, Tick, vars
  <2> QED BY <2>2 DEF TypeOK
<1>2. ASSUME NEW r \in Requests, Arrive(r) \/ Handle(r), ~Count(r), ~FailOpen(r), ~Retract(r)
      PROVE  UNCHANGED limiter
  BY <1>2 DEF Arrive, Handle, CheckCache, Lookup, FillCache,
       RotateKey, ClearCache, ReadSettings, WriteSettings, GetCoupon, MarkUsed, Serve
<1>3. ASSUME NEW r \in Requests, Count(r) \/ FailOpen(r)
      PROVE  (pc[r] = "count" /\ Pipeline(r) /\ now' = now) \/ UNCHANGED limiter
  BY <1>3 DEF Count, FailOpen
<1>4. ASSUME NEW r \in Requests, Retract(r)
      PROVE  \/ pc[r] = "retract" /\ Remove(r) /\ UNCHANGED <<now, expires>>
             \/ UNCHANGED limiter
  BY <1>4 DEF Retract, limiter
<1>5. CASE ~\E r \in Requests : Arrive(r) \/ Handle(r)
  BY <1>1, <1>5 DEF Next, Restart, Tick, vars
<1> QED BY <1>1, <1>2, <1>3, <1>4, <1>5 DEF Handle

\* A stamp is not later than the pipeline and both are past; and a request that
\* is counted and let through is in the window until Window seconds after its
\* stamp, unless a refused one took its second out of it.
TimesInv ==
  \A r \in Requests : pc[r] # "idle" =>
    /\ at[r].time <= at[r].when /\ at[r].when <= now
    /\ pc[r] = "count" => at[r].verdict = "uncounted"
    /\ pc[r] = "retract" => at[r].verdict = "refused"

WindowInv ==
  \A r \in Requests :
    /\ pc[r] # "idle" /\ at[r].verdict = "admitted"
    /\ at[r].time \notin RefusedSeconds /\ now < at[r].time + Window
    => at[r].time \in window /\ expires >= at[r].time + Window

LEMMA TimesStep ==
  ASSUME TypeOK, TypeOK', TimesInv, [Next]_vars
  PROVE  TimesInv'
<1> SUFFICES ASSUME NEW r \in Requests, pc'[r] # "idle"
             PROVE  /\ at'[r].time <= at'[r].when /\ at'[r].when <= now'
                    /\ pc'[r] = "count" => at'[r].verdict = "uncounted"
                    /\ pc'[r] = "retract" => at'[r].verdict = "refused"
  BY DEF TimesInv
<1>1. /\ now \in Nat /\ now' \in Nat /\ now' >= now
      /\ pc[r] # "idle" => at[r] \in Request /\ at[r].time \in Nat /\ at[r].when \in Nat
  <2>1. now' >= now
    BY LimiterStep DEF Expire, TypeOK
  <2>2. 0 .. MaxTime \subseteq Nat
    BY GatewayAssumption
  <2> QED BY <2>1, <2>2 DEF TypeOK, Request
<1>2. CASE Count(r)
  <2>1. /\ pc[r] = "count" /\ now' = now
        /\ pc'[r] = IF OverLimit(r) THEN "retract" ELSE "cached"
    BY <1>2 DEF Count, Goto, TypeOK
  <2>2. /\ at'[r].time = at[r].time /\ at'[r].when = now
        /\ at'[r].verdict = IF OverLimit(r) THEN "refused" ELSE "admitted"
    <3>1. at'[r] = [at[r] EXCEPT !.when = now,
                               !.verdict = IF OverLimit(r) THEN "refused" ELSE "admitted"]
      BY <1>2, Counted
    <3> QED BY <1>1, <2>1, <3>1 DEF Request
  <2>3. at[r].time <= now
    BY <1>1, <2>1 DEF TimesInv
  <2> QED BY <1>1, <2>1, <2>2, <2>3
<1>3. CASE ~Count(r) /\ pc[r] = "idle"
  BY <1>1, <1>3, VerdictKept
<1>4. CASE ~Count(r) /\ pc[r] # "idle"
  <2>1. /\ at'[r].verdict = at[r].verdict /\ at'[r].when = at[r].when
        /\ at'[r].time = at[r].time
    BY <1>4, VerdictKept, Kept
  <2>2. pc'[r] \in {"count", "retract"} => pc'[r] = pc[r]
    <3>1. ASSUME NEW q \in Requests, Arrive(q)
          PROVE  q # r /\ pc'[r] = pc[r]
      BY <1>4, <3>1 DEF Arrive, Goto, TypeOK
    <3>2. ASSUME NEW q \in Requests, Handle(q), q # r
          PROVE  pc'[r] = pc[r]
      BY <3>2 DEF Handle, Count, FailOpen, Retract, CheckCache, Lookup, FillCache, RotateKey,
           ClearCache, ReadSettings, WriteSettings, GetCoupon, MarkUsed, Serve, Aborted, Goto, TypeOK
    <3>3. ASSUME Handle(r) PROVE pc'[r] \notin {"count", "retract"}
      BY <1>4, <3>3 DEF Handle, FailOpen, Retract, CheckCache, Lookup, FillCache, RotateKey,
           ClearCache, ReadSettings, WriteSettings, GetCoupon, MarkUsed, Serve, Aborted, Goto, TypeOK
    <3>4. ASSUME NEW w \in Workers, Restart(w) PROVE pc'[r] \in {pc[r], "failed"}
      BY <3>4 DEF Restart, TypeOK
    <3> QED BY <3>1, <3>2, <3>3, <3>4 DEF Next, Expire, Tick, vars
  <2> QED BY <1>1, <1>4, <2>1, <2>2 DEF TimesInv
<1> QED BY <1>2, <1>3, <1>4

LEMMA WindowStep ==
  ASSUME TypeOK, TypeOK', TimesInv, TimesInv', WindowInv, [Next]_vars
  PROVE  WindowInv'
<1> SUFFICES ASSUME NEW r \in Requests, pc'[r] # "idle", at'[r].verdict = "admitted",
                    at'[r].time \notin RefusedSeconds', now' < at'[r].time + Window
             PROVE  at'[r].time \in window' /\ expires' >= at'[r].time + Window
  BY DEF WindowInv
<1>1. Window \in Nat /\ now \in Int /\ now' \in Int /\ expires \in Int /\ expires' \in Int
  BY GatewayAssumption DEF TypeOK
<1>2. \A q \in Requests : pc[q] # "idle" => at[q].time \in Int /\ at[q].time <= now
  BY <1>1 DEF TypeOK, Request, TimesInv
<1>3. pc[r] # "idle" /\ at'[r].time = at[r].time
  <2>1. pc[r] # "idle"
    BY VerdictKept DEF Count
  <2> QED BY <2>1, Kept
<1>4. CASE Count(r)
  BY <1>1, <1>2, <1>3, <1>4 DEF Count, Pipeline
<1>5. CASE ~Count(r)
  <2>1. at[r].verdict = "admitted"
    BY <1>3, <1>5, VerdictKept
  <2>2. at[r].time \notin RefusedSeconds
    BY <1>3, RefusedLasts DEF TimesInv
  <2>3. now' >= now
    BY <1>1, LimiterStep DEF Expire
  <2>4. at[r].time \in window /\ expires >= at[r].time + Window
    BY <1>1, <1>2, <1>3, <2>1, <2>2, <2>3 DEF WindowInv
  <2>5. CASE \E q \in Requests : pc[q] = "count" /\ Pipeline(q) /\ now' = now
    <3>1. PICK q \in Requests : pc[q] = "count" /\ Pipeline(q) /\ now' = now
      BY <2>5
    <3>2. at[r].time > at[q].time - Window
      BY <1>1, <1>2, <1>3, <3>1
    <3> QED BY <1>1, <1>2, <1>3, <2>4, <3>1, <3>2 DEF Pipeline, InWindow
  <2>6. CASE \E q \in Requests : pc[q] = "retract" /\ Remove(q) /\ UNCHANGED <<now, expires>>
    <3>1. PICK q \in Requests : pc[q] = "retract" /\ Remove(q) /\ UNCHANGED <<now, expires>>
      BY <2>6
    <3>2. at[q].time # at[r].time
      BY <2>2, <3>1 DEF TimesInv, RefusedSeconds
    <3> QED BY <1>3, <2>4, <3>1, <3>2 DEF Remove
  <2>7. ~Expire
    BY <1>1, <1>2, <1>3, <2>4 DEF Expire
  <2>8. CASE UNCHANGED limiter
    BY <1>3, <2>4, <2>8 DEF limiter
  <2> QED BY <2>5, <2>6, <2>7, <2>8, LimiterStep
<1> QED BY <1>4, <1>5

LEMMA WindowCorrect == Spec => [](TimesInv /\ WindowInv)
<1>1. Init => TimesInv /\ WindowInv
  BY DEF Init, TimesInv, WindowInv
<1> QED BY <1>1, TimesStep, WindowStep, TypeCorrect, PTL DEF Spec

Seconds(start, limit) ==
  {at[r].time : r \in AdmittedWithin(start, limit)} \ RefusedSeconds

LEMMA SecondsFinite ==
  ASSUME TypeOK, NEW start, NEW limit
  PROVE  IsFiniteSet(Seconds(start, limit)) /\ \A q \in Requests : IsFiniteSet(InWindow(q))
<1>1. IsFiniteSet(0 .. MaxTime)
  BY GatewayAssumption, FS_Interval
<1>2. Seconds(start, limit) \subseteq 0 .. MaxTime
  BY DEF Seconds, AdmittedWithin, TypeOK, Request
<1>3. \A q \in Requests : InWindow(q) \subseteq 0 .. MaxTime
  BY DEF InWindow, TypeOK
<1> QED BY <1>1, <1>2, <1>3, FS_Subset

\* The reply that lets a request through finds the others in the window.
LEMMA AdmissionCounts ==
  ASSUME TypeOK, TypeOK', TimesInv, WindowInv, NEW r \in Requests, Count(r), [Next]_vars,
         NEW start \in Int, NEW limit \in Int, r \in AdmittedWithin(start, limit)'
  PROVE  Cardinality(Seconds(start, limit)') <= limit
<1>1. Window \in Nat /\ now \in Int /\ now' = now
  BY GatewayAssumption DEF TypeOK, Count
<1>2. /\ pc[r] = "count" /\ at[r].op \in Operations
      /\ at'[r].when = now /\ at'[r].time = at[r].time /\ at'[r].op = at[r].op /\ ~OverLimit(r)
  <2>1. pc[r] = "count" /\ at[r] \in Request
    BY DEF Count, TypeOK
  <2>2. at'[r] = [at[r] EXCEPT !.when = now,
                             !.verdict = IF OverLimit(r) THEN "refused" ELSE "admitted"]
    BY Counted
  <2> QED BY <2>1, <2>2 DEF Request, AdmittedWithin
<1>3. now < start + Window /\ LimitOf(at[r].op) <= limit
  BY <1>2 DEF AdmittedWithin, LimitOf
<1>4. \A q \in Requests : pc[q] # "idle" => at[q].time \in Int /\ at[q].time <= now
  BY <1>1 DEF TypeOK, Request, TimesInv
<1>5. Seconds(start, limit)' \subseteq InWindow(r) \union {at[r].time}
  <2> SUFFICES ASSUME NEW q \in AdmittedWithin(start, limit)', at'[q].time \notin RefusedSeconds', q # r
               PROVE  at'[q].time \in InWindow(r)
    BY <1>2 DEF Seconds
  <2>1. q \in Requests /\ at'[q] = at[q] /\ pc[q] # "idle"
    BY Counted DEF AdmittedWithin, Count, Goto, TypeOK
  <2>2. at[q].verdict = "admitted" /\ at[q].time >= start
    BY <2>1 DEF AdmittedWithin
  <2>3. at[q].time \notin RefusedSeconds
    BY <2>1, RefusedLasts DEF TimesInv
  <2>4. now < at[q].time + Window
    BY <1>1, <1>3, <1>4, <2>1, <2>2
  <2>5. at[q].time \in window
    BY <2>1, <2>2, <2>3, <2>4 DEF WindowInv
  <2> QED BY <1>1, <1>2, <1>4, <2>1, <2>4, <2>5 DEF InWindow
<1>6. IsFiniteSet(InWindow(r)) /\ Cardinality(InWindow(r)) \in Nat
  BY SecondsFinite, FS_CardinalityType
<1>7. Cardinality(InWindow(r)) < LimitOf(at[r].op)
  BY <1>2, <1>6, LimitType DEF OverLimit
<1>8. /\ IsFiniteSet(InWindow(r) \union {at[r].time})
      /\ Cardinality(InWindow(r) \union {at[r].time}) <= Cardinality(InWindow(r)) + 1
  <2> DEFINE S == InWindow(r)
             x == at[r].time
  <2> HIDE DEF S, x
  <2>1. IsFiniteSet(S) /\ Cardinality(S) \in Nat
    BY <1>6 DEF S
  <2>2. /\ IsFiniteSet(S \union {x})
        /\ Cardinality(S \union {x}) = IF x \in S THEN Cardinality(S) ELSE Cardinality(S) + 1
    BY <2>1, FS_AddElement
  <2>3. Cardinality(S \union {x}) <= Cardinality(S) + 1
    BY <2>1, <2>2
  <2> QED BY <2>2, <2>3 DEF S, x
<1>9. Cardinality(Seconds(start, limit)') <= Cardinality(InWindow(r) \union {at[r].time})
  BY <1>5, <1>8, FS_Subset
<1>10. /\ Cardinality(Seconds(start, limit)') \in Nat
       /\ Cardinality(InWindow(r) \union {at[r].time}) \in Nat
  BY <1>5, <1>8, FS_Subset, FS_CardinalityType
<1> QED BY <1>2, <1>3, <1>6, <1>7, <1>8, <1>9, <1>10, LimitType

LEMMA LimitStep ==
  ASSUME TypeOK, TypeOK', TimesInv, WindowInv, AtMostLimit, [Next]_vars
  PROVE  AtMostLimit'
<1> SUFFICES ASSUME NEW start \in 0 .. MaxTime, NEW limit \in {LimitOf(op) : op \in Operations}
             PROVE  Cardinality(Seconds(start, limit)') <= limit
  BY DEF AtMostLimit, Seconds, LimitOf, Operations
<1>1. start \in Int /\ limit \in Int
  BY GatewayAssumption, LimitType
<1>2. CASE \E r \in AdmittedWithin(start, limit)' : Count(r)
  BY <1>1, <1>2, AdmissionCounts DEF AdmittedWithin
<1>3. CASE ~\E r \in AdmittedWithin(start, limit)' : Count(r)
  <2>1. Seconds(start, limit)' \subseteq Seconds(start, limit)
    <3> SUFFICES ASSUME NEW q \in AdmittedWithin(start, limit)', at'[q].time \notin RefusedSeconds'
                 PROVE  at'[q].time \in Seconds(start, limit)
      BY DEF Seconds
    <3>1. q \in Requests /\ ~Count(q) /\ pc'[q] # "idle" /\ at'[q].verdict = "admitted"
      BY <1>3 DEF AdmittedWithin
    <3>2. /\ pc[q] # "idle" /\ at'[q].time = at[q].time /\ at'[q].op = at[q].op
          /\ at'[q].when = at[q].when /\ at'[q].verdict = at[q].verdict
      BY <3>1, VerdictKept, Kept
    <3>3. q \in AdmittedWithin(start, limit)
      BY <3>1, <3>2 DEF AdmittedWithin, LimitOf
    <3>4. at[q].time \notin RefusedSeconds
      BY <3>2, RefusedLasts DEF TimesInv
    <3> QED BY <3>2, <3>3, <3>4 DEF Seconds
  <2>2. Cardinality(Seconds(start, limit)) <= limit
    BY DEF AtMostLimit, Seconds
  <2>3. IsFiniteSet(Seconds(start, limit))
    BY SecondsFinite
  <2>4. /\ Cardinality(Seconds(start, limit)') <= Cardinality(Seconds(start, limit))
        /\ Cardinality(Seconds(start, limit)') \in Nat /\ Cardinality(Seconds(start, limit)) \in Nat
    BY <2>1, <2>3, FS_Subset, FS_CardinalityType
  <2> QED BY <1>1, <2>2, <2>4
<1> QED BY <1>2, <1>3

\* The counted requests that are let through within a window are of at most limit
\* seconds, but for the seconds of refused ones, even if pipelines are executed
\* late and out of the order of their stamps.
THEOREM LimitRespected == Spec => []AtMostLimit
<1>1. Init => AtMostLimit
  <2> SUFFICES ASSUME Init, NEW start \in 0 .. MaxTime,
                      NEW limit \in {LimitOf(op) : op \in Operations}
               PROVE  Cardinality(Seconds(start, limit)) <= limit
    BY DEF AtMostLimit, Seconds
  <2>1. Seconds(start, limit) = {}
    BY DEF Init, Seconds, AdmittedWithin
  <2>2. limit \in Nat
    BY LimitType
  <2> QED BY <2>1, <2>2, FS_EmptySet
<1> QED BY <1>1, LimitStep, WindowCorrect, TypeCorrect, PTL DEF Spec
================================================================================
