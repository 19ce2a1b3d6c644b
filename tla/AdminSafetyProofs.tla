--------------------------- MODULE AdminSafetyProofs ---------------------------
(***************************************************************************)
(* Theorems about AdminSafety, for every set of requests, callers, actions *)
(* and definitions, for every interleaving and with or without crashes.    *)
(***************************************************************************)
EXTENDS AdminSafety, SequenceTheorems, TLAPS

(***************************************************************************)
(* Type correctness.  A decision changes the fields of the private copy,   *)
(* so TypeOK needs to know where a request has one.                        *)
(***************************************************************************)

LEMMA TypeInit == Init => TypeInv
BY SafetyAssumption DEF Init, TypeInv, TypeOK, Shape, Labels, Idle, Carrying

LEMMA ArrivalType ==
  ASSUME TypeInv, NEW r \in Requests, NEW a \in ActionIds, NEW who \in Admins,
         \/ \E name \in ActionNames : Command(r, a, who, name)
         \/ \E o \in Ops : Call(r, o, a, who)
  PROVE  TypeInv'
<1> USE SafetyAssumption DEF TypeInv, TypeOK, Shape, Labels, Idle, Carrying,
      Arrive, Answer, Goto, redis, history
<1>1. CASE \E name \in ActionNames : Command(r, a, who, name)
  <2>1. PICK name \in ActionNames : Command(r, a, who, name)
    BY <1>1
  <2>2. Draft(name, who) \in PendingAction
    BY DEF Draft, PendingAction, Status, Time, Never
  <2>3. /\ op' \in [Requests -> Operations \union {None}]
        /\ op'[r] = "command" /\ target'[r] = a /\ caller'[r] = who
    BY <2>1 DEF Command, Operations
  <2>4. CASE Answer(r, "refused")
    BY <2>1, <2>3, <2>4 DEF Command, Operations
  <2>5. CASE ~Answer(r, "refused")
    <3>1. PICK label \in {"run_now", "request"} :
            /\ pc' = [pc EXCEPT ![r] = label]
            /\ copy' = [copy EXCEPT ![r] = Draft(name, who)]
      BY <2>1, <2>5 DEF Command
    <3>2. TypeOK'
      BY <2>1, <2>2, <2>3, <3>1 DEF Command
    <3>3. \A q \in Requests : Shape(q)'
      BY <2>1, <2>2, <2>3, <3>1 DEF Command, Operations
    <3> QED BY <3>2, <3>3
  <2> QED BY <2>4, <2>5
<1>2. CASE \E o \in Ops : Call(r, o, a, who)
  <2>1. PICK o \in Ops : Call(r, o, a, who)
    BY <1>2
  <2>2. o \in Operations
    OBVIOUS
  <2>3. TypeOK'
    BY <2>1, <2>2 DEF Call
  <2>4. \A q \in Requests : Shape(q)'
    BY <2>1, <2>2 DEF Call
  <2> QED BY <2>3, <2>4
<1> QED BY <1>1, <1>2

\* A request that is answered, or that moves on with a copy, keeps its shape;
\* the others are not touched.
LEMMA AnswerShape ==
  ASSUME TypeInv, NEW r \in Requests, pc[r] # "idle",
         NEW outcome \in {"done", "refused", "dead"},
         Answer(r, outcome), UNCHANGED <<op, target, caller>>
  PROVE  /\ pc' \in [Requests -> Labels]
         /\ copy' \in [Requests -> PendingAction \union {None}]
         /\ \A q \in Requests : Shape(q)'
BY DEF TypeInv, TypeOK, Shape, Labels, Idle, Carrying, Answer, Goto

LEMMA ChangeShape ==
  ASSUME TypeInv, NEW r \in Requests, pc[r] # "idle",
         NEW p \in PendingAction,
         NEW label \in {"decide", "store", "dequeue", "run"},
         label # "store" => op[r] # "command",
         label = "run" => op[r] = "execute",
         Change(r, p, label), UNCHANGED <<op, target, caller>>
  PROVE  /\ pc' \in [Requests -> Labels]
         /\ copy' \in [Requests -> PendingAction \union {None}]
         /\ \A q \in Requests : Shape(q)'
BY DEF TypeInv, TypeOK, Shape, Labels, Idle, Carrying, Change, Goto

\* The copies that the handlers write are well typed.
LEMMA NewStatus ==
  ASSUME NEW p \in PendingAction, NEW s \in Status
  PROVE  /\ [p EXCEPT !.status = s] \in PendingAction
         /\ \A i \in Admins : [p EXCEPT !.status = s, !.approver_id = i] \in PendingAction
         /\ \A t \in Time : [p EXCEPT !.status = s, !.rollback_expires_at = t]
                              \in PendingAction
BY DEF PendingAction

LEMMA Requested ==
  ASSUME NEW p \in PendingAction, NEW s \in Status, NEW t \in Nat, NEW u \in Nat
  PROVE  [p EXCEPT !.status = s, !.expires_at = t, !.can_execute_at = u]
           \in PendingAction
BY DEF PendingAction

LEMMA ConfirmedType ==
  ASSUME NEW p \in PendingAction, now \in Nat
  PROVE  Confirmed(p) \in PendingAction
<1> DEFINE q == [p EXCEPT !.confirmation_count = @ + 1, !.confirmed_at = now]
<1>1. q \in PendingAction
  <2>1. p.confirmation_count + 1 \in Nat /\ now \in Time
    BY DEF PendingAction, Time
  <2> QED BY <2>1 DEF PendingAction
<1>2. [q EXCEPT !.status = "approved"] \in PendingAction
  BY <1>1, NewStatus DEF Status
<1> QED BY <1>1, <1>2 DEF Confirmed

LEMMA DefinitionType ==
  ASSUME NEW p \in PendingAction
  PROVE  DefinitionOf(p) \in ActionDefinition
BY SafetyAssumption DEF DefinitionOf, PendingAction

LEMMA EffectsType ==
  ASSUME NEW a \in ActionIds, TypeOK, TakesEffect(a)
  PROVE  effects' \in [ActionIds -> Seq(Nat)]
<1>1. effects[a] \in Seq(Nat) /\ now \in Nat
  BY DEF TypeOK
<1>2. Append(effects[a], now) \in Seq(Nat)
  BY <1>1
<1>3. effects' = [effects EXCEPT ![a] = Append(effects[a], now)]
  BY DEF TakesEffect
<1> HIDE DEF TakesEffect
<1> QED BY <1>2, <1>3 DEF TypeOK

LEMMA HandlerType ==
  ASSUME TypeInv, NEW r \in Requests, Handle(r)
  PROVE  TypeInv'
<1> DEFINE p == copy[r]
           a == target[r]
<1> USE DEF redis, history
<1>0. /\ pc[r] # "idle" => a \in ActionIds /\ caller[r] \in Admins
      /\ pc[r] \in Carrying => p \in PendingAction
      /\ TypeOK
  BY DEF TypeInv, Shape
<1>1. CASE RequestConfirmation(r)
  <2>1. p \in PendingAction /\ a \in ActionIds /\ pc[r] # "idle"
    BY <1>0, <1>1 DEF RequestConfirmation, Carrying
  <2>2. CASE Answer(r, "refused") /\ UNCHANGED queue
    BY <1>0, <1>1, <2>1, <2>2, AnswerShape DEF RequestConfirmation, TypeInv, TypeOK
  <2>3. CASE ~(Answer(r, "refused") /\ UNCHANGED queue)
    <3> DEFINE s == IF NeedsHuman(p) THEN "pending_human_approval"
                                     ELSE "pending_confirmation"
               t == now + ConfirmWindow
               u == now + DefinitionOf(p).confirmation_delay
               q == [p EXCEPT !.status = s, !.expires_at = t, !.can_execute_at = u]
    <3>1. s \in Status /\ t \in Nat /\ u \in Nat
      BY <1>0, <2>1, SafetyAssumption, DefinitionType DEF TypeOK, ActionDefinition, Status
    <3>2. q \in PendingAction
      <4> HIDE DEF s, t, u
      <4> QED BY <2>1, <3>1, Requested
    <3>3. Change(r, q, "store") /\ queue' \subseteq ActionIds
      BY <1>0, <1>1, <2>1, <2>3 DEF RequestConfirmation, Change, TypeOK, WaitingStatus, Enqueued
    <3>4. UNCHANGED <<store, now, op, target, caller, history>>
      BY <1>1 DEF RequestConfirmation
    <3> HIDE DEF q
    <3> QED BY <1>0, <2>1, <3>2, <3>3, <3>4, ChangeShape DEF TypeInv, TypeOK
  <2> QED BY <2>2, <2>3
<1>2. CASE Load(r)
  <2>1. a \in ActionIds /\ pc[r] # "idle" /\ op[r] # "command"
    BY <1>0, <1>2 DEF Load, TypeInv, Shape
  <2>2. CASE Answer(r, "refused")
    BY <1>0, <1>2, <2>1, <2>2, AnswerShape DEF Load, TypeInv, TypeOK
  <2>3. CASE ~Answer(r, "refused")
    <3>1. store[a] \in PendingAction /\ Change(r, store[a], "decide")
      BY <1>0, <1>2, <2>1, <2>3 DEF Load, Visible, Change, TypeOK
    <3> QED BY <1>0, <1>2, <2>1, <3>1, ChangeShape DEF Load, TypeInv, TypeOK
  <2> QED BY <2>2, <2>3
<1>3. CASE ConfirmAction(r) \/ ApproveAction(r) \/ RejectAction(r)
             \/ ExecuteAction(r) \/ RollbackAction(r)
  <2>1. /\ p \in PendingAction /\ a \in ActionIds /\ caller[r] \in Admins
        /\ pc[r] # "idle" /\ op[r] # "command"
    BY <1>0, <1>3 DEF TypeInv, Shape, Carrying, Deciding, ConfirmAction,
       ApproveAction, RejectAction, ExecuteAction, RollbackAction
  <2>2. /\ UNCHANGED <<redis, now, op, target, caller, effects>>
        /\ grants' \in [ActionIds -> SUBSET Requests]
    BY <1>0, <1>3, <2>1 DEF ConfirmAction,
       ApproveAction, RejectAction, ExecuteAction, RollbackAction, TypeOK
  <2>3. CASE Answer(r, "refused")
    BY <1>0, <2>1, <2>2, <2>3, AnswerShape DEF TypeInv, TypeOK
  <2>4. CASE ~Answer(r, "refused")
    <3>1. \E q \in PendingAction, l \in {"store", "dequeue"} : Change(r, q, l)
      <4>1. CASE ConfirmAction(r)
        <5>1. Confirmed(p) \in PendingAction
          BY <1>0, <2>1, ConfirmedType DEF TypeOK
        <5>2. [p EXCEPT !.status = "expired"] \in PendingAction
          BY <2>1, NewStatus DEF Status
        <5> QED BY <2>4, <4>1, <5>1, <5>2 DEF ConfirmAction
      <4>2. CASE ApproveAction(r)
        BY <2>1, <2>4, <4>2, NewStatus DEF ApproveAction, Status
      <4>3. CASE RejectAction(r)
        BY <2>1, <2>4, <4>3, NewStatus DEF RejectAction, Rejected, Status
      <4>4. CASE ExecuteAction(r)
        <5> DEFINE t == IF DefinitionOf(p).supports_rollback
                          THEN now + DefinitionOf(p).rollback_window
                          ELSE p.rollback_expires_at
        <5>1. t \in Time
          <6>1. p.rollback_expires_at \in Time
            BY <2>1 DEF PendingAction
          <6> QED BY <1>0, <2>1, <6>1, DefinitionType DEF TypeOK, ActionDefinition, Time
        <5>2. Change(r, [p EXCEPT !.status = "executing", !.rollback_expires_at = t],
                     "store")
          BY <2>4, <4>4 DEF ExecuteAction
        <5> HIDE DEF t
        <5> QED BY <2>1, <5>1, <5>2, NewStatus DEF Status
      <4>5. CASE RollbackAction(r)
        BY <2>1, <2>4, <4>5, NewStatus DEF RollbackAction, Status
      <4> QED BY <1>3, <4>1, <4>2, <4>3, <4>4, <4>5
    <3> QED BY <1>0, <2>1, <2>2, <3>1, ChangeShape DEF TypeInv, TypeOK
  <2> QED BY <2>3, <2>4
<1>4. CASE StorePending(r)
  <2>1. p \in PendingAction /\ a \in ActionIds /\ pc[r] # "idle"
    BY <1>0, <1>4 DEF StorePending, Carrying
  <2>2. store' \in [ActionIds -> PendingAction \union {None}]
    BY <1>0, <1>4, <2>1 DEF StorePending, TypeOK
  <2>3. CASE Answer(r, "done") /\ UNCHANGED op
    BY <1>0, <1>4, <2>1, <2>2, <2>3, AnswerShape DEF StorePending, TypeInv, TypeOK
  <2>4. CASE ~(Answer(r, "done") /\ UNCHANGED op)
    <3>1. PICK o \in {op[r], "execute"}, l \in {"load", "run", "dequeue"} :
            /\ pc' = [pc EXCEPT ![r] = l] /\ op' = [op EXCEPT ![r] = o]
            /\ o # "command" /\ (l = "run" => o = "execute")
      BY <1>0, <1>4, <2>4 DEF StorePending, Goto, TypeOK
    <3>2. o \in Operations
      BY <2>1, <3>1 DEF Operations, TypeInv, Shape
    <3>3. UNCHANGED <<queue, now, target, caller, copy, history>>
      BY <1>4, <2>4 DEF StorePending
    <3>4. TypeOK'
      BY <1>0, <2>2, <3>1, <3>2, <3>3 DEF TypeOK, Labels
    <3>5. \A q \in Requests : Shape(q)'
      BY <1>0, <2>1, <3>1, <3>2, <3>3 DEF TypeInv, TypeOK, Shape, Carrying
    <3> QED BY <3>4, <3>5 DEF TypeInv
  <2> QED BY <2>3, <2>4
<1>5. CASE Dequeue(r)
  <2>1. p \in PendingAction /\ pc[r] # "idle"
    BY <1>0, <1>5 DEF Dequeue, Carrying
  <2>2. CASE Answer(r, "done")
    BY <1>0, <1>5, <2>1, <2>2, AnswerShape DEF Dequeue, TypeInv, TypeOK
  <2>3. CASE ~Answer(r, "done")
    BY <1>0, <1>5, <2>1, <2>3
       DEF Dequeue, Goto, TypeInv, TypeOK, Shape, Labels, Idle, Carrying
  <2> QED BY <2>2, <2>3
<1>6. CASE RunExecutor(r)
  <2>1. p \in PendingAction /\ a \in ActionIds /\ pc[r] # "idle"
    BY <1>0, <1>6 DEF RunExecutor, Carrying
  <2>2. \E s \in Status : Change(r, [p EXCEPT !.status = s], "store")
    BY <1>6 DEF RunExecutor, Status
  <2>3. effects' \in [ActionIds -> Seq(Nat)]
    BY <1>0, <1>6, <2>1, EffectsType DEF RunExecutor, TypeOK
  <2> QED BY <1>0, <1>6, <2>1, <2>2, <2>3, NewStatus, ChangeShape
          DEF RunExecutor, TypeInv, TypeOK
<1>7. CASE RunNow(r)
  <2>1. p \in PendingAction /\ a \in ActionIds /\ pc[r] # "idle"
    BY <1>0, <1>7 DEF RunNow, Carrying
  <2>2. effects' \in [ActionIds -> Seq(Nat)]
    BY <1>0, <1>7, <2>1, EffectsType DEF RunNow, TypeOK
  <2> QED BY <1>0, <1>7, <2>1, <2>2, AnswerShape DEF RunNow, TypeInv, TypeOK
<1>8. CASE StoreFails(r)
  <2>1. p \in PendingAction /\ pc[r] # "idle"
    BY <1>0, <1>8 DEF StoreFails, Carrying
  <2>2. [p EXCEPT !.status = "failed"] \in PendingAction
    BY <2>1, NewStatus DEF Status
  <2>3. Change(r, [p EXCEPT !.status = "failed"], "store")
    BY <1>0, <1>8 DEF StoreFails, Change, Goto, TypeOK
  <2>4. store' \in [ActionIds -> PendingAction \union {None}]
    BY <1>0, <1>8, <2>1 DEF StoreFails, TypeOK
  <2> QED BY <1>0, <1>8, <2>1, <2>2, <2>3, <2>4, ChangeShape DEF StoreFails, TypeInv, TypeOK
<1> QED BY <1>1, <1>2, <1>3, <1>4, <1>5, <1>6, <1>7, <1>8 DEF Handle

LEMMA TypeStep == TypeInv /\ [Next]_vars => TypeInv'
<1> SUFFICES ASSUME TypeInv, [Next]_vars PROVE TypeInv'
  OBVIOUS
<1>1. CASE \E r \in Requests, a \in ActionIds, who \in Admins :
             \/ \E name \in ActionNames : Command(r, a, who, name)
             \/ \E o \in Ops : Call(r, o, a, who)
  BY <1>1, ArrivalType
<1>2. CASE \E r \in Requests : Handle(r)
  BY <1>2, HandlerType
<1>3. CASE \E r \in Requests : Crash(r)
  <2>1. PICK r \in Requests : Crash(r)
    BY <1>3
  <2>2. pc[r] # "idle" /\ Answer(r, "dead")
    BY <2>1 DEF Crash, InFlight, Idle
  <2> QED BY <2>1, <2>2, AnswerShape DEF Crash, redis, history, TypeInv, TypeOK
<1>4. CASE Tick
  BY <1>4 DEF Tick, TypeInv, TypeOK, Shape, redis, history
<1>5. CASE UNCHANGED vars
  BY <1>5 DEF vars, TypeInv, TypeOK, Shape, redis, history
<1> QED BY <1>1, <1>2, <1>3, <1>4, <1>5 DEF Next

THEOREM TypeInvariant == Spec => []TypeInv
<1> QED BY TypeInit, TypeStep, PTL DEF Spec

\* Every variable keeps its type, the private copies of the requests included.
THEOREM TypeCorrect == Spec => []TypeOK
<1>1. TypeInv => TypeOK
  BY DEF TypeInv
<1> QED BY <1>1, TypeInvariant, PTL

(***************************************************************************)
(* The inductive invariant.  First how evidence survives.                  *)
(***************************************************************************)

\* More counted requests, the same callers and a later clock keep the evidence.
LEMMA EvidenceGrows ==
  ASSUME NEW p \in PendingAction, NEW g, NEW h, NEW c, NEW d, NEW t \in Nat, NEW u \in Nat,
         Evidence(p, g, c, t), g \subseteq h, \A r \in g : d[r] = c[r], t <= u
  PROVE  Evidence(p, h, d, u)
BY DEF Evidence, PendingAction, Time, Never

\* A status that does not claim anything needs no more than the counts.
LEMMA EvidenceIdle ==
  ASSUME NEW p \in PendingAction, NEW q \in PendingAction, NEW g, NEW c, NEW t,
         Evidence(p, g, c, t),
         q.action_name = p.action_name,
         q.confirmation_count = p.confirmation_count,
         q.status \in {"rejected", "expired"}
  PROVE  Evidence(q, g, c, t)
BY DEF Evidence, Underway, DefinitionOf, NeedsHuman

\* From one claim to another.
LEMMA EvidenceUnderway ==
  ASSUME NEW p \in PendingAction, NEW q \in PendingAction, NEW g, NEW c, NEW t,
         Evidence(p, g, c, t),
         SameAction(q, p),
         q.confirmation_count = p.confirmation_count,
         q.confirmed_at = p.confirmed_at,
         p.status \in Underway, q.status \in Underway
  PROVE  Evidence(q, g, c, t)
BY DEF Evidence, Underway, DefinitionOf, NeedsHuman, ConfirmedTwice, SameAction

LEMMA SafetyInit == Init => SafetyInv
<1> SUFFICES ASSUME Init PROVE SafetyInv
  OBVIOUS
<1>1. TypeInv
  BY TypeInit
<1>2. NewIds
  BY SafetyAssumption DEF Init, NewIds, Operations
<1>3. \A r \in Requests : RequestInv(r)
  BY DEF Init, RequestInv, Commanding, Changing
<1>4. \A a \in ActionIds : ActionInv(a)
  BY DEF Init, ActionInv, Authorised, Delayed, TookEffect
<1> QED BY <1>1, <1>2, <1>3, <1>4 DEF SafetyInv

(***************************************************************************)
(* Steps that leave Redis, the history and the other requests alone.       *)
(***************************************************************************)
LEMMA PrivateStep ==
  ASSUME SafetyInv, TypeInv', NEW r \in Requests,
         UNCHANGED <<store, now, op, target, caller, history>>,
         pc[r] # "idle", pc'[r] # "idle",
         \A q \in Requests \ {r} : pc'[q] = pc[q] /\ copy'[q] = copy[q],
         RequestInv(r)'
  PROVE  /\ NewIds'
         /\ \A q \in Requests : RequestInv(q)'
         /\ ~(op[r] = "command" /\ pc[r] = "done")
              => \A a \in ActionIds : ActionInv(a)'
<1> USE DEF SafetyInv, history
<1>1. NewIds'
  BY DEF NewIds
<1>2. ASSUME NEW q \in Requests PROVE RequestInv(q)'
  <2>1. CASE q = r
    BY <2>1
  <2>2. CASE q # r
    BY <2>2 DEF RequestInv, Commanding, Changing
  <2> QED BY <2>1, <2>2
<1>3. ASSUME NEW a \in ActionIds, ~(op[r] = "command" /\ pc[r] = "done")
      PROVE  ActionInv(a)'
  <2>1. ActionInv(a)
    OBVIOUS
  <2>2. \A q \in Requests : op[q] = "command" /\ target[q] = a /\ pc[q] = "done"
          => op'[q] = "command" /\ target'[q] = a /\ pc'[q] = "done"
    BY <1>3
  <2>3. /\ Authorised(a)' = Authorised(a)
        /\ Delayed(a)' = Delayed(a)
        /\ TookEffect(a)' = TookEffect(a)
    BY DEF Authorised, Delayed, TookEffect
  <2> QED BY <2>1, <2>2, <2>3 DEF ActionInv
<1> QED BY <1>1, <1>2, <1>3

\* An answered request claims nothing.
LEMMA AnsweredInv ==
  ASSUME SafetyInv, TypeInv', NEW r \in Requests, r \in InFlight,
         NEW outcome \in {"done", "refused", "dead"}, Answer(r, outcome),
         UNCHANGED <<store, now, op, target, caller, history>>
  PROVE  SafetyInv'
<1>1. RequestInv(r)'
  BY DEF SafetyInv, TypeInv, TypeOK, RequestInv, Commanding, Changing, Answer, Goto,
    history, InFlight, Idle
<1>2. \A q \in Requests \ {r} : pc'[q] = pc[q] /\ copy'[q] = copy[q]
  BY DEF SafetyInv, TypeInv, TypeOK, Answer, Goto
<1>3. pc[r] # "idle" /\ pc[r] # "done" /\ pc'[r] # "idle"
  BY DEF SafetyInv, TypeInv, TypeOK, Answer, Goto, InFlight, Idle
<1> QED BY <1>1, <1>2, <1>3, PrivateStep DEF SafetyInv

\* A request that goes on with a copy that is backed.
LEMMA ChangedInv ==
  ASSUME SafetyInv, TypeInv', NEW r \in Requests, r \in InFlight,
         NEW p \in PendingAction, NEW label \in {"decide", "store", "dequeue"},
         Change(r, p, label),
         UNCHANGED <<store, now, op, target, caller, history>>,
         op[r] = "command" => label = "store" /\ store[target[r]] = None,
         op[r] # "command" => /\ store[target[r]] # None
                              /\ SameAction(p, store[target[r]]),
         \A a \in ActionIds : r \in grants[a] => label # "decide" \/ op[r] # "confirm",
         Evidence(p, grants[target[r]], caller, now)
  PROVE  SafetyInv'
<1>1. pc'[r] = label /\ copy'[r] = p
  BY DEF SafetyInv, TypeInv, TypeOK, Change, Goto
<1>2. RequestInv(r)'
  BY <1>1 DEF RequestInv, Commanding, Changing, history
<1>3. \A q \in Requests \ {r} : pc'[q] = pc[q] /\ copy'[q] = copy[q]
  BY DEF SafetyInv, TypeInv, TypeOK, Change, Goto
<1>4. pc[r] # "idle" /\ pc[r] # "done" /\ pc'[r] # "idle"
  BY <1>1 DEF InFlight, Idle
<1> QED BY <1>2, <1>3, <1>4, PrivateStep DEF SafetyInv

(***************************************************************************)
(* The steps, one by one.                                                  *)
(***************************************************************************)
LEMMA ArrivalInv ==
  ASSUME SafetyInv, TypeInv', NEW r \in Requests, NEW a \in ActionIds, NEW who \in Admins,
         \/ \E name \in ActionNames : Command(r, a, who, name)
         \/ \E o \in Ops : Call(r, o, a, who)
  PROVE  SafetyInv'
<1> USE DEF redis, history
<1>0. TypeInv /\ NewIds /\ (\A q \in Requests : RequestInv(q))
        /\ (\A b \in ActionIds : ActionInv(b))
  BY DEF SafetyInv
<1>1. /\ pc[r] = "idle" /\ pc'[r] # "idle"
      /\ op'[r] \in Operations /\ target'[r] = a /\ caller'[r] = who
      /\ \A q \in Requests \ {r} : /\ pc'[q] = pc[q] /\ copy'[q] = copy[q] /\ op'[q] = op[q]
                                   /\ target'[q] = target[q] /\ caller'[q] = caller[q]
      /\ UNCHANGED <<store, now, grants, effects>>
  <2>1. CASE \E name \in ActionNames : Command(r, a, who, name)
    BY <1>0, <2>1 DEF Command, Arrive, Answer, Goto, TypeInv, TypeOK, Operations
  <2>2. CASE \E o \in Ops : Call(r, o, a, who)
    BY <1>0, <2>2, SafetyAssumption DEF Call, Arrive, Goto, TypeInv, TypeOK
  <2> QED BY <2>1, <2>2
<1>2. \A b \in ActionIds : r \notin grants[b]
  BY <1>0, <1>1 DEF RequestInv
<1>3. \/ op'[r] = "command" /\ Fresh(a)
         /\ \/ pc'[r] \in {"refused", "run_now"}
            \/ /\ pc'[r] = "request" /\ copy'[r].confirmation_count = 0
               /\ DefinitionOf(copy'[r]).approval_type # "none"
      \/ op'[r] # "command" /\ pc'[r] = "load"
  <2>1. CASE \E name \in ActionNames : Command(r, a, who, name)
    <3>1. PICK name \in ActionNames : Command(r, a, who, name)
      BY <2>1
    <3>2. op'[r] = "command" /\ Fresh(a)
      BY <1>0, <3>1 DEF Command, Arrive, TypeInv, TypeOK
    <3>3. CASE Answer(r, "refused")
      BY <1>0, <3>2, <3>3 DEF Answer, Goto, TypeInv, TypeOK
    <3>4. CASE ~Answer(r, "refused")
      <4>1. /\ copy'[r] = Draft(name, who)
            /\ pc'[r] = IF Definitions[name].approval_type = "none"
                          THEN "run_now" ELSE "request"
        BY <1>0, <3>1, <3>4 DEF Command, Goto, TypeInv, TypeOK
      <4> QED BY <3>2, <4>1 DEF Draft, DefinitionOf
    <3> QED BY <3>3, <3>4
  <2>2. CASE \E o \in Ops : Call(r, o, a, who)
    BY <1>0, <2>2, SafetyAssumption DEF Call, Arrive, Goto, TypeInv, TypeOK
  <2> QED BY <2>1, <2>2
<1>4. NewIds'
  BY <1>0, <1>1, <1>3 DEF NewIds, Fresh
<1>5. ASSUME NEW q \in Requests PROVE RequestInv(q)'
  <2>1. CASE q = r
    BY <1>1, <1>2, <1>3, <2>1 DEF RequestInv, Commanding, Changing, Fresh
  <2>2. CASE q # r
    <3>1. /\ Commanding(q)' = Commanding(q) /\ Changing(q)' = Changing(q)
          /\ RequestInv(q)
      BY <1>0, <1>1, <2>2 DEF Commanding, Changing
    <3>2. ASSUME Evidence(copy[q], grants[target[q]], caller, now),
                 Changing(q) \/ pc[q] = "store"
          PROVE  Evidence(copy[q], grants[target[q]], caller', now)
      <4>1. target[q] \in ActionIds /\ copy[q] \in PendingAction /\ now \in Nat
        BY <1>0, <3>2 DEF Changing, TypeInv, TypeOK, Shape, Carrying
      <4>2. \A s \in grants[target[q]] : caller'[s] = caller[s]
        BY <1>0, <1>1, <1>2, <4>1 DEF TypeInv, TypeOK
      <4> QED BY <3>2, <4>1, <4>2, EvidenceGrows
    <3> QED BY <1>1, <2>2, <3>1, <3>2 DEF RequestInv
  <2> QED BY <2>1, <2>2
<1>6. ASSUME NEW b \in ActionIds PROVE ActionInv(b)'
  <2>1. ActionInv(b) /\ grants[b] \subseteq Requests /\ now \in Nat
        /\ store[b] \in PendingAction \union {None}
    BY <1>0 DEF TypeInv, TypeOK
  <2>2. \A s \in grants[b] : caller'[s] = caller[s]
    BY <1>1, <1>2, <2>1
  <2>3. store[b] # None => Evidence(store[b], grants[b], caller', now)
    BY <2>1, <2>2, EvidenceGrows DEF ActionInv
  <2>4. Authorised(b)'
    BY <1>1, <2>1, <2>2 DEF ActionInv, Authorised, TookEffect
  <2>5. Delayed(b)' /\ TookEffect(b)' = TookEffect(b)
    BY <1>1, <2>1 DEF ActionInv, Delayed, TookEffect
  <2>6. \A q \in Requests : op[q] = "command" /\ target[q] = b /\ pc[q] = "done"
          => op'[q] = "command" /\ target'[q] = b /\ pc'[q] = "done"
    BY <1>1
  <2> QED BY <1>1, <2>1, <2>3, <2>4, <2>5, <2>6 DEF ActionInv
<1> QED BY <1>4, <1>5, <1>6 DEF SafetyInv

LEMMA RequestConfirmationInv ==
  ASSUME SafetyInv, TypeInv', NEW r \in Requests, RequestConfirmation(r)
  PROVE  SafetyInv'
<1> DEFINE p == copy[r]
           s == IF NeedsHuman(p) THEN "pending_human_approval" ELSE "pending_confirmation"
           q == [p EXCEPT !.status = s, !.expires_at = now + ConfirmWindow,
                          !.can_execute_at = now + DefinitionOf(p).confirmation_delay]
<1>1. /\ p \in PendingAction /\ op[r] = "command" /\ target[r] \in ActionIds
      /\ r \in InFlight /\ pc[r] = "request" /\ RequestInv(r)
      /\ UNCHANGED <<store, now, op, target, caller, history>>
  BY DEF SafetyInv, TypeInv, Shape, Carrying, RequestConfirmation, InFlight, Idle
<1>2. CASE Answer(r, "refused")
  BY <1>1, <1>2, AnsweredInv
<1>3. CASE ~Answer(r, "refused")
  <2>1. Change(r, q, "store")
    BY <1>3 DEF RequestConfirmation, Change, WaitingStatus
  <2>2. /\ q.status = s /\ q.action_name = p.action_name
        /\ q.confirmation_count = p.confirmation_count
    BY <1>1 DEF PendingAction
  <2>3. p.confirmation_count = 0 /\ DefinitionOf(p).approval_type # "none"
    BY <1>1 DEF RequestInv
  <2>4. q \in PendingAction
    <3>1. pc'[r] = "store" /\ copy'[r] = q
      BY <2>1 DEF Change, Goto, SafetyInv, TypeInv, TypeOK
    <3> HIDE DEF q
    <3> QED BY <3>1 DEF TypeInv, Shape, Carrying
  <2>5. Evidence(q, grants[target[r]], caller, now)
    <3> HIDE DEF q
    <3> QED BY <2>2, <2>3 DEF Evidence, NeedsHuman, DefinitionOf, Underway
  <2>6. store[target[r]] = None
    BY <1>1 DEF RequestInv, Commanding
  <2> HIDE DEF q
  <2> QED BY <1>1, <2>1, <2>4, <2>5, <2>6, ChangedInv
<1> QED BY <1>2, <1>3

LEMMA LoadInv ==
  ASSUME SafetyInv, TypeInv', NEW r \in Requests, Load(r)
  PROVE  SafetyInv'
<1> DEFINE p == store[target[r]]
<1>1. /\ op[r] # "command" /\ target[r] \in ActionIds /\ pc[r] = "load"
      /\ r \in InFlight /\ RequestInv(r) /\ ActionInv(target[r])
      /\ UNCHANGED <<store, now, op, target, caller, history>>
  BY DEF SafetyInv, TypeInv, Shape, Load, InFlight, Idle, redis
<1>2. CASE Answer(r, "refused")
  BY <1>1, <1>2, AnsweredInv
<1>3. CASE ~Answer(r, "refused")
  <2>1. Change(r, p, "decide") /\ p # None
    BY <1>3 DEF Load, Visible, Change
  <2>2. p \in PendingAction /\ SameAction(p, p)
    BY <1>1, <2>1 DEF SafetyInv, TypeInv, TypeOK, SameAction
  <2>3. Evidence(p, grants[target[r]], caller, now)
    BY <1>1, <2>1 DEF ActionInv
  <2>4. \A a \in ActionIds : r \in grants[a] => op[r] # "confirm"
    BY <1>1 DEF RequestInv
  <2> QED BY <1>1, <2>1, <2>2, <2>3, <2>4, ChangedInv
<1> QED BY <1>2, <1>3

\* The decisions that claim nothing new: reject, execute, rollback.
LEMMA DecisionInv ==
  ASSUME SafetyInv, TypeInv', NEW r \in Requests,
         RejectAction(r) \/ ExecuteAction(r) \/ RollbackAction(r)
  PROVE  SafetyInv'
<1> DEFINE p == copy[r]
           d == DefinitionOf(p)
           rejected == [p EXCEPT !.status = "rejected", !.approver_id = caller[r]]
           executing == [p EXCEPT !.status = "executing",
                                  !.rollback_expires_at =
                                    IF d.supports_rollback
                                      THEN now + d.rollback_window ELSE @]
           rolled_back == [p EXCEPT !.status = "rolled_back"]
<1>1. /\ p \in PendingAction /\ op[r] # "command" /\ op[r] # "confirm"
      /\ target[r] \in ActionIds /\ r \in InFlight /\ RequestInv(r) /\ Changing(r)
      /\ UNCHANGED <<store, now, op, target, caller, history>>
  BY DEF SafetyInv, TypeInv, Shape, Carrying, Deciding, InFlight, Idle, redis,
     RejectAction, ExecuteAction, RollbackAction, Changing
<1>2. /\ store[target[r]] # None /\ SameAction(p, store[target[r]])
      /\ Evidence(p, grants[target[r]], caller, now)
  BY <1>1 DEF RequestInv
<1>3. CASE Answer(r, "refused")
  BY <1>1, <1>3, AnsweredInv
<1>4. CASE ~Answer(r, "refused")
  <2>1. PICK q \in {rejected, executing, rolled_back} :
          /\ Change(r, q, "store")
          /\ \/ q.status = "rejected"
             \/ p.status \in Underway /\ q.status \in Underway
    <3>1. CASE RejectAction(r)
      BY <1>1, <1>4, <3>1 DEF RejectAction, Rejected, PendingAction
    <3>2. CASE ExecuteAction(r)
      BY <1>1, <1>4, <3>2 DEF ExecuteAction, Executable, PendingAction, Underway
    <3>3. CASE RollbackAction(r)
      BY <1>1, <1>4, <3>3 DEF RollbackAction, Reversible, PendingAction, Underway
    <3> QED BY <3>1, <3>2, <3>3
  <2>2. q \in PendingAction
    <3>1. pc'[r] = "store" /\ copy'[r] = q
      BY <2>1 DEF Change, Goto, SafetyInv, TypeInv, TypeOK
    <3> QED BY <3>1 DEF TypeInv, Shape, Carrying
  <2>3. /\ SameAction(q, p)
        /\ q.confirmation_count = p.confirmation_count
        /\ q.confirmed_at = p.confirmed_at
    BY <1>1, <2>1 DEF SameAction, PendingAction
  <2>4. SameAction(q, store[target[r]])
    BY <1>2, <2>3 DEF SameAction
  <2>5. Evidence(q, grants[target[r]], caller, now)
    BY <1>1, <1>2, <2>1, <2>2, <2>3, EvidenceIdle, EvidenceUnderway DEF SameAction
  <2> QED BY <1>1, <1>2, <2>1, <2>2, <2>4, <2>5, ChangedInv
<1> QED BY <1>3, <1>4

\* A request that is counted for its action and goes on with a copy that the
\* larger set of counted requests backs.
LEMMA GrantedInv ==
  ASSUME SafetyInv, TypeInv', NEW r \in Requests, pc[r] = "decide",
         op[r] # "command",
         NEW p \in PendingAction, NEW label \in {"store", "dequeue"},
         Change(r, p, label),
         grants' = [grants EXCEPT ![target[r]] = @ \union {r}],
         UNCHANGED <<store, now, op, target, caller, effects>>,
         SameAction(p, copy[r]),
         Evidence(p, grants[target[r]] \union {r}, caller, now)
  PROVE  SafetyInv'
<1> DEFINE a == target[r]
<1>0. TypeInv /\ NewIds /\ (\A q \in Requests : RequestInv(q))
        /\ (\A b \in ActionIds : ActionInv(b))
  BY DEF SafetyInv
<1>1. /\ a \in ActionIds /\ Changing(r) /\ now \in Nat
      /\ store[a] # None /\ SameAction(copy[r], store[a])
      /\ pc'[r] = label /\ copy'[r] = p
      /\ \A q \in Requests \ {r} : pc'[q] = pc[q] /\ copy'[q] = copy[q]
  BY <1>0 DEF Change, Goto, TypeInv, TypeOK, Shape, RequestInv, Changing
<1>2. /\ grants'[a] = grants[a] \union {r}
      /\ \A b \in ActionIds \ {a} : grants'[b] = grants[b]
      /\ \A b \in ActionIds : grants[b] \subseteq grants'[b] /\ grants[b] \subseteq Requests
  BY <1>0, <1>1 DEF TypeInv, TypeOK
<1>3. NewIds'
  BY <1>0 DEF NewIds
<1>4. ASSUME NEW q \in Requests PROVE RequestInv(q)'
  <2>1. CASE q = r
    <3>1. SameAction(p, store[a])
      BY <1>1 DEF SameAction
    <3> QED BY <1>1, <1>2, <2>1, <3>1 DEF RequestInv, Commanding, Changing
  <2>2. CASE q # r
    <3>1. /\ Commanding(q)' = Commanding(q) /\ Changing(q)' = Changing(q)
          /\ RequestInv(q)
      BY <1>0, <1>1, <2>2 DEF Commanding, Changing
    <3>2. ASSUME Changing(q) \/ pc[q] = "store"
          PROVE  Evidence(copy[q], grants'[target[q]], caller, now)
      <4>1. target[q] \in ActionIds /\ copy[q] \in PendingAction
        BY <1>0, <3>2 DEF Changing, TypeInv, Shape, Carrying
      <4>2. Evidence(copy[q], grants[target[q]], caller, now)
        BY <3>1, <3>2 DEF RequestInv
      <4> QED BY <1>1, <1>2, <4>1, <4>2, EvidenceGrows
    <3>3. \A b \in ActionIds : q \in grants'[b] <=> q \in grants[b]
      BY <1>2, <2>2
    <3> QED BY <1>1, <2>2, <3>1, <3>2, <3>3 DEF RequestInv
  <2> QED BY <2>1, <2>2
<1>5. ASSUME NEW b \in ActionIds PROVE ActionInv(b)'
  <2>1. ActionInv(b) /\ store[b] \in PendingAction \union {None}
    BY <1>0 DEF TypeInv, TypeOK
  <2>2. store[b] # None => Evidence(store[b], grants'[b], caller, now)
    BY <1>1, <1>2, <2>1, EvidenceGrows DEF ActionInv
  <2>3. Authorised(b)'
    BY <1>2, <2>1 DEF ActionInv, Authorised, TookEffect
  <2>4. Delayed(b)' /\ TookEffect(b)' = TookEffect(b)
    BY <2>1 DEF ActionInv, Delayed, TookEffect
  <2>5. store[b] = None => grants'[b] = {}
    BY <1>1, <1>2, <2>1 DEF ActionInv
  <2>6. \A q \in Requests : op[q] = "command" /\ pc[q] = "done" => pc'[q] = "done"
    BY <1>1
  <2> QED BY <2>1, <2>2, <2>3, <2>4, <2>5, <2>6 DEF ActionInv
<1> QED BY <1>3, <1>4, <1>5 DEF SafetyInv

LEMMA ConfirmInv ==
  ASSUME SafetyInv, TypeInv', NEW r \in Requests, ConfirmAction(r)
  PROVE  SafetyInv'
<1> DEFINE p == copy[r]
           g == grants[target[r]]
<1>1. /\ p \in PendingAction /\ op[r] = "confirm" /\ pc[r] = "decide"
      /\ target[r] \in ActionIds /\ r \in InFlight /\ RequestInv(r) /\ Changing(r)
      /\ now \in Nat /\ UNCHANGED <<store, now, op, target, caller, effects>>
  BY DEF SafetyInv, TypeInv, TypeOK, Shape, Carrying, Deciding, InFlight, Idle, redis,
     ConfirmAction, Changing
<1>2. /\ store[target[r]] # None /\ SameAction(p, store[target[r]])
      /\ Evidence(p, g, caller, now) /\ r \notin g
  BY <1>1 DEF RequestInv
<1>3. CASE Answer(r, "refused") /\ UNCHANGED grants
  BY <1>1, <1>3, AnsweredInv DEF history
<1>4. CASE /\ Change(r, [p EXCEPT !.status = "expired"], "store")
           /\ UNCHANGED grants
  <2> DEFINE q == [p EXCEPT !.status = "expired"]
  <2>1. q \in PendingAction
    BY <1>1, NewStatus DEF Status
  <2>2. q.status = "expired" /\ q.confirmation_count = p.confirmation_count /\ SameAction(q, p)
    BY <1>1 DEF PendingAction, SameAction
  <2>3. Evidence(q, g, caller, now) /\ SameAction(q, store[target[r]])
    <3> HIDE DEF q
    <3> QED BY <1>1, <1>2, <2>1, <2>2, EvidenceIdle DEF SameAction
  <2> HIDE DEF q
  <2>4. Change(r, q, "store")
    BY <1>4 DEF q
  <2> QED BY <1>1, <1>2, <1>4, <2>1, <2>3, <2>4, ChangedInv DEF history
<1>5. CASE /\ Confirmable(p) /\ ~Expired(p)
           /\ Change(r, Confirmed(p), "store")
           /\ grants' = [grants EXCEPT ![target[r]] = @ \union {r}]
  <2> DEFINE q == Confirmed(p)
  <2>1. q \in PendingAction
    BY <1>1, ConfirmedType
  <2>2. /\ SameAction(q, p)
        /\ q.confirmation_count = p.confirmation_count + 1
        /\ q.confirmed_at = now
        /\ \/ q.status = p.status
           \/ /\ q.status = "approved"
              /\ p.can_execute_at <= now
              /\ ConfirmedTwice(p) => q.confirmation_count >= 2
    BY <1>1 DEF Confirmed, SameAction, PendingAction
  <2>3. /\ NeedsHuman(q) = NeedsHuman(p) /\ ConfirmedTwice(q) = ConfirmedTwice(p)
        /\ DefinitionOf(q) = DefinitionOf(p) /\ q.can_execute_at = p.can_execute_at
        /\ q.expires_at = p.expires_at
    BY <2>2 DEF SameAction, NeedsHuman, ConfirmedTwice, DefinitionOf
  <2>4. p.confirmation_count \in Nat /\ p.can_execute_at \in Nat /\ p.expires_at \in Nat
    BY <1>1 DEF PendingAction
  <2>5. ~NeedsHuman(p) /\ p.status = "pending_confirmation"
    BY <1>2, <1>5 DEF Evidence, Confirmable
  <2>6. Evidence(q, g \union {r}, caller, now)
    <3> HIDE DEF q
    <3>1. DefinitionOf(q).approval_type # "none"
      BY <1>2, <2>3 DEF Evidence
    <3>2. q.confirmation_count > 1 => \E s, t \in g \union {r} : s # t
      BY <1>2, <2>2, <2>4 DEF Evidence
    <3>3. q.status \in Underway =>
            /\ q.confirmation_count > 0
            /\ ConfirmedTwice(q) => q.confirmation_count > 1
            /\ q.can_execute_at <= q.confirmed_at /\ q.confirmed_at <= q.expires_at
      BY <1>1, <1>5, <2>2, <2>3, <2>4, <2>5 DEF Underway, Expired
    <3>4. q.status # "pending_human_approval" /\ ~NeedsHuman(q)
      BY <2>2, <2>3, <2>5
    <3> QED BY <1>1, <2>2, <3>1, <3>2, <3>3, <3>4 DEF Evidence
  <2> HIDE DEF q
  <2>7. Change(r, q, "store")
    BY <1>5 DEF q
  <2> QED BY <1>1, <1>5, <2>1, <2>2, <2>6, <2>7, GrantedInv
<1> QED BY <1>1, <1>3, <1>4, <1>5 DEF ConfirmAction, Expired

LEMMA ApproveInv ==
  ASSUME SafetyInv, TypeInv', NEW r \in Requests, ApproveAction(r)
  PROVE  SafetyInv'
<1> DEFINE p == copy[r]
           q == [p EXCEPT !.status = "approved", !.approver_id = caller[r]]
<1>1. /\ p \in PendingAction /\ op[r] # "command" /\ pc[r] = "decide"
      /\ target[r] \in ActionIds /\ r \in InFlight /\ RequestInv(r) /\ Changing(r)
      /\ caller[r] \in Admins
      /\ UNCHANGED <<store, now, op, target, caller, effects>>
  BY DEF SafetyInv, TypeInv, TypeOK, Shape, Carrying, Deciding, InFlight, Idle, redis,
     ApproveAction, Changing
<1>2. Evidence(p, grants[target[r]], caller, now)
  BY <1>1 DEF RequestInv
<1>3. CASE Answer(r, "refused") /\ UNCHANGED grants
  BY <1>1, <1>3, AnsweredInv DEF history
<1>4. CASE ~(Answer(r, "refused") /\ UNCHANGED grants)
  <2>1. /\ p.status = "pending_human_approval" /\ caller[r] # p.initiated_by
        /\ Change(r, q, "dequeue")
        /\ grants' = [grants EXCEPT ![target[r]] = @ \union {r}]
    BY <1>4 DEF ApproveAction, Approvable
  <2>2. q \in PendingAction
    BY <1>1, NewStatus DEF Status
  <2>3. /\ SameAction(q, p) /\ q.status = "approved"
        /\ q.confirmation_count = p.confirmation_count
    BY <1>1 DEF SameAction, PendingAction
  <2>4. Evidence(q, grants[target[r]] \union {r}, caller, now)
    <3>1. NeedsHuman(p)
      BY <1>2, <2>1 DEF Evidence
    <3> HIDE DEF q
    <3> QED BY <1>2, <2>1, <2>3, <3>1
            DEF Evidence, SameAction, NeedsHuman, DefinitionOf
  <2> HIDE DEF q
  <2> QED BY <1>1, <2>1, <2>2, <2>3, <2>4, GrantedInv
<1> QED BY <1>3, <1>4

\* A copy is written to Redis, and the request goes on or stores a failure next.
LEMMA WrittenInv ==
  ASSUME SafetyInv, TypeInv', NEW r \in Requests, pc[r] = "store",
         store' = [store EXCEPT ![target[r]] = copy[r]],
         UNCHANGED <<now, target, caller, history>>,
         op'[r] = "command" <=> op[r] = "command",
         \/ pc'[r] \in {"load", "run", "dequeue", "done"}
         \/ /\ pc'[r] = "store" /\ op'[r] # "command" /\ SameAction(copy'[r], copy[r])
            /\ Evidence(copy'[r], grants[target[r]], caller, now),
         pc'[r] = "load" => op'[r] = "execute",
         pc'[r] = "run" => op'[r] = "execute" /\ copy[r].status = "executing",
         pc'[r] = "dequeue" => op'[r] # "command",
         pc'[r] \in {"run", "dequeue"} => copy'[r] = copy[r],
         \A q \in Requests \ {r} : pc'[q] = pc[q] /\ copy'[q] = copy[q] /\ op'[q] = op[q]
  PROVE  SafetyInv'
<1> DEFINE p == copy[r]
           a == target[r]
<1> USE DEF history
<1>0. TypeInv /\ NewIds /\ (\A q \in Requests : RequestInv(q))
        /\ (\A b \in ActionIds : ActionInv(b))
  BY DEF SafetyInv
<1>1. /\ p \in PendingAction /\ p # None /\ a \in ActionIds /\ pc[r] = "store"
      /\ store'[a] = p
      /\ \A b \in ActionIds \ {a} : store'[b] = store[b]
      /\ UNCHANGED <<now, target, caller, grants, effects>>
      /\ Evidence(p, grants[a], caller, now)
  BY <1>0, NoneAssumption DEF TypeInv, TypeOK, Shape, Carrying, RequestInv
<1>2. /\ op'[r] = "command" <=> op[r] = "command"
      /\ \/ pc'[r] \in {"load", "run", "dequeue", "done"}
         \/ /\ pc'[r] = "store" /\ op'[r] # "command" /\ SameAction(copy'[r], p)
            /\ Evidence(copy'[r], grants[a], caller, now)
      /\ pc'[r] = "load" => op'[r] = "execute"
      /\ pc'[r] = "run" => op'[r] = "execute" /\ p.status = "executing"
      /\ pc'[r] = "dequeue" => op'[r] # "command"
      /\ pc'[r] \in {"run", "dequeue"} => copy'[r] = p
      /\ \A q \in Requests \ {r} : pc'[q] = pc[q] /\ copy'[q] = copy[q] /\ op'[q] = op[q]
  OBVIOUS
\* Either the action is new, or it keeps what it was requested with.
<1>3. \/ op[r] = "command" /\ store[a] = None /\ effects[a] = <<>>
      \/ op[r] # "command" /\ store[a] # None /\ SameAction(p, store[a])
  <2>1. CASE op[r] = "command"
    <3>1. store[a] = None
      BY <1>0, <1>1, <2>1 DEF RequestInv, Commanding
    <3>2. ~\E q \in Requests : op[q] = "command" /\ target[q] = a /\ pc[q] = "done"
      BY <1>0, <1>1, <2>1 DEF NewIds
    <3> QED BY <1>0, <1>1, <2>1, <3>1, <3>2 DEF ActionInv, TookEffect
  <2>2. CASE op[r] # "command"
    BY <1>0, <1>1, <2>2 DEF RequestInv, Changing
  <2> QED BY <2>1, <2>2
<1>4. NewIds'
  BY <1>0, <1>1, <1>2 DEF NewIds
<1>5. ASSUME NEW q \in Requests PROVE RequestInv(q)'
  <2>1. CASE q = r
    <3>1. SameAction(p, p)
      BY DEF SameAction
    <3> QED BY <1>0, <1>1, <1>2, <2>1, <3>1 DEF RequestInv, Commanding, Changing
  <2>2. CASE q # r
    <3>1. RequestInv(q) /\ (Changing(q)' = Changing(q)) /\ (Commanding(q)' = Commanding(q))
          /\ (pc[q] \notin {"idle", "load", "refused", "done", "dead"} => target[q] \in ActionIds)
      BY <1>0, <1>2, <2>2 DEF Changing, Commanding, TypeInv, Shape
    <3>2. ASSUME Commanding(q) PROVE store'[target[q]] = None
      <4>1. target[q] # a
        BY <1>0, <1>1, <1>3, <2>2, <3>1, <3>2 DEF RequestInv, Commanding, NewIds
      <4> QED BY <1>1, <3>1, <3>2, <4>1 DEF RequestInv, Commanding
    <3>3. ASSUME Changing(q)
          PROVE  store'[target[q]] # None /\ SameAction(copy[q], store'[target[q]])
      <4>1. store[target[q]] # None /\ SameAction(copy[q], store[target[q]])
        BY <3>1, <3>3 DEF RequestInv
      <4>2. CASE target[q] = a
        BY <1>1, <1>3, <4>1, <4>2 DEF SameAction
      <4>3. CASE target[q] # a
        BY <1>1, <3>1, <3>3, <4>1, <4>3 DEF Changing
      <4> QED BY <4>2, <4>3
    <3> QED BY <1>1, <1>2, <2>2, <3>1, <3>2, <3>3 DEF RequestInv
  <2> QED BY <2>1, <2>2
<1>6. ASSUME NEW b \in ActionIds PROVE ActionInv(b)'
  <2>1. ActionInv(b)
    BY <1>0
  <2>2. CASE b # a
    <3>1. \A q \in Requests : op[q] = "command" /\ target[q] = b /\ pc[q] = "done"
            => op'[q] = "command" /\ target'[q] = b /\ pc'[q] = "done"
      BY <1>1, <1>2
    <3>2. store'[b] = store[b]
      BY <1>1, <2>2
    <3> QED BY <1>1, <2>1, <3>1, <3>2 DEF ActionInv, Authorised, Delayed, TookEffect
  <2>3. CASE b = a
    <3>1. Authorised(a)' /\ Delayed(a)'
      <4>1. CASE op[r] = "command" /\ store[a] = None /\ effects[a] = <<>>
        BY <1>1, <4>1 DEF Authorised, Delayed, TookEffect
      <4>2. CASE op[r] # "command" /\ store[a] # None /\ SameAction(p, store[a])
        <5>1. /\ DefinitionOf(p) = DefinitionOf(store[a])
              /\ NeedsHuman(p) = NeedsHuman(store[a])
              /\ p.can_execute_at = store[a].can_execute_at
              /\ p.initiated_by = store[a].initiated_by
          BY <4>2 DEF SameAction, DefinitionOf, NeedsHuman
        <5> QED BY <1>1, <2>1, <2>3, <4>2, <5>1
                DEF ActionInv, Authorised, Delayed, TookEffect
      <4> QED BY <1>3, <4>1, <4>2
    <3> QED BY <1>1, <2>3, <3>1 DEF ActionInv
  <2> QED BY <2>2, <2>3
<1> QED BY <1>4, <1>5, <1>6 DEF SafetyInv

LEMMA StoreInv ==
  ASSUME SafetyInv, TypeInv', NEW r \in Requests, StorePending(r)
  PROVE  SafetyInv'
<1>1. /\ pc[r] = "store" /\ store' = [store EXCEPT ![target[r]] = copy[r]]
      /\ UNCHANGED <<now, target, caller, history>>
  BY DEF StorePending
<1>2. /\ op'[r] = "command" <=> op[r] = "command"
      /\ pc'[r] \in {"load", "run", "dequeue", "done"}
      /\ pc'[r] = "load" => op'[r] = "execute"
      /\ pc'[r] = "run" => op'[r] = "execute" /\ copy[r].status = "executing"
      /\ pc'[r] = "dequeue" => op'[r] # "command"
      /\ pc'[r] \in {"run", "dequeue"} => copy'[r] = copy[r]
      /\ \A q \in Requests \ {r} : pc'[q] = pc[q] /\ copy'[q] = copy[q] /\ op'[q] = op[q]
  BY <1>1 DEF StorePending, Answer, Goto, SafetyInv, TypeInv, TypeOK
<1> QED BY <1>1, <1>2, WrittenInv

LEMMA DequeueInv ==
  ASSUME SafetyInv, TypeInv', NEW r \in Requests, Dequeue(r)
  PROVE  SafetyInv'
<1>1. /\ copy[r] \in PendingAction /\ op[r] # "command" /\ pc[r] = "dequeue"
      /\ r \in InFlight /\ RequestInv(r) /\ Changing(r)
      /\ UNCHANGED <<store, now, op, target, caller, history>>
  BY DEF SafetyInv, TypeInv, Shape, Carrying, InFlight, Idle, Dequeue, Changing
<1>2. CASE Answer(r, "done")
  BY <1>1, <1>2, AnsweredInv
<1>3. CASE ~Answer(r, "done")
  <2>1. Change(r, copy[r], "store")
    BY <1>3 DEF Dequeue, Change, SafetyInv, TypeInv, TypeOK
  <2>2. /\ store[target[r]] # None /\ SameAction(copy[r], store[target[r]])
        /\ Evidence(copy[r], grants[target[r]], caller, now)
    BY <1>1 DEF RequestInv
  <2> QED BY <1>1, <2>1, <2>2, ChangedInv
<1> QED BY <1>2, <1>3

\* A request that stores an outcome: the executor failed, or its outcome
\* could not be written.
LEMMA FailureInv ==
  ASSUME SafetyInv, TypeInv', NEW r \in Requests, pc[r] \in {"run", "store"},
         op[r] = "execute", copy[r].status \in {"executing", "completed"},
         Change(r, [copy[r] EXCEPT !.status = "failed"], "store"),
         UNCHANGED <<store, now, op, target, caller, history>>
  PROVE  SafetyInv'
<1> DEFINE p == copy[r]
           q == [p EXCEPT !.status = "failed"]
<1>1. p \in PendingAction /\ r \in InFlight /\ RequestInv(r) /\ Changing(r)
  BY DEF SafetyInv, TypeInv, Shape, Carrying, InFlight, Idle, Changing
<1>2. /\ store[target[r]] # None /\ SameAction(p, store[target[r]])
      /\ Evidence(p, grants[target[r]], caller, now)
  BY <1>1 DEF RequestInv
<1>3. q \in PendingAction
  BY <1>1, NewStatus DEF Status
<1>4. /\ SameAction(q, p) /\ q.status = "failed"
      /\ q.confirmation_count = p.confirmation_count
      /\ q.confirmed_at = p.confirmed_at
  BY <1>1 DEF SameAction, PendingAction
<1> HIDE DEF q
<1>5. SameAction(q, store[target[r]])
  BY <1>2, <1>4 DEF SameAction
<1>6. Evidence(q, grants[target[r]], caller, now)
  BY <1>1, <1>2, <1>3, <1>4, EvidenceUnderway DEF Underway
<1>7. Change(r, q, "store")
  BY DEF q
<1> QED BY <1>1, <1>2, <1>3, <1>5, <1>6, <1>7, ChangedInv

\* What the evidence of an action that is executing says of its effect.
LEMMA EffectJustified ==
  ASSUME NEW p \in PendingAction, NEW g, now \in Nat,
         Evidence(p, g, caller, now), p.status \in Underway
  PROVE  /\ DefinitionOf(p).approval_type = "simple" => g # {}
         /\ ConfirmedTwice(p) => \E r, s \in g : r # s
         /\ NeedsHuman(p) => \E r \in g : caller[r] # p.initiated_by
         /\ ~NeedsHuman(p) => p.can_execute_at <= now
<1>1. /\ p.can_execute_at \in Nat
      /\ p.confirmed_at \in Time
  BY DEF PendingAction
<1>2. CASE NeedsHuman(p)
  BY <1>2 DEF Evidence, NeedsHuman, ConfirmedTwice
<1>3. CASE ~NeedsHuman(p)
  <2>1. /\ p.can_execute_at <= p.confirmed_at /\ p.confirmed_at <= now
        /\ p.confirmation_count > 0
        /\ ConfirmedTwice(p) => p.confirmation_count > 1
    BY <1>3 DEF Evidence
  <2>2. p.can_execute_at <= now
    BY <1>1, <2>1 DEF Time, Never
  <2> QED BY <1>3, <2>1, <2>2 DEF Evidence
<1> QED BY <1>2, <1>3

\* The elements of a sequence with one more.
LEMMA Appended ==
  ASSUME NEW s \in Seq(Nat), NEW t \in Nat, NEW i \in DOMAIN Append(s, t)
  PROVE  Append(s, t)[i] = t \/ (i \in DOMAIN s /\ Append(s, t)[i] = s[i])
<1>1. /\ Len(Append(s, t)) = Len(s) + 1
      /\ \A j \in 1 .. Len(s) : Append(s, t)[j] = s[j]
      /\ Append(s, t)[Len(s) + 1] = t
  BY AppendProperties
<1>2. i \in 1 .. (Len(s) + 1) /\ DOMAIN s = 1 .. Len(s) /\ Len(s) \in Nat
  BY <1>1
<1>3. i = Len(s) + 1 \/ i \in 1 .. Len(s)
  BY <1>2
<1> QED BY <1>1, <1>2, <1>3

\* A pending action takes effect: the one step for which the evidence exists.
LEMMA EffectInv ==
  ASSUME SafetyInv, TypeInv', NEW r \in Requests, pc[r] = "run", TakesEffect(target[r]),
         Change(r, [copy[r] EXCEPT !.status = "completed"], "store"),
         UNCHANGED <<redis, now, op, target, caller, grants>>
  PROVE  SafetyInv'
<1> DEFINE p == copy[r]
           a == target[r]
           q == [p EXCEPT !.status = "completed"]
<1> USE DEF redis
<1>0. TypeInv /\ NewIds /\ (\A s \in Requests : RequestInv(s))
        /\ (\A b \in ActionIds : ActionInv(b)) /\ now \in Nat
  BY DEF SafetyInv, TypeInv, TypeOK
<1>1. /\ p \in PendingAction /\ a \in ActionIds /\ op[r] = "execute" /\ Changing(r)
      /\ p.status = "executing"
      /\ store[a] # None /\ store[a] \in PendingAction /\ SameAction(p, store[a])
      /\ Evidence(p, grants[a], caller, now)
  BY <1>0 DEF TypeInv, TypeOK, Shape, Carrying, RequestInv, Changing
<1>2. /\ pc'[r] = "store" /\ copy'[r] = q
      /\ \A s \in Requests \ {r} : pc'[s] = pc[s] /\ copy'[s] = copy[s]
  BY <1>0 DEF Change, Goto, TypeInv, TypeOK
<1>3. /\ q \in PendingAction /\ SameAction(q, p) /\ q.status = "completed"
      /\ q.confirmation_count = p.confirmation_count
      /\ q.confirmed_at = p.confirmed_at
  <2>1. q \in PendingAction
    BY <1>1, NewStatus DEF Status
  <2>2. /\ SameAction(q, p) /\ q.status = "completed"
        /\ q.confirmation_count = p.confirmation_count
        /\ q.confirmed_at = p.confirmed_at
    BY <1>1 DEF SameAction, PendingAction
  <2> QED BY <2>1, <2>2
<1>4. /\ effects[a] \in Seq(Nat) /\ effects'[a] = Append(effects[a], now)
      /\ \A b \in ActionIds \ {a} : effects'[b] = effects[b]
  BY <1>0, <1>1 DEF TakesEffect, TypeInv, TypeOK
<1> HIDE DEF q
<1>5. NewIds'
  BY <1>0 DEF NewIds
<1>6. ASSUME NEW s \in Requests PROVE RequestInv(s)'
  <2>1. CASE s = r
    <3>1. SameAction(q, store[a]) /\ Evidence(q, grants[a], caller, now)
      BY <1>1, <1>3, EvidenceUnderway DEF SameAction, Underway
    <3> QED BY <1>0, <1>1, <1>2, <2>1, <3>1 DEF RequestInv, Commanding, Changing
  <2>2. CASE s # r
    BY <1>0, <1>2, <2>2 DEF RequestInv, Commanding, Changing
  <2> QED BY <2>1, <2>2
<1>7. ASSUME NEW b \in ActionIds PROVE ActionInv(b)'
  <2>1. ActionInv(b)
    BY <1>0
  <2>2. \A s \in Requests : op[s] = "command" /\ pc[s] = "done" => pc'[s] = "done"
    BY <1>1, <1>2
  <2>3. CASE b # a
    BY <1>4, <2>1, <2>2, <2>3 DEF ActionInv, Authorised, Delayed, TookEffect
  <2>4. CASE b = a
    <3>1. /\ DefinitionOf(store[a]) = DefinitionOf(p)
          /\ NeedsHuman(store[a]) = NeedsHuman(p)
          /\ store[a].initiated_by = p.initiated_by
          /\ store[a].can_execute_at = p.can_execute_at
      BY <1>1 DEF SameAction, DefinitionOf, NeedsHuman
    <3>2. Authorised(a)'
      BY <1>0, <1>1, <3>1, EffectJustified
         DEF Authorised, Underway, NeedsHuman, ConfirmedTwice
    <3>3. Delayed(a)'
      <4>1. ~NeedsHuman(p) => p.can_execute_at <= now
        BY <1>0, <1>1, EffectJustified DEF Underway
      <4>2. \A i \in DOMAIN effects'[a] :
              effects'[a][i] = now \/ (i \in DOMAIN effects[a] /\ effects'[a][i] = effects[a][i])
        BY <1>0, <1>4, Appended
      <4>3. store[a].can_execute_at \in Nat
        BY <1>1 DEF PendingAction
      <4>4. ASSUME ~NeedsHuman(p), NEW i \in DOMAIN effects'[a]
            PROVE  effects'[a][i] >= p.can_execute_at
        BY <1>0, <1>1, <2>1, <2>4, <3>1, <4>1, <4>2, <4>3, <4>4 DEF ActionInv, Delayed
      <4> QED BY <3>1, <4>4 DEF Delayed
    <3> QED BY <1>1, <2>1, <2>4, <3>2, <3>3 DEF ActionInv
  <2> QED BY <2>3, <2>4
<1> QED BY <1>5, <1>6, <1>7 DEF SafetyInv

LEMMA RunExecutorInv ==
  ASSUME SafetyInv, TypeInv', NEW r \in Requests, RunExecutor(r)
  PROVE  SafetyInv'
<1>1. pc[r] = "run" /\ op[r] = "execute" /\ copy[r].status = "executing"
  BY DEF RunExecutor, SafetyInv, TypeInv, Shape, RequestInv
<1>2. CASE /\ TakesEffect(target[r])
           /\ Change(r, [copy[r] EXCEPT !.status = "completed"], "store")
  BY <1>1, <1>2, EffectInv DEF RunExecutor
<1>3. CASE /\ Change(r, [copy[r] EXCEPT !.status = "failed"], "store")
           /\ UNCHANGED effects
  BY <1>1, <1>3, FailureInv DEF RunExecutor, redis, history
<1> QED BY <1>2, <1>3 DEF RunExecutor

LEMMA StoreFailsInv ==
  ASSUME SafetyInv, TypeInv', NEW r \in Requests, StoreFails(r)
  PROVE  SafetyInv'
<1> DEFINE q == [copy[r] EXCEPT !.status = "failed"]
<1>1. /\ Change(r, q, "store") /\ pc[r] = "store" /\ op[r] = "execute"
      /\ copy[r].status = "completed" /\ UNCHANGED <<now, op, target, caller, history>>
  BY DEF StoreFails, Change, Goto, SafetyInv, TypeInv, TypeOK
<1>2. CASE UNCHANGED store
  BY <1>1, <1>2, FailureInv
<1>3. CASE store' = [store EXCEPT ![target[r]] = copy[r]]
  <2>1. copy[r] \in PendingAction /\ Evidence(copy[r], grants[target[r]], caller, now)
    BY <1>1 DEF SafetyInv, TypeInv, Shape, Carrying, RequestInv
  <2>2. q \in PendingAction
    BY <2>1, NewStatus DEF Status
  <2>3. /\ SameAction(q, copy[r]) /\ q.status = "failed"
        /\ q.confirmation_count = copy[r].confirmation_count
        /\ q.confirmed_at = copy[r].confirmed_at
    BY <2>1 DEF SameAction, PendingAction
  <2> HIDE DEF q
  <2>4. Evidence(q, grants[target[r]], caller, now)
    BY <1>1, <2>1, <2>2, <2>3, EvidenceUnderway DEF Underway
  <2>5. /\ pc'[r] = "store" /\ copy'[r] = q
        /\ \A s \in Requests \ {r} : pc'[s] = pc[s] /\ copy'[s] = copy[s]
    BY <1>1 DEF Change, Goto, SafetyInv, TypeInv, TypeOK
  <2> QED BY <1>1, <1>3, <2>3, <2>4, <2>5, WrittenInv
<1> QED BY <1>2, <1>3 DEF StoreFails

\* A read-only action leaves no pending action, only a command that is done.
LEMMA RunNowInv ==
  ASSUME SafetyInv, TypeInv', NEW r \in Requests, RunNow(r)
  PROVE  SafetyInv'
<1> USE DEF redis
<1>0. TypeInv /\ NewIds /\ (\A q \in Requests : RequestInv(q))
        /\ (\A b \in ActionIds : ActionInv(b))
  BY DEF SafetyInv
<1>1. /\ op[r] = "command" /\ target[r] \in ActionIds /\ store[target[r]] = None
      /\ r \in InFlight /\ Answer(r, "done") /\ pc[r] = "run_now"
      /\ UNCHANGED <<store, now, op, target, caller, grants>>
  BY <1>0 DEF RunNow, TypeInv, Shape, RequestInv, Commanding, InFlight, Idle
<1>2. CASE UNCHANGED effects
  BY <1>1, <1>2, AnsweredInv DEF history
<1>3. CASE TakesEffect(target[r])
  <2>1. /\ pc'[r] = "done"
        /\ \A q \in Requests \ {r} : pc'[q] = pc[q] /\ copy'[q] = copy[q]
        /\ \A b \in ActionIds \ {target[r]} : effects'[b] = effects[b]
    BY <1>0, <1>1, <1>3 DEF Answer, Goto, TakesEffect, TypeInv, TypeOK
  <2>2. NewIds'
    BY <1>0, <1>1 DEF NewIds
  <2>3. ASSUME NEW q \in Requests PROVE RequestInv(q)'
    <3>1. CASE q = r
      BY <1>0, <1>1, <2>1, <3>1 DEF RequestInv, Commanding, Changing
    <3>2. CASE q # r
      BY <1>0, <1>1, <2>1, <3>2 DEF RequestInv, Commanding, Changing
    <3> QED BY <3>1, <3>2
  <2>4. ASSUME NEW b \in ActionIds PROVE ActionInv(b)'
    <3>1. ActionInv(b)
      BY <1>0
    <3>2. \A q \in Requests : pc[q] = "done" => pc'[q] = "done"
      BY <2>1
    <3>3. CASE b = target[r]
      BY <1>1, <2>1, <3>1, <3>3 DEF ActionInv, Authorised, Delayed
    <3>4. CASE b # target[r]
      BY <1>1, <2>1, <3>1, <3>2, <3>4 DEF ActionInv, Authorised, Delayed, TookEffect
    <3> QED BY <3>3, <3>4
  <2> QED BY <2>2, <2>3, <2>4 DEF SafetyInv
<1> QED BY <1>2, <1>3 DEF RunNow

LEMMA CrashInv ==
  ASSUME SafetyInv, TypeInv', NEW r \in Requests, Crash(r)
  PROVE  SafetyInv'
BY AnsweredInv DEF Crash, redis

LEMMA TickInv ==
  ASSUME SafetyInv, TypeInv', Tick
  PROVE  SafetyInv'
<1> USE DEF redis, history
<1>0. TypeInv /\ NewIds /\ (\A q \in Requests : RequestInv(q))
        /\ (\A b \in ActionIds : ActionInv(b))
  BY DEF SafetyInv
<1>1. now \in Nat /\ now' \in Nat /\ now <= now'
      /\ UNCHANGED <<store, pc, op, target, caller, copy, grants, effects>>
  BY <1>0 DEF Tick, TypeInv, TypeOK
<1>2. NewIds'
  BY <1>0, <1>1 DEF NewIds
<1>3. ASSUME NEW q \in Requests PROVE RequestInv(q)'
  <2>1. ASSUME Changing(q) \/ pc[q] = "store"
        PROVE  Evidence(copy[q], grants[target[q]], caller, now')
    <3>1. copy[q] \in PendingAction
      BY <1>0, <2>1 DEF Changing, TypeInv, Shape, Carrying
    <3>2. Evidence(copy[q], grants[target[q]], caller, now)
      BY <1>0, <2>1 DEF RequestInv
    <3> QED BY <1>1, <3>1, <3>2, EvidenceGrows
  <2> QED BY <1>0, <1>1, <2>1 DEF RequestInv, Commanding, Changing
<1>4. ASSUME NEW a \in ActionIds PROVE ActionInv(a)'
  <2>1. ActionInv(a) /\ store[a] \in PendingAction \union {None}
    BY <1>0 DEF TypeInv, TypeOK
  <2>2. store[a] # None => Evidence(store[a], grants[a], caller, now')
    BY <1>1, <2>1, EvidenceGrows DEF ActionInv
  <2> QED BY <1>1, <2>1, <2>2 DEF ActionInv, Authorised, Delayed, TookEffect
<1> QED BY <1>2, <1>3, <1>4 DEF SafetyInv

LEMMA SafetyStep == SafetyInv /\ [Next]_vars => SafetyInv'
<1> SUFFICES ASSUME SafetyInv, [Next]_vars PROVE SafetyInv'
  OBVIOUS
<1>0. TypeInv'
  BY TypeStep DEF SafetyInv
<1>1. CASE \E r \in Requests, a \in ActionIds, who \in Admins :
             \/ \E name \in ActionNames : Command(r, a, who, name)
             \/ \E o \in Ops : Call(r, o, a, who)
  BY <1>0, <1>1, ArrivalInv
<1>2. ASSUME NEW r \in Requests, Handle(r) PROVE SafetyInv'
  <2>1. CASE RequestConfirmation(r)
    BY <1>0, <2>1, RequestConfirmationInv
  <2>2. CASE Load(r)
    BY <1>0, <2>2, LoadInv
  <2>3. CASE ConfirmAction(r)
    BY <1>0, <2>3, ConfirmInv
  <2>4. CASE ApproveAction(r)
    BY <1>0, <2>4, ApproveInv
  <2>5. CASE RejectAction(r) \/ ExecuteAction(r) \/ RollbackAction(r)
    BY <1>0, <2>5, DecisionInv
  <2>6. CASE StorePending(r)
    BY <1>0, <2>6, StoreInv
  <2>7. CASE Dequeue(r)
    BY <1>0, <2>7, DequeueInv
  <2>8. CASE RunExecutor(r)
    BY <1>0, <2>8, RunExecutorInv
  <2>9. CASE RunNow(r)
    BY <1>0, <2>9, RunNowInv
  <2>10. CASE StoreFails(r)
    BY <1>0, <2>10, StoreFailsInv
  <2> QED BY <1>2, <2>1, <2>2, <2>3, <2>4, <2>5, <2>6, <2>7, <2>8, <2>9, <2>10 DEF Handle
<1>3. CASE \E r \in Requests : Crash(r)
  BY <1>0, <1>3, CrashInv
<1>4. CASE Tick
  BY <1>0, <1>4, TickInv
<1>5. CASE UNCHANGED vars
  BY <1>5 DEF vars, redis, history, SafetyInv, TypeInv, TypeOK, Shape, Carrying, Idle,
    NewIds, RequestInv, Commanding, Changing, ActionInv, Authorised, Delayed,
    TookEffect, Evidence
<1> QED BY <1>1, <1>2, <1>3, <1>4, <1>5 DEF Next

(***************************************************************************)
(* The theorems.                                                           *)
(***************************************************************************)

\* What a stored action claims, and what a request is about to store, is
\* backed by requests that were counted, in every reachable state.
THEOREM SafetyInvariant == Spec => []SafetyInv
<1> QED BY SafetyInit, SafetyStep, PTL DEF Spec

\* No interleaving of the handlers, no lost write and no crash lets an action
\* take effect without the confirmations or the approval its level asks for.
THEOREM EffectsAuthorised == Spec => []AuthorisedEffects
<1>1. SafetyInv => AuthorisedEffects
  BY DEF SafetyInv, ActionInv, AuthorisedEffects
<1> QED BY <1>1, SafetyInvariant, PTL

\* No action that has to be confirmed takes effect before its can_execute_at.
THEOREM DelaysRespected == Spec => []DelayRespected
<1>1. SafetyInv => DelayRespected
  BY DEF SafetyInv, ActionInv, DelayRespected
<1> QED BY <1>1, SafetyInvariant, PTL

\* An action got past its confirmation only between the end of its delay and
\* the expiry of its request.
THEOREM ConfirmationsInTime == Spec => []ConfirmedInTime
<1>1. SafetyInv => ConfirmedInTime
  <2> SUFFICES ASSUME SafetyInv, NEW a \in ActionIds, store[a] # None,
                      ~NeedsHuman(store[a]), store[a].status \in Underway
               PROVE  store[a].confirmed_at \in store[a].can_execute_at .. store[a].expires_at
    BY DEF ConfirmedInTime
  <2>1. /\ store[a].can_execute_at <= store[a].confirmed_at
        /\ store[a].confirmed_at <= store[a].expires_at
    BY DEF SafetyInv, ActionInv, Evidence
  <2>2. /\ store[a].confirmed_at \in Int /\ store[a].can_execute_at \in Int
        /\ store[a].expires_at \in Int
    BY DEF SafetyInv, TypeInv, TypeOK, PendingAction, Time, Never
  <2> QED BY <2>1, <2>2
<1> QED BY <1>1, SafetyInvariant, PTL

(***************************************************************************)
(* The queue.  It covers the copy that a command is about to store before  *)
(* Redis shows it; a request that removes an action from the queue knows   *)
(* that it does not wait any more, or is about to store that.              *)
(***************************************************************************)

WaitsForHuman(a) == store[a] # None /\ store[a].status = "pending_human_approval"

QueueClaim(r) ==
  /\ pc[r] \in {"store", "dequeue"} /\ copy[r].status = "pending_human_approval" =>
       pc[r] = "store" /\ op[r] = "command" /\ target[r] \in queue
  /\ pc[r] = "dequeue" /\ op[r] = "reject" => ~WaitsForHuman(target[r])

QueueInv == QueueCoversPending /\ \A r \in Requests : QueueClaim(r)

\* At first no action waits.
LEMMA QueueInit == Init => QueueInv
BY DEF Init, QueueInv, QueueCoversPending, QueueClaim

\* A step that changes one request, adds to the queue or leaves it, and stores
\* nothing.
LEMMA QueueKept ==
  ASSUME QueueInv, NEW r \in Requests, UNCHANGED store, queue \subseteq queue',
         \A q \in Requests \ {r} : /\ pc'[q] = pc[q] /\ copy'[q] = copy[q]
                                   /\ op'[q] = op[q] /\ target'[q] = target[q],
         QueueClaim(r)',
         op[r] = "approve" /\ pc[r] \in {"store", "dead"} =>
           op'[r] = "approve" /\ target'[r] = target[r] /\ pc'[r] \in {"store", "dead"}
  PROVE  QueueInv'
<1>1. ASSUME NEW a \in ActionIds, WaitsForHuman(a)'
      PROVE  \/ a \in queue'
             \/ \E q \in Requests : /\ op'[q] = "approve" /\ target'[q] = a
                                    /\ pc'[q] \in {"store", "dead"}
  <2>1. WaitsForHuman(a)
    BY <1>1 DEF WaitsForHuman
  <2>2. CASE a \in queue
    BY <2>2
  <2>3. CASE a \notin queue
    <3>1. PICK q \in Requests : op[q] = "approve" /\ target[q] = a /\ pc[q] \in {"store", "dead"}
      BY <2>1, <2>3 DEF QueueInv, QueueCoversPending, WaitsForHuman
    <3>2. op'[q] = "approve" /\ target'[q] = a /\ pc'[q] \in {"store", "dead"}
      BY <3>1
    <3> QED BY <3>2
  <2> QED BY <2>2, <2>3
<1>2. ASSUME NEW q \in Requests PROVE QueueClaim(q)'
  <2>1. CASE q = r
    BY <2>1
  <2>2. CASE q # r
    BY <2>2 DEF QueueInv, QueueClaim, WaitsForHuman
  <2> QED BY <2>1, <2>2
<1> QED BY <1>1, <1>2 DEF QueueInv, QueueCoversPending, WaitsForHuman

\* The arrival of a request.
LEMMA QueueArrival ==
  ASSUME TypeInv, QueueInv, NEW r \in Requests, NEW a \in ActionIds, NEW who \in Admins,
         \/ \E name \in ActionNames : Command(r, a, who, name)
         \/ \E o \in Ops : Call(r, o, a, who)
  PROVE  QueueInv'
<1>0. TypeOK
  BY DEF TypeInv
<1>1. /\ pc[r] = "idle" /\ UNCHANGED <<store, queue>>
      /\ \A q \in Requests \ {r} : op'[q] = op[q] /\ target'[q] = target[q]
  BY <1>0 DEF Command, Call, Arrive, redis, TypeOK
<1>2. /\ \A q \in Requests \ {r} : pc'[q] = pc[q] /\ copy'[q] = copy[q]
      /\ pc'[r] \in {"refused", "run_now", "request", "load"}
  <2>1. CASE \E name \in ActionNames : Command(r, a, who, name)
    BY <1>0, <2>1 DEF Command, Answer, Goto, TypeOK
  <2>2. CASE \E o \in Ops : Call(r, o, a, who)
    BY <1>0, <2>2 DEF Call, Goto, TypeOK
  <2> QED BY <2>1, <2>2
<1>3. QueueClaim(r)'
  BY <1>2 DEF QueueClaim
<1> QED BY <1>1, <1>2, <1>3, QueueKept

\* The copy of a request that decides, or whose executor ran, does not wait for
\* a human any more.
LEMMA Decided ==
  ASSUME TypeInv, NEW r \in Requests,
         \/ ConfirmAction(r) \/ ApproveAction(r) \/ RejectAction(r) \/ ExecuteAction(r)
         \/ RollbackAction(r) \/ RunExecutor(r)
  PROVE  /\ pc[r] \in {"decide", "run"} /\ UNCHANGED <<redis, now, op, target, caller>>
         /\ op[r] # "command"
         /\ \/ Answer(r, "refused") /\ UNCHANGED effects
            \/ \E p \in PendingAction, l \in {"store", "dequeue"} :
                 /\ Change(r, p, l) /\ p.status # "pending_human_approval"
                 /\ l = "dequeue" => op[r] = "approve"
<1>1. pc[r] \in {"decide", "run"} /\ UNCHANGED <<redis, now, op, target, caller>>
  BY DEF ConfirmAction, ApproveAction, RejectAction, ExecuteAction, RollbackAction, RunExecutor,
     Deciding
<1>2. /\ copy[r] \in PendingAction /\ op[r] # "command" /\ caller[r] \in Admins /\ now \in Nat
  BY <1>1 DEF TypeInv, TypeOK, Shape, Carrying
<1>3. \A s \in Status : /\ [copy[r] EXCEPT !.status = s] \in PendingAction
                        /\ [copy[r] EXCEPT !.status = s].status = s
  BY <1>2, NewStatus DEF PendingAction
<1>10. ASSUME NEW s \in Status
       PROVE  /\ [copy[r] EXCEPT !.status = s, !.approver_id = caller[r]] \in PendingAction
              /\ [copy[r] EXCEPT !.status = s, !.approver_id = caller[r]].status = s
  <2>1. [copy[r] EXCEPT !.status = s, !.approver_id = caller[r]] \in PendingAction
    BY <1>2, NewStatus
  <2>2. [copy[r] EXCEPT !.status = s, !.approver_id = caller[r]].status = s
    BY <1>2 DEF PendingAction
  <2> QED BY <2>1, <2>2
<1>4. CASE ConfirmAction(r)
  <2>1. Confirmed(copy[r]) \in PendingAction
    BY <1>2, ConfirmedType
  <2>2. Confirmable(copy[r]) => Confirmed(copy[r]).status # "pending_human_approval"
    <3> DEFINE q == [copy[r] EXCEPT !.confirmation_count = @ + 1, !.confirmed_at = now]
    <3>1. Confirmed(copy[r]) = q \/ Confirmed(copy[r]) = [q EXCEPT !.status = "approved"]
      BY DEF Confirmed
    <3>2. q.status = copy[r].status /\ [q EXCEPT !.status = "approved"].status = "approved"
      BY <1>2 DEF PendingAction
    <3> HIDE DEF q
    <3> QED BY <3>1, <3>2 DEF Confirmable
  <2>3. "expired" \in Status
    BY DEF Status
  <2> QED BY <1>1, <1>2, <1>3, <1>4, <2>1, <2>2, <2>3 DEF ConfirmAction
<1>5. CASE ApproveAction(r)
  <2>1. CASE Approvable(copy[r], caller[r])
    <3>1. PICK p : p = [copy[r] EXCEPT !.status = "approved", !.approver_id = caller[r]]
      OBVIOUS
    <3>2. p \in PendingAction /\ p.status = "approved"
      BY <1>10, <3>1 DEF Status
    <3>3. Change(r, p, "dequeue") /\ op[r] = "approve"
      BY <1>5, <2>1, <3>1 DEF ApproveAction, Deciding
    <3> QED BY <1>1, <1>2, <3>2, <3>3
  <2> QED BY <1>1, <1>2, <1>5, <2>1 DEF ApproveAction
<1>6. CASE RejectAction(r)
  <2>1. /\ Rejected(copy[r], caller[r]) \in PendingAction
        /\ Rejected(copy[r], caller[r]).status = "rejected"
    BY <1>10 DEF Rejected, Status
  <2> QED BY <1>1, <1>2, <1>6, <2>1 DEF RejectAction, history
<1>7. CASE ExecuteAction(r)
  <2>1. CASE Executable(copy[r])
    <3>1. PICK t : Change(r, [copy[r] EXCEPT !.status = "executing", !.rollback_expires_at = t],
                          "store")
      BY <1>7, <2>1 DEF ExecuteAction
    <3>2. copy'[r] \in PendingAction
      <4>1. TypeInv'
        BY <1>7, HandlerType DEF Handle
      <4>2. pc'[r] = "store"
        BY <3>1 DEF Change, Goto, TypeInv, TypeOK
      <4> QED BY <4>1, <4>2 DEF TypeInv, Shape, Carrying
    <3>3. copy'[r] = [copy[r] EXCEPT !.status = "executing", !.rollback_expires_at = t]
      BY <3>1 DEF Change, TypeInv, TypeOK
    <3>4. PICK p : p = [copy[r] EXCEPT !.status = "executing", !.rollback_expires_at = t]
      OBVIOUS
    <3>5. p \in PendingAction /\ p.status = "executing"
      BY <1>2, <3>2, <3>3, <3>4 DEF PendingAction
    <3> QED BY <1>1, <1>2, <3>1, <3>4, <3>5
  <2> QED BY <1>1, <1>2, <1>7, <2>1 DEF ExecuteAction, history
<1>8. CASE RollbackAction(r)
  BY <1>1, <1>2, <1>3, <1>8 DEF RollbackAction, history, Status
<1>9. CASE RunExecutor(r)
  BY <1>1, <1>2, <1>3, <1>9 DEF RunExecutor, Status
<1> QED BY <1>4, <1>5, <1>6, <1>7, <1>8, <1>9

\* A request that goes on alone: nothing is stored and nothing leaves the queue.
LEMMA QueueGoesOn ==
  ASSUME TypeInv, QueueInv, NEW r \in Requests, UNCHANGED <<store, op, target>>,
         queue \subseteq queue', NEW p, NEW l,
         copy' = [copy EXCEPT ![r] = p], pc' = [pc EXCEPT ![r] = l],
         l \in {"store", "dequeue"} =>
           \/ p.status # "pending_human_approval"
           \/ l = "store" /\ op[r] = "command" /\ target[r] \in queue',
         l = "dequeue" => op[r] # "reject",
         pc[r] \in {"store", "dead"} => op[r] # "approve" \/ l \in {"store", "dead"}
  PROVE  QueueInv'
<1>1. /\ pc'[r] = l /\ copy'[r] = p
      /\ \A q \in Requests \ {r} : pc'[q] = pc[q] /\ copy'[q] = copy[q]
  BY DEF TypeInv, TypeOK
<1>2. QueueClaim(r)'
  BY <1>1 DEF QueueClaim
<1> QED BY <1>1, <1>2, QueueKept

\* The command enters the action in the queue before it stores it.
LEMMA QueueRequested ==
  ASSUME TypeInv, QueueInv, NEW r \in Requests, RequestConfirmation(r)
  PROVE  QueueInv'
<1>0. TypeOK /\ pc[r] = "request" /\ op[r] = "command" /\ copy[r] \in PendingAction
  BY DEF TypeInv, Shape, Carrying, RequestConfirmation
<1>1. UNCHANGED <<store, op, target>>
  BY DEF RequestConfirmation
<1>2. CASE Answer(r, "refused") /\ UNCHANGED queue
  BY <1>0, <1>1, <1>2, QueueGoesOn DEF Answer, Goto
<1>3. CASE ~(Answer(r, "refused") /\ UNCHANGED queue)
  <2>1. PICK t, u, q :
          /\ q = [copy[r] EXCEPT !.status = WaitingStatus(copy[r]), !.expires_at = t,
                                 !.can_execute_at = u]
          /\ copy' = [copy EXCEPT ![r] = q]
          /\ queue' = Enqueued(copy[r], target[r]) /\ pc' = [pc EXCEPT ![r] = "store"]
    BY <1>3 DEF RequestConfirmation, Goto
  <2>2. q.status = WaitingStatus(copy[r])
    BY <1>0, <2>1 DEF PendingAction
  <2>3. queue \subseteq queue' /\ (NeedsHuman(copy[r]) => target[r] \in queue')
    BY <2>1 DEF Enqueued
  <2>4. q.status # "pending_human_approval" \/ target[r] \in queue'
    BY <2>2, <2>3 DEF WaitingStatus
  <2> QED BY <1>0, <1>1, <2>1, <2>3, <2>4, QueueGoesOn
<1> QED BY <1>2, <1>3

\* A write to Redis.  Only a command stores an action that waits for a human.
LEMMA QueueStored ==
  ASSUME SafetyInv, QueueInv, NEW r \in Requests,
         StorePending(r) \/ (StoreFails(r) /\ store' = [store EXCEPT ![target[r]] = copy[r]])
  PROVE  QueueInv'
<1>0. /\ TypeOK /\ pc[r] = "store" /\ target[r] \in ActionIds /\ copy[r] \in PendingAction
      /\ copy[r] # None
  BY NoneAssumption DEF SafetyInv, TypeInv, Shape, Carrying, StorePending, StoreFails
<1>1. /\ store' = [store EXCEPT ![target[r]] = copy[r]]
      /\ UNCHANGED <<queue, target>>
      /\ \A q \in Requests \ {r} : pc'[q] = pc[q] /\ copy'[q] = copy[q] /\ op'[q] = op[q]
  BY <1>0 DEF StorePending, StoreFails, Goto, Answer, history, TypeOK
<1>2. /\ pc'[r] \in {"load", "run", "dequeue", "done", "store"}
      /\ pc'[r] = "dequeue" => op[r] = "reject" /\ copy'[r] = copy[r] /\ op'[r] = op[r]
      /\ pc'[r] = "store" => copy'[r].status = "failed"
  <2>1. CASE StorePending(r)
    BY <1>0, <2>1 DEF StorePending, Goto, Answer, TypeOK
  <2>2. CASE StoreFails(r)
    <3>1. pc'[r] = "store" /\ copy'[r] = [copy[r] EXCEPT !.status = "failed"]
      BY <1>0, <2>2 DEF StoreFails, TypeOK
    <3> QED BY <1>0, <3>1 DEF PendingAction
  <2> QED BY <2>1, <2>2
<1>3. copy[r].status = "pending_human_approval" => op[r] = "command" /\ target[r] \in queue
  BY <1>0 DEF QueueInv, QueueClaim
<1>4. ASSUME NEW a \in ActionIds, WaitsForHuman(a)'
      PROVE  \/ a \in queue'
             \/ \E q \in Requests : /\ op'[q] = "approve" /\ target'[q] = a
                                    /\ pc'[q] \in {"store", "dead"}
  <2>1. CASE a = target[r]
    BY <1>0, <1>1, <1>3, <1>4, <2>1 DEF WaitsForHuman, TypeOK
  <2>2. CASE a # target[r]
    <3>1. WaitsForHuman(a)
      BY <1>0, <1>1, <1>4, <2>2 DEF WaitsForHuman, TypeOK
    <3>2. CASE a \in queue
      BY <1>1, <3>2
    <3>3. CASE a \notin queue
      <4>1. PICK q \in Requests : op[q] = "approve" /\ target[q] = a /\ pc[q] \in {"store", "dead"}
        BY <3>1, <3>3 DEF QueueInv, QueueCoversPending, WaitsForHuman
      <4>2. op'[q] = "approve" /\ target'[q] = a /\ pc'[q] \in {"store", "dead"}
        BY <1>1, <2>2, <4>1
      <4> QED BY <4>2
    <3> QED BY <3>2, <3>3
  <2> QED BY <2>1, <2>2
<1>5. ASSUME NEW q \in Requests PROVE QueueClaim(q)'
  <2>1. CASE q = r
    <3>1. pc'[r] = "dequeue" => copy'[r].status # "pending_human_approval" /\ ~WaitsForHuman(target[r])'
      <4>1. pc'[r] = "dequeue" => copy[r].status # "pending_human_approval"
        BY <1>2, <1>3
      <4>2. store'[target[r]] = copy[r]
        BY <1>0, <1>1 DEF TypeOK
      <4> QED BY <1>1, <1>2, <4>1, <4>2 DEF WaitsForHuman
    <3> QED BY <1>2, <2>1, <3>1 DEF QueueClaim
  <2>2. CASE q # r
    <3>1. QueueClaim(q)
      BY DEF QueueInv
    <3>2. ASSUME pc'[q] = "dequeue", op'[q] = "reject" PROVE ~WaitsForHuman(target[q])'
      <4>1. pc[q] = "dequeue" /\ op[q] = "reject" /\ ~WaitsForHuman(target[q])
        BY <1>1, <2>2, <3>1, <3>2 DEF QueueClaim
      <4>2. target[q] = target[r] => copy[r].status # "pending_human_approval"
        <5>1. Changing(q) => store[target[q]] # None
          BY DEF SafetyInv, RequestInv
        <5>2. Commanding(r) => store[target[r]] = None
          BY DEF SafetyInv, RequestInv
        <5> QED BY <1>0, <1>3, <4>1, <5>1, <5>2 DEF Changing, Commanding
      <4>3. target[q] \in ActionIds
        BY <4>1 DEF SafetyInv, TypeInv, Shape
      <4> QED BY <1>0, <1>1, <4>1, <4>2, <4>3 DEF WaitsForHuman, TypeOK
    <3> QED BY <1>1, <2>2, <3>1, <3>2 DEF QueueClaim
  <2> QED BY <2>1, <2>2
<1> QED BY <1>4, <1>5 DEF QueueInv, QueueCoversPending, WaitsForHuman

\* A request leaves the queue: its action does not wait, or the request is about
\* to store that.
LEMMA QueueLeft ==
  ASSUME SafetyInv, QueueInv, NEW r \in Requests, Dequeue(r)
  PROVE  QueueInv'
<1>0. TypeOK /\ pc[r] = "dequeue" /\ target[r] \in ActionIds
  BY DEF SafetyInv, TypeInv, Shape, Dequeue
<1>1. /\ queue' = queue \ {target[r]} /\ UNCHANGED <<store, op, target>>
      /\ \A q \in Requests \ {r} : pc'[q] = pc[q] /\ copy'[q] = copy[q]
      /\ \/ op[r] = "approve" /\ pc'[r] = "store" /\ copy'[r] = copy[r]
         \/ op[r] = "reject" /\ pc'[r] = "done"
  BY <1>0 DEF Dequeue, Goto, Answer, history, TypeOK
<1>2. ASSUME NEW a \in ActionIds, WaitsForHuman(a)'
      PROVE  \/ a \in queue'
             \/ \E q \in Requests : /\ op'[q] = "approve" /\ target'[q] = a
                                    /\ pc'[q] \in {"store", "dead"}
  <2>1. WaitsForHuman(a)
    BY <1>1, <1>2 DEF WaitsForHuman
  <2>2. CASE a = target[r]
    <3>1. op[r] # "reject"
      BY <1>0, <2>1, <2>2 DEF QueueInv, QueueClaim
    <3> QED BY <1>1, <2>2, <3>1
  <2>3. CASE a # target[r] /\ a \in queue
    BY <1>1, <2>3
  <2>4. CASE a \notin queue
    <3>1. PICK q \in Requests : op[q] = "approve" /\ target[q] = a /\ pc[q] \in {"store", "dead"}
      BY <2>1, <2>4 DEF QueueInv, QueueCoversPending, WaitsForHuman
    <3>2. op'[q] = "approve" /\ target'[q] = a /\ pc'[q] \in {"store", "dead"}
      BY <1>0, <1>1, <3>1
    <3> QED BY <3>2
  <2> QED BY <2>2, <2>3, <2>4
<1>3. ASSUME NEW q \in Requests PROVE QueueClaim(q)'
  <2>1. CASE q = r
    BY <1>0, <1>1, <2>1 DEF QueueInv, QueueClaim
  <2>2. CASE q # r
    <3>1. QueueClaim(q)
      BY DEF QueueInv
    <3>2. ASSUME pc[q] = "store", op[q] = "command" PROVE target[q] # target[r]
      <4>1. store[target[q]] = None
        BY <3>2 DEF SafetyInv, RequestInv, Commanding
      <4>2. store[target[r]] # None
        BY <1>0, <1>1 DEF SafetyInv, RequestInv, Changing
      <4> QED BY <4>1, <4>2
    <3> QED BY <1>1, <2>2, <3>1, <3>2 DEF QueueClaim, WaitsForHuman
  <2> QED BY <2>1, <2>2
<1> QED BY <1>2, <1>3 DEF QueueInv, QueueCoversPending, WaitsForHuman

\* Every step keeps the actions that wait in the queue.
LEMMA QueueStep == SafetyInv /\ QueueInv /\ [Next]_vars => QueueInv'
<1> SUFFICES ASSUME SafetyInv, QueueInv, [Next]_vars PROVE QueueInv'
  OBVIOUS
<1>0. TypeInv /\ TypeOK
  BY DEF SafetyInv, TypeInv
<1>1. ASSUME NEW r \in Requests, Answer(r, "refused"), pc[r] \in {"decide", "run", "load"},
             UNCHANGED <<redis, op, target>>
      PROVE  QueueInv'
  BY <1>0, <1>1, QueueGoesOn DEF Answer, Goto, redis
<1>2. ASSUME NEW r \in Requests,
             \/ ConfirmAction(r) \/ ApproveAction(r) \/ RejectAction(r) \/ ExecuteAction(r)
             \/ RollbackAction(r) \/ RunExecutor(r)
      PROVE  QueueInv'
  <2>1. /\ pc[r] \in {"decide", "run"} /\ UNCHANGED <<redis, now, op, target, caller>>
        /\ \/ Answer(r, "refused")
           \/ \E p \in PendingAction, l \in {"store", "dequeue"} :
                /\ Change(r, p, l) /\ p.status # "pending_human_approval"
                /\ l = "dequeue" => op[r] = "approve"
    BY <1>0, <1>2, Decided
  <2>2. ASSUME NEW p \in PendingAction, NEW l \in {"store", "dequeue"}, Change(r, p, l),
               p.status # "pending_human_approval", l = "dequeue" => op[r] = "approve"
        PROVE  QueueInv'
    BY <1>0, <2>1, <2>2, QueueGoesOn DEF Change, Goto, redis
  <2> QED BY <1>1, <2>1, <2>2
<1>3. ASSUME NEW r \in Requests, Load(r) PROVE QueueInv'
  <2>1. pc[r] = "load" /\ UNCHANGED <<redis, op, target>>
    BY <1>3 DEF Load
  <2>2. CASE Answer(r, "refused")
    BY <1>1, <2>1, <2>2
  <2>3. CASE ~Answer(r, "refused")
    <3>1. copy' = [copy EXCEPT ![r] = store[target[r]]] /\ pc' = [pc EXCEPT ![r] = "decide"]
      BY <1>3, <2>3 DEF Load, Goto
    <3> QED BY <1>0, <2>1, <3>1, QueueGoesOn DEF redis
  <2> QED BY <2>2, <2>3
<1>4. ASSUME NEW r \in Requests, RunNow(r) PROVE QueueInv'
  <2>1. pc[r] = "run_now" /\ Answer(r, "done") /\ UNCHANGED <<redis, op, target>>
    BY <1>4 DEF RunNow
  <2> QED BY <1>0, <2>1, QueueGoesOn DEF Answer, Goto, redis
<1>5. ASSUME NEW r \in Requests, StoreFails(r), UNCHANGED store PROVE QueueInv'
  <2>1. /\ pc[r] = "store" /\ op[r] = "execute" /\ copy[r] \in PendingAction
        /\ UNCHANGED <<redis, op, target>>
        /\ copy' = [copy EXCEPT ![r] = [copy[r] EXCEPT !.status = "failed"]]
        /\ pc' = [pc EXCEPT ![r] = "store"]
    BY <1>0, <1>5 DEF StoreFails, TypeInv, TypeOK, Shape, Carrying, redis
  <2>2. [copy[r] EXCEPT !.status = "failed"].status = "failed"
    BY <2>1 DEF PendingAction
  <2> QED BY <1>0, <2>1, <2>2, QueueGoesOn DEF redis
<1>6. ASSUME NEW r \in Requests, Crash(r) PROVE QueueInv'
  <2>1. Answer(r, "dead") /\ UNCHANGED <<redis, op, target>>
    BY <1>6 DEF Crash
  <2> QED BY <1>0, <2>1, QueueGoesOn DEF Answer, Goto, redis
<1>7. CASE Tick \/ UNCHANGED vars
  <2>1. UNCHANGED <<store, queue, pc, op, target, copy>>
    BY <1>7 DEF Tick, vars, redis
  <2> QED BY <2>1 DEF QueueInv, QueueCoversPending, QueueClaim, WaitsForHuman
<1>8. CASE \E r \in Requests, a \in ActionIds, who \in Admins :
             \/ \E name \in ActionNames : Command(r, a, who, name)
             \/ \E o \in Ops : Call(r, o, a, who)
  BY <1>0, <1>8, QueueArrival
<1>9. ASSUME NEW r \in Requests, Handle(r) PROVE QueueInv'
  <2>1. StoreFails(r) =>
          UNCHANGED store \/ store' = [store EXCEPT ![target[r]] = copy[r]]
    BY DEF StoreFails
  <2> QED BY <1>0, <1>2, <1>3, <1>4, <1>5, <1>9, <2>1, QueueRequested, QueueStored, QueueLeft
          DEF Handle
<1> QED BY <1>6, <1>7, <1>8, <1>9 DEF Next

\* An action that waits for a human is listed in the queue, whatever interleaves
\* and whichever write is lost, unless the request that approves it is between its
\* two writes or died there.
THEOREM QueueCovered == Spec => []QueueCoversPending
<1>1. QueueInv => QueueCoversPending
  BY DEF QueueInv
<1> QED BY <1>1, QueueInit, QueueStep, SafetyInvariant, PTL DEF Spec

(***************************************************************************)
(* One request at a time.                                                  *)
(***************************************************************************)

Arrival(r) ==
  \E a \in ActionIds, who \in Admins :
    \/ \E name \in ActionNames : Command(r, a, who, name)
    \/ \E o \in Ops : Call(r, o, a, who)

\* A step of one request leaves the others where they are.
LEMMA Apart ==
  ASSUME TypeInv, NEW r \in Requests, Arrival(r) \/ Handle(r) \/ Crash(r),
         NEW q \in Requests, q # r
  PROVE  pc'[q] = pc[q] /\ copy'[q] = copy[q] /\ op'[q] = op[q] /\ target'[q] = target[q]
<1>0. TypeOK
  BY DEF TypeInv
<1>1. CASE Arrival(r)
  <2>1. PICK a, who : \/ \E name \in ActionNames : Command(r, a, who, name)
                      \/ \E o \in Ops : Call(r, o, a, who)
    BY <1>1 DEF Arrival
  <2>2. CASE \E name \in ActionNames : Command(r, a, who, name)
    BY <1>0, <2>2 DEF Command, Arrive, Answer, Goto, TypeOK
  <2>3. CASE \E o \in Ops : Call(r, o, a, who)
    BY <1>0, <2>3 DEF Call, Arrive, Goto, TypeOK
  <2> QED BY <2>1, <2>2, <2>3
<1>2. CASE Crash(r)
  BY <1>0, <1>2 DEF Crash, Answer, Goto, TypeOK
<1>3. CASE RequestConfirmation(r) \/ Load(r) \/ StorePending(r) \/ Dequeue(r) \/ RunNow(r)
  BY <1>0, <1>3 DEF RequestConfirmation, Load, StorePending, Dequeue, RunNow, Answer, Goto, TypeOK
<1>4. CASE StoreFails(r)
  BY <1>0, <1>4 DEF StoreFails, TypeOK
<1>5. CASE \/ ConfirmAction(r) \/ ApproveAction(r) \/ RejectAction(r) \/ ExecuteAction(r)
           \/ RollbackAction(r) \/ RunExecutor(r)
  <2>1. /\ UNCHANGED <<redis, now, op, target, caller>>
        /\ Answer(r, "refused") \/ \E p, l : Change(r, p, l)
    BY <1>5, Decided
  <2> QED BY <1>0, <2>1 DEF Answer, Change, Goto, TypeOK
<1> QED BY <1>1, <1>2, <1>3, <1>4, <1>5 DEF Handle

Alone == \A r, q \in Requests : pc[r] \notin Idle /\ pc[q] \notin Idle => r = q

\* No request is being handled at first.
LEMMA AloneInit == Init => Alone
BY DEF Init, Alone, Idle

\* A request arrives when none is being handled.
LEMMA AloneStep == Serial => (TypeInv /\ Alone /\ [Next]_vars => Alone')
<1> SUFFICES ASSUME Serial, TypeInv, Alone, [Next]_vars PROVE Alone'
  OBVIOUS
<1>1. ASSUME NEW r \in Requests, Arrival(r) PROVE Alone'
  <2>1. InFlight = {}
    BY <1>1 DEF Arrival, Command, Call, Arrive
  <2> QED BY <1>1, <2>1, Apart DEF Alone, InFlight
<1>2. ASSUME NEW r \in Requests, Handle(r) \/ Crash(r) PROVE Alone'
  <2>1. pc[r] \notin Idle
    BY <1>2 DEF Handle, RequestConfirmation, Load, ConfirmAction, ApproveAction, RejectAction,
       ExecuteAction, RollbackAction, Deciding, StorePending, Dequeue, RunExecutor, RunNow,
       StoreFails, Crash, InFlight, Idle
  <2> QED BY <1>2, <2>1, Apart DEF Alone
<1>3. CASE Tick \/ UNCHANGED vars
  BY <1>3 DEF Tick, vars, Alone
<1> QED BY <1>1, <1>2, <1>3 DEF Next, Arrival

\* Requests that are handled one at a time are never handled together.
LEMMA AloneInvariant ==
  ASSUME Serial
  PROVE  Spec => []Alone
<1>1. TypeInv /\ Alone /\ [Next]_vars => Alone'
  BY AloneStep
<1> QED BY <1>1, AloneInit, TypeInvariant, PTL DEF Spec

(***************************************************************************)
(* The lifecycle of an action when its requests come one at a time: what a *)
(* request decided on its copy is still so when it stores the copy.        *)
(***************************************************************************)

PhaseOf(a) == IF store[a] = None THEN "absent" ELSE store[a].status
RunsOf(a) == Len(effects[a])

Waits == {"pending_confirmation", "pending_human_approval"}
Ran == {"executing", "completed", "failed", "rolled_back"}

\* The change of phase that a request is about to store.
Writes(r) ==
  LET from == PhaseOf(target[r])
      to == copy[r].status
  IN \/ op[r] = "command" /\ from = "absent" /\ to \in Waits
     \/ /\ op[r] = "confirm" /\ from = "pending_confirmation"
        /\ to \in {"pending_confirmation", "approved", "expired"}
     \/ op[r] = "approve" /\ from = "pending_human_approval" /\ to = "approved"
     \/ op[r] = "reject" /\ from \in Waits /\ to = "rejected"
     \/ op[r] = "execute" /\ from = "approved" /\ to = "executing"
     \/ op[r] = "execute" /\ from \in {"executing", "completed"} /\ to = "failed"
     \/ op[r] = "execute" /\ from = "executing" /\ to = "completed" /\ RunsOf(target[r]) = 1
     \/ op[r] = "rollback" /\ from = "completed" /\ to = "rolled_back"

LifecycleClaim(r) ==
  /\ pc[r] = "decide" => copy[r] = store[target[r]]
  /\ pc[r] = "store" => Writes(r)
  /\ pc[r] = "dequeue" =>
       \/ op[r] = "approve" /\ Writes(r)
       \/ op[r] = "reject" /\ PhaseOf(target[r]) = "rejected"
  /\ pc[r] = "run" => PhaseOf(target[r]) = "executing" /\ RunsOf(target[r]) = 0

LifecycleInv ==
  /\ \A a \in ActionIds :
       /\ RunsOf(a) <= 1
       /\ RunsOf(a) # 0 => PhaseOf(a) \in Ran \union {"absent"}
       /\ Rejections(a) # {} => PhaseOf(a) = "rejected"
  /\ \A r \in Requests : LifecycleClaim(r)

\* No action exists at first.
LEMMA LifecycleInit == Init => LifecycleInv
BY EmptySeq DEF Init, LifecycleInv, LifecycleClaim, RunsOf, Rejections

\* The mapping to the abstract specification.
Phase == [a \in ActionIds |-> IF store[a] = None THEN "absent" ELSE store[a].status]
Runs == [a \in ActionIds |-> Len(effects[a])]

\* A step of one request that neither stores the action nor runs it is a stutter.
LEMMA LifecycleKept ==
  ASSUME TypeInv, Alone, LifecycleInv, NEW r \in Requests, Arrival(r) \/ Handle(r) \/ Crash(r),
         UNCHANGED <<store, effects>>, pc[r] \in Idle => InFlight = {},
         LifecycleClaim(r)',
         pc'[r] = "done" /\ op'[r] = "reject" => PhaseOf(target'[r]) = "rejected"
  PROVE  LifecycleInv' /\ UNCHANGED <<Phase, Runs>>
<1>1. \A q \in Requests \ {r} : pc[q] \in Idle
  BY DEF Alone, InFlight
<1>2. \A q \in Requests \ {r} : LifecycleClaim(q)'
  BY <1>1, Apart DEF LifecycleClaim, Idle
<1>3. ASSUME NEW a \in ActionIds, Rejections(a)' # {} PROVE PhaseOf(a)' = "rejected"
  <2>1. PICK q \in Requests : op'[q] = "reject" /\ target'[q] = a /\ pc'[q] = "done"
    BY <1>3 DEF Rejections
  <2>2. CASE q = r
    BY <2>1, <2>2 DEF PhaseOf
  <2>3. CASE q # r
    <3>1. q \in Rejections(a)
      BY <2>1, <2>3, Apart DEF Rejections
    <3> QED BY <3>1 DEF LifecycleInv, PhaseOf
  <2> QED BY <2>2, <2>3
<1>4. UNCHANGED <<Phase, Runs>> /\ \A a \in ActionIds : PhaseOf(a)' = PhaseOf(a) /\ RunsOf(a)' = RunsOf(a)
  BY DEF Phase, Runs, PhaseOf, RunsOf
<1> QED BY <1>2, <1>3, <1>4 DEF LifecycleInv

\* An action that a request is about to create, or to run at once, never ran.
LEMMA NeverRan ==
  ASSUME SafetyInv, NEW r \in Requests, pc[r] \in {"request", "run_now", "store"},
         op[r] = "command"
  PROVE  /\ target[r] \in ActionIds /\ store[target[r]] = None /\ RunsOf(target[r]) = 0
         /\ effects[target[r]] = <<>>
<1>1. target[r] \in ActionIds /\ store[target[r]] = None
  BY DEF SafetyInv, TypeInv, Shape, RequestInv, Commanding
<1>2. ~TookEffect(target[r])
  <2>1. ASSUME NEW q \in Requests, op[q] = "command", target[q] = target[r], pc[q] = "done"
        PROVE  FALSE
    BY <2>1 DEF SafetyInv, NewIds
  <2> QED BY <1>1, <2>1 DEF SafetyInv, ActionInv
<1> QED BY <1>1, <1>2, EmptySeq DEF TookEffect, RunsOf

\* A request arrives, with nothing to claim.
LEMMA LifecycleArrival ==
  ASSUME TypeInv, Alone, LifecycleInv, Serial, NEW r \in Requests, Arrival(r)
  PROVE  LifecycleInv' /\ UNCHANGED <<Phase, Runs>>
<1>0. TypeOK
  BY DEF TypeInv
<1>1. UNCHANGED <<store, effects>> /\ InFlight = {}
  BY DEF Arrival, Command, Call, Arrive, redis, history
<1>2. pc'[r] \in {"refused", "run_now", "request", "load"}
  <2>1. PICK a, who : \/ \E name \in ActionNames : Command(r, a, who, name)
                      \/ \E o \in Ops : Call(r, o, a, who)
    BY DEF Arrival
  <2>2. CASE \E name \in ActionNames : Command(r, a, who, name)
    BY <1>0, <2>2 DEF Command, Answer, Goto, TypeOK
  <2>3. CASE \E o \in Ops : Call(r, o, a, who)
    BY <1>0, <2>3 DEF Call, Goto, TypeOK
  <2> QED BY <2>1, <2>2, <2>3
<1>3. LifecycleClaim(r)'
  BY <1>2 DEF LifecycleClaim
<1> QED BY <1>1, <1>2, <1>3, LifecycleKept

\* The decisions on the copy that was read.
LEMMA LifecycleDecided ==
  ASSUME TypeInv, Alone, LifecycleInv, NEW r \in Requests,
         \/ ConfirmAction(r) \/ ApproveAction(r) \/ RejectAction(r) \/ ExecuteAction(r)
         \/ RollbackAction(r)
  PROVE  LifecycleInv' /\ UNCHANGED <<Phase, Runs>>
<1>0. TypeOK
  BY DEF TypeInv
<1>1. /\ UNCHANGED <<store, effects, op, target>> /\ Handle(r) /\ pc[r] = "decide"
      /\ copy[r] \in PendingAction /\ target[r] \in ActionIds /\ copy[r] = store[target[r]]
      /\ PhaseOf(target[r]) = copy[r].status
  <2>1. /\ UNCHANGED <<store, effects, op, target>> /\ Handle(r) /\ pc[r] = "decide"
    BY DEF ConfirmAction, ApproveAction, RejectAction, ExecuteAction, RollbackAction, Deciding,
       redis, history, Handle
  <2>2. copy[r] \in PendingAction /\ target[r] \in ActionIds /\ copy[r] = store[target[r]]
    BY <2>1 DEF TypeInv, Shape, Carrying, LifecycleInv, LifecycleClaim
  <2> QED BY <2>1, <2>2, NoneAssumption DEF PhaseOf
<1>2. ASSUME Answer(r, "refused") PROVE LifecycleInv' /\ UNCHANGED <<Phase, Runs>>
  <2>1. pc'[r] = "refused"
    BY <1>0, <1>2 DEF Answer, Goto, TypeOK
  <2>2. LifecycleClaim(r)'
    BY <2>1 DEF LifecycleClaim
  <2> QED BY <1>1, <2>1, <2>2, LifecycleKept DEF Idle
<1>3. ASSUME NEW p, NEW l \in {"store", "dequeue"}, Change(r, p, l),
             l = "dequeue" => op[r] = "approve",
             \/ /\ op[r] = "confirm" /\ copy[r].status = "pending_confirmation"
                /\ p.status \in {"pending_confirmation", "approved", "expired"}
             \/ /\ op[r] = "approve" /\ copy[r].status = "pending_human_approval"
                /\ p.status = "approved"
             \/ op[r] = "reject" /\ copy[r].status \in Waits /\ p.status = "rejected"
             \/ op[r] = "execute" /\ copy[r].status = "approved" /\ p.status = "executing"
             \/ op[r] = "rollback" /\ copy[r].status = "completed" /\ p.status = "rolled_back"
      PROVE  LifecycleInv' /\ UNCHANGED <<Phase, Runs>>
  <2>1. pc'[r] = l /\ copy'[r] = p
    BY <1>0, <1>3 DEF Change, Goto, TypeOK
  <2>2. op'[r] = op[r] /\ target'[r] = target[r] /\ PhaseOf(target[r])' = copy[r].status
    BY <1>1 DEF PhaseOf
  <2>3. Writes(r)'
    BY <1>3, <2>1, <2>2 DEF Writes
  <2>4. LifecycleClaim(r)'
    BY <1>3, <2>1, <2>2, <2>3 DEF LifecycleClaim
  <2> QED BY <1>1, <2>1, <2>4, LifecycleKept DEF Idle
<1>4. CASE Answer(r, "refused")
  BY <1>2, <1>4
<1>5. CASE ConfirmAction(r) /\ ~Answer(r, "refused")
  <2>1. op[r] = "confirm" /\ copy[r].status = "pending_confirmation"
    BY <1>5 DEF ConfirmAction, Deciding, Confirmable
  <2>2. Confirmed(copy[r]).status \in {"pending_confirmation", "approved"}
    <3> DEFINE q == [copy[r] EXCEPT !.confirmation_count = @ + 1, !.confirmed_at = now]
    <3>1. Confirmed(copy[r]) = q \/ Confirmed(copy[r]) = [q EXCEPT !.status = "approved"]
      BY DEF Confirmed
    <3>2. q.status = copy[r].status /\ [q EXCEPT !.status = "approved"].status = "approved"
      BY <1>1 DEF PendingAction
    <3> HIDE DEF q
    <3> QED BY <2>1, <3>1, <3>2
  <2>3. [copy[r] EXCEPT !.status = "expired"].status = "expired"
    BY <1>1 DEF PendingAction
  <2>4. \/ Change(r, [copy[r] EXCEPT !.status = "expired"], "store")
        \/ Change(r, Confirmed(copy[r]), "store")
    BY <1>5 DEF ConfirmAction
  <2> QED BY <1>3, <2>1, <2>2, <2>3, <2>4
<1>6. CASE ApproveAction(r) /\ ~Answer(r, "refused")
  <2>1. PICK p : p = [copy[r] EXCEPT !.status = "approved", !.approver_id = caller[r]]
    OBVIOUS
  <2>2. /\ op[r] = "approve" /\ copy[r].status = "pending_human_approval"
        /\ Change(r, p, "dequeue")
    BY <1>6, <2>1 DEF ApproveAction, Deciding, Approvable
  <2>3. p.status = "approved"
    BY <1>1, <2>1 DEF PendingAction
  <2> QED BY <1>3, <2>2, <2>3
<1>7. CASE RejectAction(r) /\ ~Answer(r, "refused")
  <2>1. /\ op[r] = "reject" /\ copy[r].status \in Waits
        /\ Change(r, Rejected(copy[r], caller[r]), "store")
    BY <1>7 DEF RejectAction, Deciding, Waits
  <2>2. Rejected(copy[r], caller[r]).status = "rejected"
    BY <1>1 DEF PendingAction, Rejected
  <2> QED BY <1>3, <2>1, <2>2
<1>8. CASE ExecuteAction(r) /\ ~Answer(r, "refused")
  <2>1. PICK t, p : /\ p = [copy[r] EXCEPT !.status = "executing", !.rollback_expires_at = t]
                    /\ Change(r, p, "store")
    BY <1>8 DEF ExecuteAction
  <2>2. op[r] = "execute" /\ copy[r].status = "approved"
    BY <1>8 DEF ExecuteAction, Deciding, Executable
  <2>3. p.status = "executing"
    BY <1>1, <2>1 DEF PendingAction
  <2> QED BY <1>3, <2>1, <2>2, <2>3
<1>9. CASE RollbackAction(r) /\ ~Answer(r, "refused")
  <2>1. /\ op[r] = "rollback" /\ copy[r].status = "completed"
        /\ Change(r, [copy[r] EXCEPT !.status = "rolled_back"], "store")
    BY <1>9 DEF RollbackAction, Deciding, Reversible
  <2>2. [copy[r] EXCEPT !.status = "rolled_back"].status = "rolled_back"
    BY <1>1 DEF PendingAction
  <2> QED BY <1>3, <2>1, <2>2
<1> QED BY <1>4, <1>5, <1>6, <1>7, <1>8, <1>9

\* The steps that neither decide, nor store, nor run.
LEMMA LifecycleMoved ==
  ASSUME SafetyInv, Alone, LifecycleInv, NEW r \in Requests,
         \/ RequestConfirmation(r) \/ Load(r) \/ Dequeue(r) \/ Crash(r)
         \/ StoreFails(r) /\ UNCHANGED store
  PROVE  LifecycleInv' /\ UNCHANGED <<Phase, Runs>>
<1>0. TypeOK /\ TypeInv /\ LifecycleClaim(r)
  BY DEF SafetyInv, TypeInv, LifecycleInv
<1>1. /\ UNCHANGED <<store, effects, op, target>> /\ (Handle(r) \/ Crash(r)) /\ pc[r] \notin Idle
      /\ target[r] \in ActionIds
  <2>1. UNCHANGED <<store, effects, op, target>> /\ (Handle(r) \/ Crash(r)) /\ pc[r] \notin Idle
    BY DEF RequestConfirmation, Load, Dequeue, StoreFails, Crash, redis, history, Handle, InFlight,
       Idle
  <2> QED BY <1>0, <2>1 DEF TypeInv, Shape, Idle
<1>2. PhaseOf(target[r])' = PhaseOf(target[r]) /\ RunsOf(target[r])' = RunsOf(target[r])
  BY <1>1 DEF PhaseOf, RunsOf
<1>3. ASSUME LifecycleClaim(r)', pc'[r] = "done" => op[r] # "reject" \/ PhaseOf(target[r]) = "rejected"
      PROVE  LifecycleInv' /\ UNCHANGED <<Phase, Runs>>
  BY <1>0, <1>1, <1>3, LifecycleKept
<1>4. ASSUME NEW o \in {"refused", "dead"}, Answer(r, o)
      PROVE  LifecycleInv' /\ UNCHANGED <<Phase, Runs>>
  <2>1. pc'[r] = o
    BY <1>0, <1>4 DEF Answer, Goto, TypeOK
  <2>2. LifecycleClaim(r)'
    BY <2>1 DEF LifecycleClaim
  <2> QED BY <1>3, <2>1, <2>2
<1>5. CASE RequestConfirmation(r) /\ ~Answer(r, "refused")
  <2>1. pc[r] = "request" /\ op[r] = "command" /\ copy[r] \in PendingAction
    BY <1>0, <1>5 DEF RequestConfirmation, TypeInv, Shape, Carrying
  <2>2. PICK t, u, q :
          /\ q = [copy[r] EXCEPT !.status = WaitingStatus(copy[r]), !.expires_at = t,
                                 !.can_execute_at = u]
          /\ copy' = [copy EXCEPT ![r] = q] /\ pc' = [pc EXCEPT ![r] = "store"]
    BY <1>5 DEF RequestConfirmation, Goto
  <2>3. q.status \in Waits
    BY <2>1, <2>2 DEF PendingAction, WaitingStatus, Waits
  <2>4. PhaseOf(target[r]) = "absent"
    BY <2>1, NeverRan DEF PhaseOf
  <2>5. pc'[r] = "store" /\ copy'[r] = q
    BY <1>0, <2>2 DEF TypeOK
  <2>6. Writes(r)'
    BY <1>1, <1>2, <2>1, <2>3, <2>4, <2>5 DEF Writes
  <2>7. LifecycleClaim(r)'
    BY <2>5, <2>6 DEF LifecycleClaim
  <2> QED BY <1>3, <2>5, <2>7
<1>6. CASE Load(r) /\ ~Answer(r, "refused")
  <2>1. pc'[r] = "decide" /\ copy'[r] = store[target[r]]
    BY <1>0, <1>6 DEF Load, Goto, TypeOK
  <2>2. LifecycleClaim(r)'
    BY <1>1, <2>1 DEF LifecycleClaim
  <2> QED BY <1>3, <2>1, <2>2
<1>7. CASE Dequeue(r)
  <2>1. /\ pc[r] = "dequeue"
        /\ \/ op[r] = "approve" /\ pc'[r] = "store" /\ copy'[r] = copy[r]
           \/ op[r] = "reject" /\ pc'[r] = "done"
    BY <1>0, <1>7 DEF Dequeue, Answer, Goto, TypeOK
  <2>2. CASE op[r] = "approve" /\ pc'[r] = "store" /\ copy'[r] = copy[r]
    <3>1. Writes(r)
      BY <1>0, <2>1, <2>2 DEF LifecycleClaim
    <3>2. Writes(r)'
      BY <1>1, <1>2, <2>2, <3>1 DEF Writes
    <3>3. LifecycleClaim(r)'
      BY <2>2, <3>2 DEF LifecycleClaim
    <3> QED BY <1>3, <2>2, <3>3
  <2>3. CASE op[r] = "reject" /\ pc'[r] = "done"
    <3>1. LifecycleClaim(r)' /\ PhaseOf(target[r]) = "rejected"
      BY <1>0, <2>1, <2>3 DEF LifecycleClaim
    <3> QED BY <1>3, <3>1
  <2> QED BY <2>1, <2>2, <2>3
<1>8. CASE StoreFails(r)
  <2>1. /\ pc[r] = "store" /\ op[r] = "execute" /\ copy[r].status = "completed"
        /\ copy[r] \in PendingAction /\ pc'[r] = "store"
        /\ copy'[r] = [copy[r] EXCEPT !.status = "failed"]
    BY <1>0, <1>8 DEF StoreFails, TypeInv, TypeOK, Shape, Carrying
  <2>2. copy'[r].status = "failed"
    BY <2>1 DEF PendingAction
  <2>3. PhaseOf(target[r]) = "executing"
    BY <1>0, <2>1 DEF LifecycleClaim, Writes
  <2>4. Writes(r)'
    BY <1>1, <1>2, <2>1, <2>2, <2>3 DEF Writes
  <2>5. LifecycleClaim(r)'
    BY <2>1, <2>4 DEF LifecycleClaim
  <2> QED BY <1>3, <2>1, <2>5
<1>9. CASE Answer(r, "refused") \/ Crash(r)
  BY <1>4, <1>9 DEF Crash
<1> QED BY <1>5, <1>6, <1>7, <1>8, <1>9

\* What a request stores is the next phase of its action.
LEMMA LifecycleStored ==
  ASSUME SafetyInv, Alone, LifecycleInv, NEW r \in Requests,
         StorePending(r) \/ (StoreFails(r) /\ store' = [store EXCEPT ![target[r]] = copy[r]])
  PROVE  LifecycleInv' /\ [Lifecycle!Next]_<<Phase, Runs>>
<1>0. /\ TypeOK /\ TypeInv /\ pc[r] = "store" /\ target[r] \in ActionIds
      /\ copy[r] \in PendingAction /\ copy[r] # None
  BY NoneAssumption DEF SafetyInv, TypeInv, Shape, Carrying, StorePending, StoreFails
<1>1. PICK a \in ActionIds : a = target[r]
  BY <1>0
<1>2. PICK to : to = copy[r].status
  OBVIOUS
<1>3. /\ store' = [store EXCEPT ![a] = copy[r]] /\ UNCHANGED <<target, effects>>
      /\ \A q \in Requests \ {r} : pc[q] \in Idle /\ pc'[q] = pc[q] /\ op'[q] = op[q]
  <2>1. store' = [store EXCEPT ![a] = copy[r]] /\ UNCHANGED <<target, effects>>
    BY <1>1 DEF StorePending, StoreFails, history
  <2>2. Handle(r) /\ pc[r] \notin Idle
    BY <1>0 DEF Handle, Idle
  <2> QED BY <1>0, <2>1, <2>2, Apart DEF Alone
<1>4. /\ PhaseOf(a)' = to /\ \A b \in ActionIds \ {a} : PhaseOf(b)' = PhaseOf(b)
      /\ \A b \in ActionIds : RunsOf(b)' = RunsOf(b)
  BY <1>0, <1>1, <1>2, <1>3 DEF PhaseOf, RunsOf, TypeOK
<1>5. Writes(r) /\ RunsOf(a) \in Nat /\ RunsOf(a) <= 1
  BY <1>0 DEF LifecycleInv, LifecycleClaim, RunsOf, TypeOK
<1>6. op[r] = "command" => RunsOf(a) = 0
  BY <1>0, <1>1, NeverRan
<1>7. \/ PhaseOf(a) = "absent" /\ to \in Waits /\ op[r] = "command"
      \/ PhaseOf(a) = "pending_confirmation" /\ to = "pending_confirmation" /\ op[r] = "confirm"
      \/ PhaseOf(a) \in Waits /\ to = "approved" /\ op[r] \in {"confirm", "approve"}
      \/ PhaseOf(a) = "pending_confirmation" /\ to = "expired" /\ op[r] = "confirm"
      \/ PhaseOf(a) \in Waits /\ to = "rejected" /\ op[r] = "reject"
      \/ PhaseOf(a) = "approved" /\ to = "executing" /\ op[r] = "execute"
      \/ PhaseOf(a) \in {"executing", "completed"} /\ to = "failed" /\ op[r] = "execute"
      \/ PhaseOf(a) = "executing" /\ to = "completed" /\ RunsOf(a) = 1 /\ op[r] = "execute"
      \/ PhaseOf(a) = "completed" /\ to = "rolled_back" /\ op[r] = "rollback"
  BY <1>1, <1>2, <1>5 DEF Writes, Waits
<1>8. ASSUME NEW b \in ActionIds
      PROVE  /\ RunsOf(b)' <= 1
             /\ RunsOf(b)' # 0 => PhaseOf(b)' \in Ran \union {"absent"}
             /\ Rejections(b)' # {} => PhaseOf(b)' = "rejected"
  <2>1. RunsOf(b)' <= 1
    BY <1>4 DEF LifecycleInv
  <2>2. RunsOf(b)' # 0 => PhaseOf(b)' \in Ran \union {"absent"}
    <3>1. RunsOf(b) # 0 => PhaseOf(b) \in Ran \union {"absent"}
      BY DEF LifecycleInv
    <3>2. CASE b = a
      BY <1>4, <1>6, <1>7, <3>1, <3>2 DEF Ran, Waits
    <3> QED BY <1>4, <3>1, <3>2
  <2>3. ASSUME NEW q \in Rejections(b)' PROVE PhaseOf(b)' = "rejected"
    <3>0. op'[q] = "reject" /\ target'[q] = b /\ pc'[q] = "done" /\ q \in Requests
      BY <2>3 DEF Rejections
    <3>1. CASE q = r
      <4>1. op[r] = "reject"
        BY <1>0, <3>0, <3>1 DEF StorePending, StoreFails, Goto, TypeOK
      <4> QED BY <1>1, <1>3, <1>4, <1>7, <3>0, <3>1, <4>1
    <3>2. CASE q # r
      <4>1. q \in Rejections(b)
        BY <1>3, <3>0, <3>2 DEF Rejections
      <4>2. PhaseOf(b) = "rejected"
        BY <4>1 DEF LifecycleInv
      <4>3. b # a
        BY <1>7, <4>2 DEF Waits
      <4> QED BY <1>4, <4>2, <4>3
    <3> QED BY <3>1, <3>2
  <2> QED BY <2>1, <2>2, <2>3
<1>9. ASSUME NEW q \in Requests PROVE LifecycleClaim(q)'
  <2>1. CASE q # r
    BY <1>3, <2>1 DEF LifecycleClaim, Idle
  <2>2. CASE q = r
    <3>1. \/ pc'[r] = "load" \/ pc'[r] = "done"
          \/ op[r] = "execute" /\ to = "executing" /\ pc'[r] = "run" /\ op'[r] = op[r]
          \/ op[r] = "reject" /\ pc'[r] = "dequeue" /\ op'[r] = op[r]
          \/ StoreFails(r)
      BY <1>0, <1>2 DEF StorePending, Goto, Answer, TypeOK
    <3>5. CASE StoreFails(r)
      <4>1. /\ pc'[r] = "store" /\ op'[r] = "execute" /\ to = "completed"
            /\ copy'[r] = [copy[r] EXCEPT !.status = "failed"]
        BY <1>0, <1>2, <3>5 DEF StoreFails, TypeOK
      <4>2. copy'[r].status = "failed"
        BY <1>0, <4>1 DEF PendingAction
      <4>3. PhaseOf(target[r])' = "completed"
        BY <1>1, <1>3, <1>4, <4>1 DEF PhaseOf
      <4>4. Writes(r)'
        BY <4>1, <4>2, <4>3 DEF Writes
      <4> QED BY <2>2, <4>1, <4>4 DEF LifecycleClaim
    <3>2. CASE pc'[r] = "load" \/ pc'[r] = "done"
      BY <2>2, <3>2 DEF LifecycleClaim
    <3>3. CASE op[r] = "execute" /\ to = "executing" /\ pc'[r] = "run"
      <4>1. PhaseOf(a) = "approved"
        BY <1>7, <3>3 DEF Waits
      <4>2. RunsOf(a) = 0
        BY <4>1 DEF LifecycleInv, Ran
      <4>3. PhaseOf(target[r])' = "executing" /\ RunsOf(target[r])' = 0
        BY <1>1, <1>3, <1>4, <3>3, <4>2 DEF PhaseOf, RunsOf
      <4> QED BY <2>2, <3>3, <4>3 DEF LifecycleClaim
    <3>4. CASE op[r] = "reject" /\ pc'[r] = "dequeue" /\ op'[r] = op[r]
      <4>1. PhaseOf(target[r])' = "rejected"
        BY <1>1, <1>3, <1>4, <1>7, <3>4 DEF PhaseOf
      <4> QED BY <2>2, <3>4, <4>1 DEF LifecycleClaim
    <3> QED BY <3>1, <3>2, <3>3, <3>4, <3>5
  <2> QED BY <2>1, <2>2
<1>10. LifecycleInv'
  BY <1>8, <1>9 DEF LifecycleInv
<1>11. /\ Phase[a] = PhaseOf(a) /\ Runs[a] = RunsOf(a) /\ UNCHANGED Runs
       /\ Phase' = [Phase EXCEPT ![a] = to]
  <2>1. \A b \in ActionIds : Phase[b] = PhaseOf(b) /\ Phase'[b] = PhaseOf(b)' /\ Runs[b] = RunsOf(b)
    BY DEF Phase, PhaseOf, Runs, RunsOf
  <2>2. Phase' = [b \in ActionIds |-> PhaseOf(b)'] /\ Phase = [b \in ActionIds |-> PhaseOf(b)]
    BY DEF Phase, PhaseOf
  <2>3. UNCHANGED Runs
    BY <1>3 DEF Runs
  <2> QED BY <1>4, <2>1, <2>2, <2>3
<1>12. [Lifecycle!Next]_<<Phase, Runs>>
  <2> DEFINE Step(from, dest) ==
               /\ Phase[a] \in from
               /\ \E phase \in dest : Phase' = [Phase EXCEPT ![a] = phase]
               /\ UNCHANGED Runs
  <2>1. ASSUME NEW from, NEW dest, Phase[a] \in from, to \in dest PROVE Step(from, dest)
    BY <1>11, <2>1
  <2>2. CASE PhaseOf(a) = "pending_confirmation" /\ to = "pending_confirmation"
    <3>1. Phase' = Phase
      BY <1>11, <2>2 DEF Phase
    <3> QED BY <1>11, <3>1
  <2>3. CASE PhaseOf(a) = "absent" /\ to \in Waits /\ op[r] = "command"
    <3>1. Step({"absent"}, Waits) /\ Runs[a] = 0
      BY <1>6, <1>11, <2>1, <2>3
    <3>2. Lifecycle!Submit(a)
      BY <3>1 DEF Lifecycle!Submit, Lifecycle!Move, Lifecycle!Waiting, Waits, Phase, Runs
    <3> QED BY <3>2 DEF Lifecycle!Next
  <2>4. CASE PhaseOf(a) \in Waits /\ to = "approved"
    <3>1. Step(Waits, {"approved"})
      BY <1>11, <2>1, <2>4
    <3>2. Lifecycle!Approve(a)
      BY <3>1 DEF Lifecycle!Approve, Lifecycle!Move, Lifecycle!Waiting, Waits, Phase, Runs
    <3> QED BY <3>2 DEF Lifecycle!Next
  <2>5. CASE PhaseOf(a) = "pending_confirmation" /\ to = "expired"
    <3>1. Step({"pending_confirmation"}, {"expired"})
      BY <1>11, <2>1, <2>5
    <3>2. Lifecycle!Expire(a)
      BY <3>1 DEF Lifecycle!Expire, Lifecycle!Move, Phase, Runs
    <3> QED BY <3>2 DEF Lifecycle!Next
  <2>6. CASE PhaseOf(a) \in Waits /\ to = "rejected"
    <3>1. Step(Waits, {"rejected"})
      BY <1>11, <2>1, <2>6
    <3>2. Lifecycle!Reject(a)
      BY <3>1 DEF Lifecycle!Reject, Lifecycle!Move, Lifecycle!Waiting, Waits, Phase, Runs
    <3> QED BY <3>2 DEF Lifecycle!Next
  <2>7. CASE PhaseOf(a) = "approved" /\ to = "executing"
    <3>1. Step({"approved"}, {"executing"})
      BY <1>11, <2>1, <2>7
    <3>2. Lifecycle!Start(a)
      BY <3>1 DEF Lifecycle!Start, Lifecycle!Move, Phase, Runs
    <3> QED BY <3>2 DEF Lifecycle!Next
  <2>8. CASE PhaseOf(a) \in {"executing", "completed"} /\ to = "failed"
    <3>1. Step({"executing", "completed"}, {"failed"})
      BY <1>11, <2>1, <2>8
    <3>2. Lifecycle!Fail(a)
      BY <3>1 DEF Lifecycle!Fail, Lifecycle!Move, Phase, Runs
    <3> QED BY <3>2 DEF Lifecycle!Next
  <2>9. CASE PhaseOf(a) = "executing" /\ to = "completed" /\ RunsOf(a) = 1
    <3>1. Step({"executing"}, {"completed"}) /\ Runs[a] = 1
      BY <1>11, <2>1, <2>9
    <3>2. Lifecycle!Complete(a)
      BY <3>1 DEF Lifecycle!Complete, Lifecycle!Move, Phase, Runs
    <3> QED BY <3>2 DEF Lifecycle!Next
  <2>10. CASE PhaseOf(a) = "completed" /\ to = "rolled_back"
    <3>1. Step({"completed"}, {"rolled_back"})
      BY <1>11, <2>1, <2>10
    <3>2. Lifecycle!RollBack(a)
      BY <3>1 DEF Lifecycle!RollBack, Lifecycle!Move, Phase, Runs
    <3> QED BY <3>2 DEF Lifecycle!Next
  <2> HIDE DEF Step
  <2> QED BY <1>7, <2>2, <2>3, <2>4, <2>5, <2>6, <2>7, <2>8, <2>9, <2>10
<1> QED BY <1>10, <1>12

\* The effect of an action comes once, while Redis says that it executes or when
\* it has no pending action at all.
LEMMA LifecycleRun ==
  ASSUME SafetyInv, Alone, LifecycleInv, NEW r \in Requests, RunExecutor(r) \/ RunNow(r)
  PROVE  LifecycleInv' /\ [Lifecycle!Next]_<<Phase, Runs>>
<1>0. /\ TypeOK /\ TypeInv /\ pc[r] \in {"run", "run_now"} /\ target[r] \in ActionIds
      /\ copy[r] \in PendingAction /\ UNCHANGED <<store, op, target>>
  BY DEF SafetyInv, TypeInv, Shape, Carrying, RunExecutor, RunNow, redis
<1>1. PICK a \in ActionIds : a = target[r]
  BY <1>0
<1>2. Handle(r) /\ \A q \in Requests \ {r} : pc[q] \in Idle /\ pc'[q] = pc[q] /\ op'[q] = op[q]
  <2>1. Handle(r) /\ pc[r] \notin Idle
    BY <1>0 DEF Handle, Idle
  <2> QED BY <1>0, <2>1, Apart DEF Alone
<1>3. RunsOf(a) = 0 /\ PhaseOf(a) \in {"executing", "absent"}
  <2>1. CASE pc[r] = "run"
    BY <1>1, <2>1 DEF LifecycleInv, LifecycleClaim
  <2>2. CASE pc[r] = "run_now"
    <3>1. op[r] = "command"
      BY <2>2 DEF SafetyInv, TypeInv, Shape
    <3> QED BY <1>1, <2>2, <3>1, NeverRan DEF PhaseOf
  <2> QED BY <1>0, <2>1, <2>2
<1>4. \/ UNCHANGED effects
      \/ /\ RunsOf(a)' = 1 /\ \A b \in ActionIds \ {a} : RunsOf(b)' = RunsOf(b)
  <2>1. ASSUME TakesEffect(a)
        PROVE  RunsOf(a)' = 1 /\ \A b \in ActionIds \ {a} : RunsOf(b)' = RunsOf(b)
    <3>1. effects[a] \in Seq(Nat) /\ now \in Nat
      BY <1>0 DEF TypeOK
    <3>2. Len(Append(effects[a], now)) = Len(effects[a]) + 1
      BY <3>1, AppendProperties
    <3>3. /\ effects'[a] = Append(effects[a], now)
          /\ \A b \in ActionIds \ {a} : effects'[b] = effects[b]
      BY <1>0, <2>1 DEF TakesEffect, TypeOK
    <3> QED BY <1>3, <3>2, <3>3 DEF RunsOf
  <2> QED BY <1>1, <2>1 DEF RunExecutor, RunNow
<1>5. \A b \in ActionIds : PhaseOf(b)' = PhaseOf(b)
  BY <1>0 DEF PhaseOf
<1>6. /\ pc'[r] \in {"store", "done"}
      /\ pc'[r] = "done" => op[r] # "reject"
      /\ pc'[r] = "store" =>
           /\ op[r] = "execute" /\ PhaseOf(a) = "executing"
           /\ \/ copy'[r].status = "failed"
              \/ copy'[r].status = "completed" /\ TakesEffect(a)
  <2>1. CASE RunNow(r)
    <3>1. pc'[r] = "done" /\ op[r] = "command"
      BY <1>0, <2>1 DEF RunNow, Answer, Goto, TypeOK, TypeInv, Shape
    <3> QED BY <3>1
  <2>2. CASE RunExecutor(r)
    <3>1. /\ \/ Change(r, [copy[r] EXCEPT !.status = "failed"], "store")
             \/ Change(r, [copy[r] EXCEPT !.status = "completed"], "store") /\ TakesEffect(a)
          /\ pc[r] = "run"
      BY <1>1, <2>2 DEF RunExecutor
    <3>2. /\ [copy[r] EXCEPT !.status = "failed"].status = "failed"
          /\ [copy[r] EXCEPT !.status = "completed"].status = "completed"
      BY <1>0 DEF PendingAction
    <3>3. /\ pc'[r] = "store"
          /\ \/ copy'[r].status = "failed"
             \/ copy'[r].status = "completed" /\ TakesEffect(a)
      BY <1>0, <3>1, <3>2 DEF Change, Goto, TypeOK
    <3>4. op[r] = "execute" /\ PhaseOf(a) = "executing"
      BY <1>0, <1>1, <3>1 DEF TypeInv, Shape, LifecycleInv, LifecycleClaim
    <3> QED BY <3>3, <3>4
  <2> QED BY <2>1, <2>2
<1>7. TakesEffect(a) => RunsOf(a)' = 1
  <2>1. ASSUME TakesEffect(a), UNCHANGED effects PROVE FALSE
    <3>1. effects[a] \in Seq(Nat) /\ now \in Nat
      BY <1>0 DEF TypeOK
    <3>2. Len(Append(effects[a], now)) = Len(effects[a]) + 1
      BY <3>1, AppendProperties
    <3>3. effects[a] = Append(effects[a], now)
      BY <1>0, <2>1 DEF TakesEffect, TypeOK
    <3> QED BY <3>1, <3>2, <3>3, LenProperties
  <2> QED BY <1>4, <2>1
<1>8. ASSUME NEW b \in ActionIds
      PROVE  /\ RunsOf(b)' <= 1
             /\ RunsOf(b)' # 0 => PhaseOf(b)' \in Ran \union {"absent"}
             /\ Rejections(b)' # {} => PhaseOf(b)' = "rejected"
  <2>1. \A c \in ActionIds : RunsOf(c)' = RunsOf(c) \/ (c = a /\ RunsOf(c)' = 1)
    BY <1>4 DEF RunsOf
  <2>2. Rejections(b)' \subseteq Rejections(b)
    BY <1>0, <1>2, <1>6 DEF Rejections
  <2> QED BY <1>3, <1>5, <2>1, <2>2 DEF LifecycleInv, Ran
<1>9. ASSUME NEW q \in Requests PROVE LifecycleClaim(q)'
  <2>1. CASE q # r
    BY <1>2, <2>1 DEF LifecycleClaim, Idle
  <2>2. CASE q = r
    <3>1. pc'[r] = "store" => Writes(r)'
      <4>1. PhaseOf(target[r])' = PhaseOf(a) /\ RunsOf(target[r])' = RunsOf(a)' /\ op'[r] = op[r]
        BY <1>0, <1>1, <1>5 DEF RunsOf, PhaseOf
      <4>2. ASSUME pc'[r] = "store" PROVE Writes(r)'
        <5>1. op'[r] = "execute" /\ PhaseOf(target[r])' = "executing"
          BY <1>6, <4>1, <4>2
        <5>2. copy'[r].status = "failed" \/ (copy'[r].status = "completed" /\ RunsOf(target[r])' = 1)
          BY <1>6, <1>7, <4>1, <4>2
        <5> QED BY <5>1, <5>2 DEF Writes
      <4> QED BY <4>2
    <3> QED BY <1>6, <2>2, <3>1 DEF LifecycleClaim
  <2> QED BY <2>1, <2>2
<1>10. LifecycleInv'
  BY <1>8, <1>9 DEF LifecycleInv
<1>11. [Lifecycle!Next]_<<Phase, Runs>>
  <2>1. UNCHANGED Phase
    BY <1>0 DEF Phase
  <2>2. CASE UNCHANGED effects
    BY <2>1, <2>2 DEF Runs
  <2>3. CASE RunsOf(a)' = 1 /\ \A b \in ActionIds \ {a} : RunsOf(b)' = RunsOf(b)
    <3>1. Runs' = [b \in ActionIds |-> RunsOf(b)'] /\ Runs = [b \in ActionIds |-> RunsOf(b)]
      BY DEF Runs, RunsOf
    <3>2. Runs' = [Runs EXCEPT ![a] = 1] /\ Runs[a] = 0
      BY <1>3, <2>3, <3>1
    <3>3. Phase[a] \in {"executing", "absent"}
      BY <1>3 DEF Phase, PhaseOf
    <3>4. Lifecycle!Run(a)
      BY <2>1, <3>2, <3>3 DEF Lifecycle!Run, Phase, Runs
    <3> QED BY <3>4 DEF Lifecycle!Next
  <2> QED BY <1>4, <2>2, <2>3
<1> QED BY <1>10, <1>11

\* Every step of the one request that is handled is a step of the lifecycle, or
\* leaves it alone.
LEMMA LifecycleStep ==
  Serial => (SafetyInv /\ Alone /\ LifecycleInv /\ [Next]_vars =>
               LifecycleInv' /\ [Lifecycle!Next]_<<Phase, Runs>>)
<1> SUFFICES ASSUME Serial, SafetyInv, Alone, LifecycleInv, [Next]_vars
             PROVE  LifecycleInv' /\ [Lifecycle!Next]_<<Phase, Runs>>
  OBVIOUS
<1>0. TypeInv
  BY DEF SafetyInv
<1>1. ASSUME NEW r \in Requests, Arrival(r)
      PROVE  LifecycleInv' /\ UNCHANGED <<Phase, Runs>>
  BY <1>0, <1>1, LifecycleArrival
<1>2. ASSUME NEW r \in Requests, Handle(r) \/ Crash(r)
      PROVE  LifecycleInv' /\ [Lifecycle!Next]_<<Phase, Runs>>
  <2>1. CASE \/ ConfirmAction(r) \/ ApproveAction(r) \/ RejectAction(r) \/ ExecuteAction(r)
             \/ RollbackAction(r)
    BY <1>0, <2>1, LifecycleDecided
  <2>2. CASE \/ RequestConfirmation(r) \/ Load(r) \/ Dequeue(r) \/ Crash(r)
             \/ StoreFails(r) /\ UNCHANGED store
    BY <2>2, LifecycleMoved
  <2>3. CASE StorePending(r) \/ (StoreFails(r) /\ store' = [store EXCEPT ![target[r]] = copy[r]])
    BY <2>3, LifecycleStored
  <2>4. CASE RunExecutor(r) \/ RunNow(r)
    BY <2>4, LifecycleRun
  <2>5. StoreFails(r) =>
          UNCHANGED store \/ store' = [store EXCEPT ![target[r]] = copy[r]]
    BY DEF StoreFails
  <2> QED BY <1>2, <2>1, <2>2, <2>3, <2>4, <2>5 DEF Handle
<1>3. CASE Tick \/ UNCHANGED vars
  <2>1. UNCHANGED <<store, effects, pc, op, target, copy>>
    BY <1>3 DEF Tick, vars, redis, history
  <2>2. UNCHANGED <<Phase, Runs>>
    BY <2>1 DEF Phase, Runs
  <2>3. LifecycleInv'
    BY <2>1 DEF LifecycleInv, LifecycleClaim, Writes, PhaseOf, RunsOf, Rejections
  <2> QED BY <2>2, <2>3
<1> QED BY <1>1, <1>2, <1>3 DEF Next, Arrival

\* An action takes effect when its executor runs.
LEMMA EffectSteps ==
  ASSUME [Next]_vars
  PROVE  UNCHANGED effects \/ \E r \in Requests : RunExecutor(r) \/ RunNow(r)
BY DEF Next, vars, history, Command, Call, Arrive, Handle, RequestConfirmation, Load, ConfirmAction,
   ApproveAction, RejectAction, ExecuteAction, RollbackAction, StorePending, Dequeue, StoreFails,
   Crash, Tick

\* What holds of requests that are handled one at a time, crashes included.
LEMMA LifecycleInvariant ==
  ASSUME Serial
  PROVE  Spec => []LifecycleInv
<1>1. SafetyInv /\ Alone /\ LifecycleInv /\ [Next]_vars => LifecycleInv'
  BY LifecycleStep
<1> QED BY <1>1, LifecycleInit, SafetyInvariant, AloneInvariant, PTL DEF Spec

\* One request at a time, crashes and lost writes included: an action takes
\* effect at most once.
THEOREM AloneOneEffect ==
  ASSUME Serial
  PROVE  Spec => []OneEffect
<1>1. LifecycleInv => OneEffect
  BY DEF LifecycleInv, OneEffect, RunsOf
<1> QED BY <1>1, LifecycleInvariant, PTL

\* One request at a time: an action whose rejection was answered with success
\* never takes effect afterwards.
THEOREM RejectionsHold ==
  ASSUME Serial
  PROVE  Spec => RejectedNeverRuns
<1>1. SafetyInv /\ LifecycleInv /\ [Next]_vars =>
        [\A a \in ActionIds : Rejections(a) # {} => effects'[a] = effects[a]]_vars
  <2> SUFFICES ASSUME SafetyInv, LifecycleInv, [Next]_vars, NEW a \in ActionIds,
                      Rejections(a) # {}
               PROVE  effects'[a] = effects[a]
    OBVIOUS
  <2>0. TypeOK /\ PhaseOf(a) = "rejected"
    BY DEF SafetyInv, TypeInv, LifecycleInv
  <2>1. ASSUME NEW r \in Requests, RunExecutor(r) \/ RunNow(r) PROVE effects'[a] = effects[a]
    <3>1. target[r] # a
      <4>1. CASE pc[r] = "run"
        BY <2>0, <4>1 DEF LifecycleInv, LifecycleClaim
      <4>2. CASE pc[r] = "run_now"
        <5>1. op[r] = "command"
          BY <4>2 DEF SafetyInv, TypeInv, Shape
        <5> QED BY <2>0, <4>2, <5>1, NeverRan DEF PhaseOf
      <4> QED BY <2>1, <4>1, <4>2 DEF RunExecutor, RunNow
    <3> QED BY <2>0, <2>1, <3>1 DEF RunExecutor, RunNow, TakesEffect, TypeOK
  <2>2. CASE UNCHANGED effects
    BY <2>2
  <2> QED BY <2>1, <2>2, EffectSteps
<1> QED BY <1>1, SafetyInvariant, LifecycleInvariant, PTL DEF Spec, RejectedNeverRuns

\* One request at a time, crashes included, every step of a handler is a step of
\* the atomic lifecycle or leaves it alone.
THEOREM AloneImplementsLifecycle ==
  ASSUME Serial
  PROVE  Spec => ImplementsLifecycle
<1>1. Init => Lifecycle!Init
  BY EmptySeq DEF Init, Lifecycle!Init
<1>2. SafetyInv /\ Alone /\ LifecycleInv /\ [Next]_vars => [Lifecycle!Next]_<<Phase, Runs>>
  BY LifecycleStep
<1> QED BY <1>1, <1>2, SafetyInvariant, AloneInvariant, LifecycleInvariant, PTL
     DEF Spec, ImplementsLifecycle, Lifecycle!Spec, Phase, Runs

================================================================================
