------------------------------ MODULE AdminSafety ------------------------------
(***************************************************************************)
(* The confirmation workflow of the admin agent: AdminAISafetySystem       *)
(* (core/security/admin_safety.py) as AdminAgent and the /admin endpoints  *)
(* call it.                                                                *)
(*                                                                         *)
(* Every HTTP request is a process.  A pending action lives in Redis under *)
(* one key, and every handler reads it, changes a private copy and writes  *)
(* the whole copy back: three steps here (Load, one decision, Store),      *)
(* because other requests, of this worker or of another one, run at each   *)
(* await in between.  Nothing guards the write with the value that was     *)
(* read.  The human approval queue is a second Redis key, written in a     *)
(* step of its own.                                                        *)
(*                                                                         *)
(* Some definitions follow a faulty variant of theirs, which no action     *)
(* uses: the properties below tell the two apart.                          *)
(***************************************************************************)
EXTENDS Integers, Sequences

CONSTANTS
  ActionNames,    \* the keys of ACTION_DEFINITIONS
  Definitions,    \* ACTION_DEFINITIONS: what each name requires
  ActionIds,      \* the uuid4 identifiers an action can get
  Requests,       \* the HTTP requests that ever arrive
  Admins,         \* callers
  TenantOf,       \* the tenant the API key of a caller belongs to
  DryRunWindow,   \* validity of a dry run (15 min)
  ConfirmWindow,  \* validity of a pending action (30 min)
  Ops,            \* the operations that callers invoke
  Serial,         \* TRUE: at most one request is being handled at a time
  MayCrash,       \* TRUE: a worker can die, and a Redis write can fail
  MaxTime,        \* bound on the clock, for model checking
  None            \* Python's None

Operations == {"command", "confirm", "reject", "approve", "execute", "rollback"}

ActionDefinition ==
  [approval_type: {"none", "simple", "double", "human"},
   confirmation_delay: Nat,
   requires_reason: BOOLEAN,
   implemented: BOOLEAN,        \* _dispatch has a handler for it
   supports_rollback: BOOLEAN,
   rollback_window: Nat]

ASSUME SafetyAssumption ==
  /\ Definitions \in [ActionNames -> ActionDefinition]
  /\ DryRunWindow \in Nat /\ ConfirmWindow \in Nat /\ MaxTime \in Nat
  /\ Ops \subseteq Operations
  /\ Serial \in BOOLEAN /\ MayCrash \in BOOLEAN
  /\ None \notin ActionIds /\ None \notin Admins /\ None \notin Operations

VARIABLES
  store,    \* Redis: admin_pending_action:<id>
  queue,    \* Redis: admin_human_queue:<tenant>, of all tenants
  now,      \* datetime.utcnow()
  pc,       \* where each request is
  op,       \* the operation it performs
  target,   \* the action it is about
  caller,   \* who sent it
  copy,     \* its private PendingAction
  grants,   \* history: the confirm and approve requests that were counted
  effects   \* history: the times at which the executor took effect

redis == <<store, queue>>
history == <<grants, effects>>
vars == <<redis, now, pc, op, target, caller, copy, history>>

--------------------------------------------------------------------------------
Status == {"draft", "pending_confirmation", "pending_human_approval",
           "approved", "executing", "completed", "failed", "rolled_back",
           "rejected", "expired"}

Never == -1
Time == Nat \union {Never}

PendingAction ==
  [action_name: ActionNames,
   status: Status,
   initiated_by: Admins,
   confirmation_count: Nat,
   confirmed_at: Time,
   approver_id: Admins \union {None},
   expires_at: Nat,
   can_execute_at: Nat,
   rollback_expires_at: Time]   \* Never: there is no rollback_data

ASSUME NoneAssumption == None \notin PendingAction

DefinitionOf(p) == Definitions[p.action_name]
NeedsHuman(p) == DefinitionOf(p).approval_type = "human"
ConfirmedTwice(p) == DefinitionOf(p).approval_type = "double"

\* A request is being handled between its arrival and its response.
Idle == {"idle", "done", "refused", "dead"}
InFlight == {r \in Requests : pc[r] \notin Idle}

Goto(r, label) == pc' = [pc EXCEPT ![r] = label]

\* The request is answered; its private copy is garbage.
Answer(r, outcome) ==
  /\ Goto(r, outcome)
  /\ copy' = [copy EXCEPT ![r] = None]

Init ==
  /\ store = [a \in ActionIds |-> None]
  /\ queue = {}
  /\ now = 0
  /\ pc = [r \in Requests |-> "idle"]
  /\ op = [r \in Requests |-> None]
  /\ target = [r \in Requests |-> None]
  /\ caller = [r \in Requests |-> None]
  /\ copy = [r \in Requests |-> None]
  /\ grants = [a \in ActionIds |-> {}]
  /\ effects = [a \in ActionIds |-> <<>>]

--------------------------------------------------------------------------------
(* Arrival of a request.                                                   *)

Arrive(r, o, a, who) ==
  /\ pc[r] = "idle"
  /\ o \in Ops
  /\ Serial => InFlight = {}
  /\ op' = [op EXCEPT ![r] = o]
  /\ target' = [target EXCEPT ![r] = a]
  /\ caller' = [caller EXCEPT ![r] = who]
  /\ UNCHANGED <<redis, now, history>>

\* uuid4 never returns an identifier twice.
Fresh(a) ==
  /\ store[a] = None
  /\ \A r \in Requests : ~(op[r] = "command" /\ target[r] = a)

\* What create_dry_run leaves behind: the action simulated, nothing stored.
\* expires_at is that of the dry run until request_confirmation sets its own.
Draft(name, who) ==
  [action_name |-> name, status |-> "draft", initiated_by |-> who,
   confirmation_count |-> 0, confirmed_at |-> Never, approver_id |-> None,
   expires_at |-> now + DryRunWindow, can_execute_at |-> now,
   rollback_expires_at |-> Never]

\* POST /admin/command.  Invalid parameters end it, a read-only action runs
\* at once, every other one goes through request_confirmation.
Command(r, a, who, name) ==
  /\ Arrive(r, "command", a, who)
  /\ Fresh(a)
  /\ \/ Answer(r, "refused")
     \/ /\ copy' = [copy EXCEPT ![r] = Draft(name, who)]
        /\ Goto(r, IF Definitions[name].approval_type = "none"
                     THEN "run_now" ELSE "request")

\* POST /admin/confirm, /admin/reject, and the operations of the safety
\* system that no endpoint exposes.
Call(r, o, a, who) ==
  /\ o # "command"
  /\ Arrive(r, o, a, who)
  /\ Goto(r, "load")
  /\ UNCHANGED copy

--------------------------------------------------------------------------------
(* request_confirmation, after which the copy is stored.                   *)

TypoInStatus(p) == IF NeedsHuman(p) THEN "pending_approval" ELSE "pending_confirmation"
WaitingStatus(p) ==
  IF NeedsHuman(p) THEN "pending_human_approval" ELSE "pending_confirmation"

NotEnqueued(p, a) == queue
Enqueued(p, a) == IF NeedsHuman(p) THEN queue \union {a} ELSE queue

RequestConfirmation(r) ==
  LET p == copy[r]
      q == [p EXCEPT
              !.status = WaitingStatus(p),
              !.expires_at = now + ConfirmWindow,
              !.can_execute_at = now + DefinitionOf(p).confirmation_delay]
  IN /\ pc[r] = "request"
     /\ \/ /\ now > p.expires_at \/ DefinitionOf(p).requires_reason
           /\ Answer(r, "refused")      \* expired dry run, or no reason given
           /\ UNCHANGED queue
        \/ /\ now <= p.expires_at
           /\ copy' = [copy EXCEPT ![r] = q]
           /\ queue' = Enqueued(p, target[r])
           /\ Goto(r, "store")
     /\ UNCHANGED <<store, now, op, target, caller, history>>

--------------------------------------------------------------------------------
(* Reading the action: _get_pending_for_tenant.                            *)

\* An action of another tenant does not exist.
Visible(p, who) == p # None /\ TenantOf[p.initiated_by] = TenantOf[who]

Load(r) ==
  /\ pc[r] = "load"
  /\ LET p == store[target[r]]
     IN IF Visible(p, caller[r])
          THEN /\ copy' = [copy EXCEPT ![r] = p]
               /\ Goto(r, "decide")
          ELSE Answer(r, "refused")
  /\ UNCHANGED <<redis, now, op, target, caller, history>>

--------------------------------------------------------------------------------
(* The decisions, taken on the private copy.                               *)

Deciding(r, o) == pc[r] = "decide" /\ op[r] = o

Change(r, p, label) ==
  /\ copy' = [copy EXCEPT ![r] = p]
  /\ Goto(r, label)

AnyPendingConfirmable(p) == p.status \in {"pending_confirmation", "pending_human_approval"}
Confirmable(p) == p.status = "pending_confirmation"

NeverExpired(p) == FALSE
Expired(p) == now > p.expires_at

\* A faulty variant of Confirmed: the delay is not looked at.
ConfirmedEarly(p) ==
  LET q == [p EXCEPT !.confirmation_count = @ + 1, !.confirmed_at = now]
  IN IF ConfirmedTwice(p) /\ q.confirmation_count < 2
       THEN q ELSE [q EXCEPT !.status = "approved"]

\* The copy after one more confirmation: still pending after the first of
\* two and before can_execute_at, else approved.
Confirmed(p) ==
  LET q == [p EXCEPT !.confirmation_count = @ + 1, !.confirmed_at = now]
  IN IF \/ ConfirmedTwice(p) /\ q.confirmation_count < 2
        \/ now < p.can_execute_at
       THEN q
       ELSE [q EXCEPT !.status = "approved"]

\* confirm_action.  The first disjunct is also the wrong token.
ConfirmAction(r) ==
  LET p == copy[r]
  IN /\ Deciding(r, "confirm")
     /\ \/ /\ \E token_matches \in BOOLEAN : ~token_matches \/ ~Confirmable(p)
           /\ Answer(r, "refused")
           /\ UNCHANGED grants
        \/ /\ Confirmable(p)
           /\ Expired(p)
           /\ Change(r, [p EXCEPT !.status = "expired"], "store")
           /\ UNCHANGED grants
        \/ /\ Confirmable(p)
           /\ ~Expired(p)
           /\ Change(r, Confirmed(p), "store")
           /\ grants' = [grants EXCEPT ![target[r]] = @ \union {r}]
     /\ UNCHANGED <<redis, now, op, target, caller, effects>>

ApprovableByInitiator(p, who) == p.status = "pending_human_approval"
Approvable(p, who) == p.status = "pending_human_approval" /\ who # p.initiated_by

\* approve_action leaves the queue before it stores the approval.
ApproveAction(r) ==
  LET p == copy[r]
  IN /\ Deciding(r, "approve")
     /\ IF Approvable(p, caller[r])
          THEN /\ Change(r, [p EXCEPT !.status = "approved",
                                      !.approver_id = caller[r]], "dequeue")
               /\ grants' = [grants EXCEPT ![target[r]] = @ \union {r}]
          ELSE Answer(r, "refused") /\ UNCHANGED grants
     /\ UNCHANGED <<redis, now, op, target, caller, effects>>

StatusKept(p, who) == [p EXCEPT !.approver_id = who]
Rejected(p, who) == [p EXCEPT !.status = "rejected", !.approver_id = who]

\* reject_action stores the rejection, then leaves the queue.
RejectAction(r) ==
  LET p == copy[r]
  IN /\ Deciding(r, "reject")
     /\ IF p.status \in {"pending_confirmation", "pending_human_approval"}
          THEN Change(r, Rejected(p, caller[r]), "store")
          ELSE Answer(r, "refused")
     /\ UNCHANGED <<redis, now, op, target, caller, history>>

ExecutableTwice(p) == p.status \in {"approved", "completed"}
Executable(p) == p.status = "approved"

\* execute_action up to the executor: no look at expires_at.
ExecuteAction(r) ==
  LET p == copy[r]
      d == DefinitionOf(p)
  IN /\ Deciding(r, "execute")
     /\ IF Executable(p)
          THEN Change(r, [p EXCEPT !.status = "executing",
                                   !.rollback_expires_at =
                                     IF d.supports_rollback
                                       THEN now + d.rollback_window ELSE @],
                      "store")
          ELSE Answer(r, "refused")
     /\ UNCHANGED <<redis, now, op, target, caller, history>>

FailureReversible(p) ==
  /\ p.status \in {"completed", "failed"}
  /\ p.rollback_expires_at # Never
  /\ now <= p.rollback_expires_at

Reversible(p) ==
  /\ p.status = "completed"
  /\ p.rollback_expires_at # Never
  /\ now <= p.rollback_expires_at

\* rollback_action; _apply_rollback does nothing.
RollbackAction(r) ==
  LET p == copy[r]
  IN /\ Deciding(r, "rollback")
     /\ IF Reversible(p)
          THEN Change(r, [p EXCEPT !.status = "rolled_back"], "store")
          ELSE Answer(r, "refused")
     /\ UNCHANGED <<redis, now, op, target, caller, history>>

--------------------------------------------------------------------------------
(* The writes.                                                             *)

\* _store_pending, and where the handler goes on from there: a confirmation
\* that approved the action executes it (_continue_pending), an execution
\* runs the executor, a rejection of a queued action leaves the queue.
StorePending(r) ==
  LET p == copy[r]
  IN /\ pc[r] = "store"
     /\ store' = [store EXCEPT ![target[r]] = p]
     /\ \/ /\ op[r] = "confirm" /\ p.status = "approved"
           /\ op' = [op EXCEPT ![r] = "execute"]
           /\ Goto(r, "load")
           /\ UNCHANGED copy
        \/ /\ op[r] = "execute" /\ p.status = "executing"
           /\ Goto(r, "run")
           /\ UNCHANGED <<op, copy>>
        \/ /\ op[r] = "reject" /\ NeedsHuman(p)
           /\ Goto(r, "dequeue")
           /\ UNCHANGED <<op, copy>>
        \/ /\ ~(op[r] = "confirm" /\ p.status = "approved")
           /\ ~(op[r] = "execute" /\ p.status = "executing")
           /\ ~(op[r] = "reject" /\ NeedsHuman(p))
           /\ Answer(r, "done")
           /\ UNCHANGED op
     /\ UNCHANGED <<queue, now, target, caller, history>>

\* _remove_from_human_queue
Dequeue(r) ==
  /\ pc[r] = "dequeue"
  /\ queue' = queue \ {target[r]}
  /\ \/ op[r] = "approve" /\ Goto(r, "store") /\ UNCHANGED copy
     \/ op[r] = "reject" /\ Answer(r, "done")
  /\ UNCHANGED <<store, now, op, target, caller, history>>

TakesEffect(a) == effects' = [effects EXCEPT ![a] = Append(@, now)]

\* A faulty variant: without the except block that stores the failure.
FailureNotStored(r) ==
  LET p == copy[r]
  IN /\ pc[r] = "run"
     /\ \/ /\ DefinitionOf(p).implemented
           /\ TakesEffect(target[r])
           /\ Change(r, [p EXCEPT !.status = "completed"], "store")
        \/ Answer(r, "refused") /\ UNCHANGED effects
     /\ UNCHANGED <<redis, now, op, target, caller, grants>>

\* The executor of execute_action: _dispatch, which fails for an action
\* without a handler and may fail for any other before its commit.
RunExecutor(r) ==
  LET p == copy[r]
  IN /\ pc[r] = "run"
     /\ \/ /\ DefinitionOf(p).implemented
           /\ TakesEffect(target[r])
           /\ Change(r, [p EXCEPT !.status = "completed"], "store")
        \/ /\ Change(r, [p EXCEPT !.status = "failed"], "store")
           /\ UNCHANGED effects
     /\ UNCHANGED <<redis, now, op, target, caller, grants>>

\* _run_and_record: a read-only action, with no pending action at all.
RunNow(r) ==
  /\ pc[r] = "run_now"
  /\ \/ DefinitionOf(copy[r]).implemented /\ TakesEffect(target[r])
     \/ UNCHANGED effects
  /\ Answer(r, "done")
  /\ UNCHANGED <<redis, now, op, target, caller, grants>>

--------------------------------------------------------------------------------
(* Failures and time.                                                      *)

\* The write of "completed" is inside the try block of the executor: when it
\* raises, be it that only the reply of Redis is lost, the handler stores "failed"
\* although the action took effect.
StoreFails(r) ==
  /\ MayCrash
  /\ pc[r] = "store" /\ op[r] = "execute" /\ copy[r].status = "completed"
  /\ store' = [store EXCEPT ![target[r]] = copy[r]] \/ UNCHANGED store
  /\ copy' = [copy EXCEPT ![r].status = "failed"]
  /\ UNCHANGED <<queue, now, pc, op, target, caller, history>>

\* A worker that dies, or any other Redis error, ends the request where it
\* stands.  What it wrote before stays.
Crash(r) ==
  /\ MayCrash
  /\ r \in InFlight
  /\ Answer(r, "dead")
  /\ UNCHANGED <<redis, now, op, target, caller, history>>

Tick ==
  /\ now < MaxTime
  /\ now' = now + 1
  /\ UNCHANGED <<redis, pc, op, target, caller, copy, history>>

\* What a handler does once its request has arrived.
Handle(r) ==
  \/ RequestConfirmation(r) \/ Load(r)
  \/ ConfirmAction(r) \/ ApproveAction(r) \/ RejectAction(r)
  \/ ExecuteAction(r) \/ RollbackAction(r)
  \/ StorePending(r) \/ Dequeue(r)
  \/ RunExecutor(r) \/ RunNow(r) \/ StoreFails(r)

Next ==
  \/ \E r \in Requests, a \in ActionIds, who \in Admins :
       \/ \E name \in ActionNames : Command(r, a, who, name)
       \/ \E o \in Ops : Call(r, o, a, who)
  \/ \E r \in Requests : Handle(r) \/ Crash(r)
  \/ Tick

Spec == Init /\ [][Next]_vars

\* The event loop resumes a handler whose Redis or database call returned.
\* Nobody has to send a request, and time need not pass.
FairSpec == Spec /\ \A r \in Requests : WF_vars(Handle(r))

--------------------------------------------------------------------------------
(* Properties.                                                             *)

Labels == Idle \union {"request", "load", "decide", "store", "dequeue", "run", "run_now"}

\* Types: what Redis and the handlers can hold.
TypeOK ==
  /\ store \in [ActionIds -> PendingAction \union {None}]
  /\ queue \subseteq ActionIds
  /\ now \in Nat
  /\ pc \in [Requests -> Labels]
  /\ op \in [Requests -> Operations \union {None}]
  /\ target \in [Requests -> ActionIds \union {None}]
  /\ caller \in [Requests -> Admins \union {None}]
  /\ copy \in [Requests -> PendingAction \union {None}]
  /\ grants \in [ActionIds -> SUBSET Requests]
  /\ effects \in [ActionIds -> Seq(Nat)]

TookEffect(a) == effects[a] # <<>>

\* What the definition of a asks for was counted before it took effect.
Authorised(a) ==
  store[a] # None /\ TookEffect(a) =>
    LET kind == DefinitionOf(store[a]).approval_type
    IN /\ kind = "simple" => grants[a] # {}
       /\ kind = "double" => \E r, s \in grants[a] : r # s
       /\ kind = "human" =>
            \E r \in grants[a] : caller[r] # store[a].initiated_by

\* An action takes effect only after what its risk level asks for: one
\* confirmation, confirmations by two different requests, or the approval of
\* somebody else than its initiator.  Whatever the interleaving of the
\* handlers and whichever of their writes is lost.
AuthorisedEffects == \A a \in ActionIds : Authorised(a)

\* No effect of a came before its can_execute_at.
Delayed(a) ==
  store[a] # None /\ ~NeedsHuman(store[a]) =>
    \A i \in DOMAIN effects[a] : effects[a][i] >= store[a].can_execute_at

\* The mandatory delay counts from the request: an action that has to be
\* confirmed never takes effect before its can_execute_at.
DelayRespected == \A a \in ActionIds : Delayed(a)

Underway == {"approved", "executing", "completed", "failed", "rolled_back"}

\* An action got past its confirmation only through one that came between
\* the end of the delay and the expiry of the request.
ConfirmedInTime ==
  \A a \in ActionIds :
    store[a] # None /\ ~NeedsHuman(store[a]) /\ store[a].status \in Underway =>
      store[a].confirmed_at \in store[a].can_execute_at .. store[a].expires_at

\* An action that waits for a human is listed in the queue, unless the
\* request that approves it is between its two writes or died there.
QueueCoversPending ==
  \A a \in ActionIds :
    store[a] # None /\ store[a].status = "pending_human_approval" =>
      \/ a \in queue
      \/ \E r \in Requests : /\ op[r] = "approve" /\ target[r] = a
                             /\ pc[r] \in {"store", "dead"}

\* One request at a time: an action takes effect at most once.
OneEffect == \A a \in ActionIds : Len(effects[a]) <= 1

Rejections(a) == {r \in Requests : op[r] = "reject" /\ target[r] = a /\ pc[r] = "done"}

\* One request at a time: an action whose rejection was answered with success
\* never takes effect afterwards.
RejectedNeverRuns ==
  [][\A a \in ActionIds : Rejections(a) # {} => effects'[a] = effects[a]]_vars

Executing(a) == store[a] # None /\ store[a].status = "executing"

\* No action stays in "executing", unless the request that executes it died:
\* the handler stores an outcome whether the executor returns or raises.
ExecutionEnds ==
  \A a \in ActionIds :
    Executing(a) ~>
      \/ ~Executing(a)
      \/ \E r \in Requests : op[r] = "execute" /\ target[r] = a /\ pc[r] = "dead"

--------------------------------------------------------------------------------
(***************************************************************************)
(* The inductive invariant behind AuthorisedEffects, DelayRespected and    *)
(* ConfirmedInTime: what an action claims, in Redis or in the copy of a    *)
(* request that will overwrite Redis, however old, is backed by the        *)
(* requests that were really counted.                                      *)
(***************************************************************************)

Carrying == {"request", "run_now", "decide", "store", "dequeue", "run"}

\* What a request knows at each place.
Shape(r) ==
  /\ pc[r] # "idle" => /\ op[r] \in Operations
                       /\ target[r] \in ActionIds
                       /\ caller[r] \in Admins
  /\ pc[r] \in Carrying => copy[r] \in PendingAction
  /\ pc[r] \in {"request", "run_now"} => op[r] = "command"
  /\ pc[r] \in {"load", "decide", "dequeue", "run"} => op[r] # "command"
  /\ pc[r] = "run" => op[r] = "execute"

TypeInv == TypeOK /\ \A r \in Requests : Shape(r)

\* p is backed by the counted requests g, sent by the callers c, at time t.
Evidence(p, g, c, t) ==
  /\ DefinitionOf(p).approval_type # "none"
  /\ p.confirmation_count > 0 => g # {}
  /\ p.confirmation_count > 1 => \E r, s \in g : r # s
  /\ p.status = "pending_confirmation" => ~NeedsHuman(p)
  /\ p.status = "pending_human_approval" => NeedsHuman(p)
  /\ p.status \in Underway =>
       IF NeedsHuman(p)
         THEN \E r \in g : c[r] # p.initiated_by
         ELSE /\ p.confirmation_count > 0
              /\ ConfirmedTwice(p) => p.confirmation_count > 1
              /\ p.can_execute_at <= p.confirmed_at
              /\ p.confirmed_at <= p.expires_at
              /\ p.confirmed_at <= t

\* The fields that no handler changes once the action is stored.
SameAction(p, q) ==
  /\ p.action_name = q.action_name /\ p.initiated_by = q.initiated_by
  /\ p.expires_at = q.expires_at /\ p.can_execute_at = q.can_execute_at

Commanding(r) == op[r] = "command" /\ pc[r] \in {"request", "run_now", "store"}
Changing(r) == op[r] # "command" /\ pc[r] \in {"decide", "store", "dequeue", "run"}

RequestInv(r) ==
  /\ Commanding(r) => store[target[r]] = None
  /\ pc[r] = "request" => /\ copy[r].confirmation_count = 0
                          /\ DefinitionOf(copy[r]).approval_type # "none"
  /\ Changing(r) => /\ store[target[r]] # None
                    /\ SameAction(copy[r], store[target[r]])
  /\ Changing(r) \/ pc[r] = "store" =>
       Evidence(copy[r], grants[target[r]], caller, now)
  /\ pc[r] = "run" => copy[r].status = "executing"
  /\ \A a \in ActionIds : r \in grants[a] =>
       pc[r] # "idle" /\ ~(op[r] = "confirm" /\ pc[r] \in {"load", "decide"})

ActionInv(a) ==
  /\ store[a] # None => Evidence(store[a], grants[a], caller, now)
  /\ store[a] = None => grants[a] = {}
  /\ store[a] = None /\ TookEffect(a) =>
       \E r \in Requests : op[r] = "command" /\ target[r] = a /\ pc[r] = "done"
  /\ Authorised(a)
  /\ Delayed(a)

NewIds ==
  \A r, q \in Requests :
    op[r] = "command" /\ op[q] = "command" /\ target[r] = target[q] => r = q

\* What Redis and every private copy claim is backed by counted requests; a
\* copy belongs to the action its request is about, and only the request that
\* creates an action may find it absent.
SafetyInv ==
  /\ TypeInv
  /\ NewIds
  /\ \A r \in Requests : RequestInv(r)
  /\ \A a \in ActionIds : ActionInv(a)

--------------------------------------------------------------------------------
(* The abstract specification.                                             *)

Lifecycle == INSTANCE AdminLifecycle WITH
  phase <- [a \in ActionIds |-> IF store[a] = None THEN "absent" ELSE store[a].status],
  runs <- [a \in ActionIds |-> Len(effects[a])]

\* One request at a time, crashes included, every step of a handler is a step
\* of the atomic lifecycle or leaves it alone.
ImplementsLifecycle == Lifecycle!Spec
================================================================================
