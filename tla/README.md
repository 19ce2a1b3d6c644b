# TLA+ specifications of the e-commerce AI platform

Specifications of the AI core (`src/ai-core/app`, FastAPI over PostgreSQL and
Redis), the TLC runs that check them on small instances and the proofs that
TLAPS checks for every instance. Paths below are relative to `src/ai-core/app`;
`widget.js`, `chat.php` and `AiCoreClient.php` are in the PrestaShop module
`src/platform-adapters/prestashop/aiassistant`.

## 1. The system

Four worker processes run one FastAPI application. A request of the shop's
widget, of the backoffice or of an administrator's tool passes the middleware of
`main.py` (rate limiter, then tenant context) and reaches an endpoint. State is
in PostgreSQL (tables per tenant), in Redis (pending admin actions, queues,
sessions, rate limits) and in a vector store (the searchable catalogue).
Handlers are coroutines: within one process they interleave at every `await`,
and the processes do not see each other's memory.

| Component | State | Operations | What is hard | What makes it correct |
|---|---|---|---|---|
| Admin action workflow (`core/security/admin_safety.py`, `domain/services/admin/agent_v2.py`, `api/v1/endpoints/admin.py`) | Redis: pending actions, human approval queue | command, confirm, reject, approve, execute, roll back | each handler reads an action, awaits, writes the copy back; confirmations delayed and expiring; dead workers | no effect without the confirmations its risk level asks for, not before the delay, by the own tenant, at most once, never after a rejection |
| Reliable job queue (`services/message_queue/reliable_queue.py`) | a Redis stream with consumer group, the sorted set of scheduled jobs, the dead letter queue | enqueue, schedule, consume, retry, claim, dead letter management | three loops per worker interleave with other workers' at every command; crashes between two commands | no job is lost, a job is dead only after its attempts, every job ends |
| Chat turn (`api/v1/endpoints/chat.py`, `services/chat/turn_orchestrator.py`, `services/rules/evaluator.py`, repositories) | tables conversation, message, coupon, rule, analytics event | send a message, end a conversation | eight transactions per turn, each may fail alone; retries with the same idempotency key; simultaneous questions | one question and one answer per turn in one conversation, coupon limits, counters equal to events, every attempt answered |
| Catalogue (`services/catalog`, `infrastructure/external/prestashop`, `services/rag`) | table product, vector store collection per tenant | synchronise page by page, re-index page by page, search | the shop changes between two pages; pages, chunks and embeddings fail alone; two synchronisations at once | a completed run stored what it read and mirrors the shop, nothing the shop still has disappears, every run ends |
| Widget and front controller (`views/js/widget.js`, `controllers/front/chat.php`, `classes/AiCoreClient.php`) | the DOM and closures of each page, `sessionStorage` of each tab; cart rules and cart of the shop | open, greet or replay, send, apply a coupon, navigate | three parties, each of which gives up while the next one goes on; pages that unload in the middle; several tabs | a button offers what can be redeemed and says what is in the cart, the input is blocked exactly while a reply is awaited, a page shows one conversation in its order |
| FAQ (`api/v1/endpoints/faq.py`, `services/faq`) | table FAQ item | regenerate, edit | delete and insert of concurrent regenerations | one set of items per tenant |
| Tenants and API keys (`api/middleware/tenant_context.py`, `api/v1/endpoints/tenants.py`) | table tenant, a cache per process | authenticate, rotate, deactivate, update settings | the cache of another process, a lookup that races a rotation | a revoked key stops working, an update is not lost |
| Rate limiting (`api/middleware/rate_limiter.py`, `core/security/rate_limiter.py`) | Redis sorted sets and counters | admit or reject a request | concurrent windows, requests of one second, Redis down | no more than the limit per window |
| Coupon redemption (`api/v1/endpoints/coupons.py`) | table coupon | generate, validate | two validations at once | a coupon is accepted once |
| Sessions (`infrastructure/cache/stateless_session.py`) | Redis | create, update, add a message, delete | read, change and write back by several workers | no message lost, a deleted session stays deleted |
| Database router, health checks (`infrastructure/database/read_replica.py`, `core/health/checker.py`) | health of nodes | route, check | lag, failures and recoveries | writes go to the primary, readiness follows the critical checks |
| Guardrails (`core/security/guardrails.py`) | none | check a text | several checks fold into one verdict | a blocking check always blocks |
| Legacy queue (`services/message_queue/redis_queue.py`) | a Redis stream | publish, consume | as the reliable queue | as the reliable queue |

How they interact: the chat turn evaluates the rules that the administration
endpoints edit, issues coupons that the shop later redeems, reads the product
index that the catalogue keeps, and writes the messages and events that the
reports read. The admin workflow executes effects (coupons, rules, segments) in
transactions of its own. The queue is used by no endpoint yet. The widget talks to
the front controller of the shop only, which adds the visitor's identity, calls the
chat turn or the history with a timeout of 10 s and turns coupons into cart rules.
The backoffice is a client without state.

The whole list, with the parts that are not modelled and why, is in
`PROJECT.json` under `components`; `hazards` lists what is hard to test, each
with the properties that cover it.

## 2. Plan

Modules, in the order in which they are written, most important first:

1. `AdminSafety`, implementing `AdminLifecycle`, with `AdminSafetyProofs`: modelled,
   checked, every safety property and the refinement proved.
2. `ReliableQueue`: modelled and checked; `ReliableQueueProofs` proves every safety
   property of its runs.
3. `ChatTurn`, implementing `TurnLog`: modelled, checked, every safety property and the
   refinement proved.
4. `Catalog`: synchronisation with a shop that changes in the meantime,
   composed with the indexer and the search that read the same table: modelled
   and checked, every safety and action property proved in `CatalogProofs` (the last
   one for catalogues without equal names).
5. `Widget`: the browser, the shop and the core as one system: modelled and checked,
   every safety property proved in `WidgetProofs`.
6. `Gateway`: rate limiter, tenant cache of each worker and the endpoints that change
   what the requests of a tenant share: modelled and checked, every property of its
   run proved in `GatewayProofs`.
7. Next: the FAQ's regeneration beside the catalogue; the database router with the
   health checks.

One run per question: an instance with all the trouble (crashes, failures,
interleaving) for what must hold always, one with serial requests or without
crashes for what holds only then, and one for each disagreement between the code
and what it says of itself. Bounds stay at two or three actors, two or three
items and one failure of each kind.

Theorems worth proving: type correctness of each core module; the safety properties of
the admin workflow and its refinement (proved); no job is lost and none is dead before
its attempts (queue); `CouponShown` and the refinement of `TurnLog` (chat);
`CompletedStoredAll` (catalogue, proved); what a page says of coupons and of its waiting
(widget, proved); the properties of the gateway (proved).

## 3. Modules and code

### AdminSafety, AdminLifecycle, MCAdminSafety

Every HTTP request is a process (`pc`, `op`, `target`, `caller`). `store` is the Redis
key of every pending action, `queue` the human approval queue, `copy` the request's
private `PendingAction`, `now` the clock. A handler is three kinds of step, because it
awaits between them: `Load` reads the action and refuses another tenant's, one decision
(`ConfirmAction`, `ApproveAction`, `RejectAction`, `ExecuteAction`, `RollbackAction`)
checks and changes the copy, `Change` writes it back. `Command` draws up and stores a
new action or runs a read-only one at once; `RunExecutor` is the effect. A worker dies
at any step (`Crash`), a Redis write of an executed action fails (`StoreFails`): not
applied, or applied with its reply lost, in which case the action is COMPLETED first and
then FAILED. `grants` (the confirmations and approvals that were counted) and `effects`
(when the executor took effect) are history.

`AdminLifecycle` is the promise about one action with atomic steps: one direction
through the statuses, one effect, only while it is executed. `AdminSafety`
implements it when requests are served one at a time, crashes included.

### ReliableQueue, MCReliableQueue, ReliableQueueProofs

One Redis command is one step. `stream` holds every entry ever added with its
state for the consumer group (new, pending, acknowledged, trimmed), `scheduled`
the sorted set, `dlq` the dead letter stream. A worker is `step`, `batch`, `cur`
(consume loop) and `due`, `moving` (scheduler loop); its claim loop is one
command. Operators of the dead letter queue are sessions. The time a job waits,
priorities and statistics are left out: a scheduled job may be due at any moment,
which allows more behaviours than the code has.

### ChatTurn, TurnLog, MCChatTurn, ChatTurnProofs

Every request is an attempt at a turn, a turn being an idempotency key. The tables
`conversations`, `messages`, `coupons`, `usage` and `events` change in the transactions
of the handler; a transaction that reads before it writes is two steps
(`Resolve`/`LogQuestion`, `CheckCoupon`/`IssueCoupon`, `ReadUsage`/`CountRule`).
`Failing` names the transactions that may fail; the handler survives each of them in its
own way (`LogFails`, `CountFails`, the second disjuncts of the others). A commit may
also take place and yet raise: the turn then goes on as if its question was not stored
(`LogQuestion`), or without the coupon that it issued (`IssueCoupon`); `known` in the
row tells such a coupon apart. For the answer and the counters the handler does the same
in either case. A worker dies anywhere. Texts are data: an answer names the attempt that
generated it and the coupon in it.

Rows are in the order in which they are committed, which stands for `created_at`.
A configured LLM provider is assumed: without one `get_llm_provider` raises
before any of this and the request is answered with an error.

`TurnLog` is the promise about stored messages: a question is stored once, its
answer at most once, after it and in its conversation.

### Catalog, MCCatalog, CatalogProofs

Every request to `POST /sync/catalog` is a process. `shop` (external), `table` (the
tenant's rows of `product`) and `docs` (the tenant's collection of the vector store)
hold one version of each product, or none; `sync` and `reindex` are the `SyncResult`
and `IndexResult` of the request with the variables of the two loops. `Begin` checks
the connection, `Fetch`/`Persist` are one turn of the loop of `sync_products`,
`CountProducts`/`DeleteProducts` the deletion (two statements), then
`ReadPage`/`IndexPage` are one turn of the loop of `index_all_products`, and `Prune`
its deletion. Each call of the shop, of PostgreSQL or of the vector store is one
step; what can go wrong in it is a member of `Failing`. Between the steps
`EditShop` adds, changes, deactivates or removes a product, another request of the
tenant goes on, or the worker dies.

The columns of a row are a version number and two flags, `active` and `real` (its
quantity is that of `/stock_availables`, not the one in `/products`, which the client
falls back to). `calm` is history: the requests whose shop and tables nobody else
changed since they began. `delete_missing` of both loops is an option of the
model although the endpoint never sets it; the parameters are part of the
services' interface.

### Widget, MCWidget, WidgetProofs, NaturalExtrema

A callback of `widget.js` is one step, since JavaScript runs to completion: `Toggle`,
`SendMessage`, `ClickApply` are the listeners, `ReceiveAnswer`, `ReceiveError` and
`Receive` what follows a `fetch`, `Navigate` the timer. `page` is the DOM of each
tab (`shown` are the children of `messagesEl`, a coupon button being an entry with
three states) with the two flags of its closures, `saved` the conversation in
`sessionStorage`. A message that was sent (`sends`) is one record with three sides,
the tab that waits for it, the front controller and the core: any of the three can
be gone while the others go on (`Refuse`, `TimeOut`, `Disconnect`, `Unload`). Reads of
the history and coupon clicks are the slots of `call`. `rules`, `cart` and `filled`
are the shop, `log` and `active` the core. The turn of the core is the part of
`ChatTurn` that the widget can observe, in three steps (`Resolve`, `LogQuestion`,
`Answer`); which answers bring a coupon or a product is data (`Issues`, `Finds`).

### Gateway, MCGateway, GatewayProofs

Every request is a process that passes the limiter, the tenant context (`CheckCache`,
`Lookup`, `FillCache`) and an endpoint: rotation of the key (`RotateKey`, `ClearCache`),
update of the settings (`ReadSettings`, `WriteSettings`), redemption of a coupon
(`GetCoupon`, `MarkUsed`), or one that changes nothing here (`Serve`). A worker restarts
with an empty cache. The address is one, hence one window, and so is the tenant.

The limiter reads the clock (`Arrive`) and then awaits Redis: `Count` is the
pipeline, executed whenever Redis gets it, with the second that was read before. So
pipelines of several requests run late and out of the order of their seconds. `Retract`
is the ZREM of a refused request, `FailOpen` a pipeline that raises, whether it was
executed or not, `Expire` the EXPIRE of the key. `window` is the sorted set, whose members
are seconds and not requests, exactly as the code adds them; `LimitOf` is the limit of the
path (twice the default below `/admin/`, half of it below `/analytics/`) on this one
window. `cache` is the dictionary of each worker; `key`, `settings`, `used` are the rows.
A commit fails, or takes place and yet raises (`unacknowledged`). `before` in what a
request knows, `when` and `verdict`, `rotator` and `late` are history. `traffic`, chosen
once, bounds a behaviour: which operations it has, how many requests, seconds and
failures.

## 4. Runs

| Run | Instance | What it shows |
|---|---|---|
| `admin_crash` | 3 requests by 3 admins of 2 tenants, one action of each approval type, every operation, crashes and failing writes | authorised, delayed, timely effects; the approval queue complete |
| `admin_serial` | 3 requests, one at a time, with crashes | one effect, no effect after a rejection, the lifecycle is implemented, an execution ends |
| `admin_reject_race` | 2 requests on one action | disagreement: a rejected action is executed |
| `queue_faults` | 1 job, 2 workers, 1 operator, one incident, 3 entries | nothing is lost, dead only after all attempts |
| `queue_steady` | 2 jobs, 1 worker, one stop, 4 entries | a stop is clean, one outcome per job, every job ends |
| `queue_stranded` | 1 job, 2 workers, a crash | disagreement: the message of a dead worker is claimed for ever and never processed |
| `chat_serial` | 3 questions of 2 visitors, 3 attempts one at a time, crashes, failing limits and answers | coupon limits, counters equal to events, no second LLM call |
| `chat_race` | 2 questions of one customer, 2 attempts interleaved, four rules, every transaction may fail, crashes | `TurnLog`, no coupon lost on the way or shown to another turn, every attempt answered |
| `chat_foreign_answer` | 3 attempts, one at a time, a crash | disagreement: a retry gets the answer to another question |
| `catalog` | 2 requests (the endpoint's, and one that deletes and prunes), 3 products in pages of 2, one change of the shop, one failure of any kind | COMPLETED stored what it read and mirrors the shop, the search sees the same, every request ends |
| `widget` | 2 tabs with one other request each, 2 messages, the second with a coupon, the first with a product, one reload, one thing that goes wrong, a history of 3 | buttons and greeting true, input blocked exactly while waiting, one conversation per page in its order, nobody waits for ever |
| `gateway` | 2 workers, 3 keys, a limit of 2 (4, 1 by path) in 3 seconds, and one of three kinds of traffic: 3 requests to the endpoints with a failure, 3 requests in 4 seconds, 2 requests in 4 seconds with a failure | the limit of each path holds for seconds, however late the pipelines; a replaced key is forgotten, a coupon is redeemed once, an update is kept |

Why the bounds are enough. The handlers of the first three components touch one
action, job or turn, and interfere only by overwriting it or by reading what the other
has half done: two actors reach every pair of overlapping steps, the third request
(admin) lets a double confirmation race a third operation. The clock counts
delays, cooldowns and windows in units in which each has both sides of its boundary
within `MaxTime`. `MaxRetries = 1` has a first, a last and no attempt left;
`MaxLength = 1` makes every addition trim; `MaxLog` cuts behaviours whose
schedulers duplicate a job without end. Each of the rules in `AllRules` takes
another path through the turn. Three products in pages of two are a full page and a
partial last one, two or one (after a change of the shop) a full last page and an
empty one; a change and a failure combine, so that a request meets what an
interrupted one left behind.

In `widget`, two messages are what it takes for a conversation to be continued, for two
tabs to start two conversations, and for a history to be longer than what is replayed
(`HistoryLimit` stands for 50); one reload and the timer of the product page give a
page that was left while something was under way. In `gateway`, a third request is
what a rotation by a key that is already replaced needs, and one more than the window
admits; a fourth second lets the window slide past a request and its key expire. Two
requests are one more than the limit of `/analytics/`, and enough for a refusal that
removes, or fails to remove, the second of the other one. The seconds and the endpoints
touch no state in common, which is why each kind of traffic has its own bounds.

Symmetry is used for interchangeable identifiers only, and never in a run with
a temporal property.

**Fairness.** A handler whose worker lives goes on: weak fairness of `Handle` per
request (admin, chat, catalogue), since a database, Redis, shop, vector store or LLM
call returns or raises (every client has a timeout). In the queue every loop of a worker
goes on (they are tasks of one event loop) and a worker that is down is started again:
weak fairness of `Run`, `Consume`, `Claim`, `ProcessScheduled` per worker. In the widget
every message and every call goes on: weak fairness of `Handle` and `HandleCall`, since
the front controller answers within the 10 s of `CURLOPT_TIMEOUT` and the browser runs
the callbacks of a settled `fetch`; the visitor, who opens, sends, clicks and leaves, is
not forced. Producers, operators, clients, crashes, failures and the clock are never
forced.

## 5. What the runs found

Each disagreement is a run with `expect: violation` and an entry of `findings`
that quotes what the code says of itself. Further observations, from variations of
the same instances:

- concurrently, two executions of one approved action both run it: `OneEffect`
  and the refinement of `AdminLifecycle` hold one request at a time only;
- the two confirmations of a critical action may both come after the delay, in
  which case the second one executes at once: the delay counts from the request;
  `cooldown_seconds` of an action definition is never read;
- with two workers, both schedulers move a due job and it may have two outcomes:
  `OneOutcome` holds with one worker;
- a job that is trimmed at the stream's length limit counts as dropped;
- `_find_existing_assistant_response` reads ten messages: in a longer conversation
  a retry does not find its answer and calls the LLM again, although
  `ChatMessageRequest.idempotency_key` promises the cached response;
- concurrently, the usage counter of a rule loses increments and a customer may
  get two active conversations: `UsageMatchesEvents` holds one attempt at a time;
- the second check of the coupon limits ("la course entre deux requêtes simultanées
  est possible", `api/v1/endpoints/chat.py:881`) and the insertion are separate
  statements without a lock or a unique index: two attempts of `chat_race` that both
  check before either inserts both get a coupon. `CouponLimits` holds one attempt at a
  time;
- `get_products` counts the products that it could parse, so that one product of a
  full page that cannot be parsed makes `has_more` false
  (`infrastructure/external/prestashop/client.py`): the later pages are not read, and
  with `delete_missing` their products are deleted although the shop has them;
- a worker that dies between the commit of a coupon and the reply leaves a coupon
  that the visitor never saw and that the rule counts;
- a scheduler moves a due job with XADD and then ZREM of the job's text: if the job
  fails, is retried by an operator and is scheduled again with the same text in
  between, the late ZREM deletes the new schedule and the job is lost. `Accounted`
  therefore speaks of jobs that no operator retried;
- a statement that fails in `upsert_products_bulk` is caught per batch, but nothing
  rolls the session back, so that every later batch of the run fails too;
- a fetch error ends the loop with COMPLETED when nothing failed before: only
  `errors` tells. `CompletedMirrors` therefore asks for no error. What cannot be
  parsed, and a stock that cannot be read, leave no trace even there;
- `_delete_missing` of the indexer catches its errors and the run is COMPLETED with
  no error: `CompletedIsSearchable` promises that nothing stale can be found only if
  the indexer says that it deleted something;
- `count_products` without filters counts active products only (`ProductFilter` has
  `active_only=True`), so that the refusal to delete more than 90 % does not see the
  inactive ones, and `get_sync_status` always reports none of them;
- the indexer reads pages in `ORDER BY name`: with equal names two pages may
  overlap, and a product be missed (`NameOf` is injective in the run, and the theorem
  assumes it);
- no caller passes `delete_missing`: a product that the shop removed or deactivated
  stays active in the table and in the search; and the vector store of production
  (`ChromaSearchableVectorStore`) has no `delete`;
- after a change of the shop or a second request in the middle of a run, COMPLETED
  says nothing about the table as a whole: the properties speak of undisturbed runs;

- the widget replays the history under what the page shows already: a page that is
  opened, closed and opened again while the history loads, or in which a message is
  sent meanwhile, shows messages twice. `AnsweredInPlace` allows that;
- `GET /chat/history` returns the oldest 50 messages (`limit` with `order_asc`), so
  that in a longer conversation the last ones are missing after a navigation; the
  comment in `_load_recent_history` describes this very mistake for the turn itself;
- the timer of `maybeNavigate` runs although the shopper has sent another message:
  the page is left while its reply is awaited;
- the first reply of a tab is the only place where it learns its conversation: when it
  is lost, or the question could not be stored (the id is then an invented one), the
  next message starts from the active conversation of the visitor or a new one;
- when the shop gave up waiting, a coupon that the turn issued is not turned into a
  cart rule; a button that a page had is gone after a navigation, because the history
  holds texts only;
- two clicks on two coupons at once both pass `checkValidity` before either code is in
  the cart, so that the restriction "Non cumulable" of `createCartRuleFromCoupon` does
  not hold;
- the limiter is the outermost middleware (added last), so that neither the tenant nor
  its own limit is known there: the window is per address;
- requests of one second are one member of the window, so that the limiter counts
  seconds and not requests: at the shipped 100 per 60 seconds the default and the
  `/admin/` paths refuse nobody (whose pipeline is not half a minute late), and only
  `/analytics/`, with 50, does. A rejected request removes the member of its second, which is also that of an accepted one.
  `AtMostLimit` therefore promises at most limit different seconds, without those in
  which a request was refused; dropping this exemption, TLC finds it violated. The
  removal is outside the `try`: Redis failing there makes the request fail, although the
  limiter is meant to fail open;
- the second is read before the pipeline is awaited. A pipeline that comes late finds a
  window from which a later request has pruned, and adds a second that is past: with a
  limit of 2 in 3 seconds, requests of the seconds 0, 1 and 2 all pass if the third one
  is executed after a request of second 4. `AtMostLimit` speaks of the requests that are
  both stamped and counted within the window (`time`, `when`), in whatever order; without
  `when` it is violated. A request that passed because Redis failed is not counted at all;
- the other workers keep a replaced key until they restart, and so does the rotating
  worker if a lookup with the old key was under way; plan and limit in the cache are
  never refreshed either;
- of two rotations at once both are answered with a key and one of the keys is dead;
- of two updates of the settings at once the second erases the first, whatever their
  fields; of two redemptions of a coupon at once both succeed;
- a commit whose acknowledgement is lost answers with an error: a rotation then has
  replaced the key by one that nobody knows, and the old one stays in the cache of this
  worker too (`RevokedIsForgotten` counts a rotation once the handler knows of it); an
  update is stored and may erase another one that was answered (`UpdateKept` names it);
- the same in a turn of the chat: the coupon is issued, counts for the limits of its rule
  and is shown to nobody (`CouponShown` asks for the coupons that the attempt knows of),
  and a question that is stored is answered as one that is not: its answer may be stored
  nowhere, and a retry generates another one;
- the log messages of the queue say "after max_retries attempts" where the handler had
  one attempt more, which is what `DeadAfterAllAttempts` counts.

## 6. Proofs

`AdminSafetyProofs` proves every safety property of the runs `admin_crash` and
`admin_serial`, and the refinement. For any set of requests, callers, tenants,
identifiers and any action definitions, with crashes and concurrency:
`TypeCorrect` (`Spec => []TypeOK`), `SafetyInvariant` (`Spec => []SafetyInv`) and
from it `EffectsAuthorised`, `DelaysRespected` and `ConfirmationsInTime`; and
`QueueCovered` (`QueueCoversPending`). For requests handled one at a time:
`AloneOneEffect`, `RejectionsHold` and `AloneImplementsLifecycle`.
The assumptions are `SafetyAssumption` (types of the constants) and
`NoneAssumption` (`None` is no pending action).

The first three properties are not inductive: a stale copy about to be written back
can claim a confirmation, so what matters is every place that holds a claim.
`SafetyInv` says that whatever Redis *or any private copy* claims (`Evidence`) is
backed by requests in `grants`, which only grows; that a copy agrees with Redis
on the fields no handler changes (`SameAction`); that a request which has not been
counted yet is not in `grants` (so two confirmations are two requests); and that
the identifiers of new actions are fresh. The proof has one lemma per action of
`Next`: a handler's step adds its own request to `grants` before it raises the
count of its copy, a `Store` moves evidence from the copy to Redis, and a
tick of the clock only weakens the bounds on `now`.

The queue of human approvals and the action are two keys of Redis and no command
writes both. `QueueInv` adds to `QueueCoversPending` what holds between the two
commands: a request that is about to store a waiting action is the command which
created it and has already listed it, and a rejection that is about to take an action
out of the queue finds it no longer waiting. The same lemmas say of every handler what
it stores (`QueueStored`) and which action it takes out (`QueueLeft`).

`AloneOneEffect` (`OneEffect`), `RejectionsHold` (`RejectedNeverRuns`) and
`AloneImplementsLifecycle` (`ImplementsLifecycle`) are theorems under `ASSUME Serial`,
because the code makes no such promise to concurrent requests (`admin_reject_race`);
crashes and lost writes are included. `Alone` says that at most one request is in its
handler, and `LifecycleInv` what that gives: a request that has loaded an action still
holds what Redis has (`decide`), what it is about to store is one arrow of the lifecycle
from the phase that Redis still has (`Writes`), an action runs while Redis says
`executing` and has not run before, and one that ran, or was rejected, is in a phase
from which nothing runs. An execution that dies after its effect stays in `executing`,
from which nobody starts again; one whose last write was applied without a reply goes
from `completed` to `failed`, which `AdminLifecycle` allows and from which nothing runs
either. Every step is then a step of `AdminLifecycle` or a
stutter (`LifecycleStep`), for any sets and any definitions.

`ReliableQueueProofs` proves every safety property of the runs `queue_faults` and
`queue_steady`, from `QueueAssumption` and `NoneAssumption` (`None` is no job). For any
jobs, workers, operators, bounds and incidents: `TypeCorrect`, `JobsAccounted`
(`Accounted`) and `DeadWereTried` (`DeadAfterAllAttempts`). The types need `TypeInv`,
which adds that a loop which handles a message, or an operator that retries one, holds an
entry that is there. `DeadAfterAllAttempts` follows from `AttemptsInv`: wherever a copy
of a job is (stream, sorted set, a scheduler's snapshot), it carries at most as many
retries as its handler had attempts, and one less while it is handled. `Accounted` is the
hard one. A copy is acknowledged, or taken out of the sorted set, after another one was
stored; with two schedulers both copies may be about to go, and an invariant that only
says "another copy exists" would let each be the other's reason. `AccountInv` therefore
orders them: before a failed message is acknowledged, a copy with *more* retries exists;
before a scheduled job is removed, there is one in the stream with as many retries or a
scheduled one with more (`Kept(j, n, m)`). A chain of copies with ever more retries
cannot close, so no step removes the last one (`KeptStep`). Two schedules of one job with
equal fields are one member of the sorted set, which is why jobs that an operator revived
are left out of the property. `GracefulStop` (`StopsClean`) and `AloneOneOutcome`
(`OneOutcome`) are theorems about an environment, like the run that checks them: nothing
but stops happens to the workers (`Incidents \subseteq {"stop"}`; any number of workers)
and, for the second, there is one worker and operators retry nothing. `StopInv` says that
a pending message is in the batch of a loop and that a loop with a batch is not at its
end; `OnePlace` that a job has at most one *place* (an entry its worker is not done with,
a scheduled member not yet back in the stream, a dead entry) and none once its handler
returned, so that each step moves the place although storing and removing are two
commands. `Fate`, `OwnSteps` and `StepFrom` say what `Next` does to an entry and to a loop.

`ChatTurnProofs` proves every safety property that the runs `chat_race` and
`chat_serial` check, and the refinement, from `ChatAssumption` and `NoneAssumption`
(`None` is no memory, reply or number). For any attempts, turns, visitors, rules, and
whatever fails or dies: `TypeCorrect`, `CouponsShown` (`CouponShown`) and
`TurnsImplementLog` (`Spec => ImplementsTurnLog`). `CouponInv` says that a coupon is in
the memory of the attempt that issued it, if this attempt knows, and in no other, and
that it has only to count its rule and to answer. The refinement rests on `TurnInv`: a
turn has at most one message of each role, an answer comes after its question and in its
conversation, and an attempt that logged its question is in the conversation of the
*stored* one, whichever it created before; every step then is an `Ask`, an `Answer` or a
stutter of `TurnLog` (`TurnLogStep`). The other properties are promises to one attempt
at a time, and so are their theorems (`ASSUME Serial`, any number of attempts, crashes
and failures included): `CountersAgree` (`UsageMatchesEvents`) and `LimitsRespected`
(`CouponLimits`) because what an attempt read still holds when it writes (`CountInv`,
`LimitInv`); `AnsweredTurnsRest` (`AnsweredOnce`) because an attempt that is about to
decide has no stored answer (`AnswerInv`), which needs that the transactions of the
question and of the search succeed and that every conversation has at most `FirstWindow`
messages (`[]Fits`): the code promises it under no weaker condition (section 5).
`FewAttemptsRest` discharges `[]Fits` for at most `FirstWindow \div 2` attempts, as in
the run. `Reached`, `Continues`, `StoredGrows` and `CouponsGrow` say what `Next` does to
an attempt and to the tables.

`CatalogProofs` proves, for any products, requests, options, page size and limits,
whatever fails and however requests interleave: `TypeCorrect` (`Spec => []TypeOK`) and
`CompletedRunsStoreAll` (`Spec => []CompletedStoredAll`), from `CatalogAssumption` and
`NoneAssumption` (`None` is no `SyncResult`). `CompletedStoredAll` is not inductive:
the status is decided at the end from a counter of failures (`failed`), so `CatalogInv`
says that while a request is in its loops nothing that it read is missing unless the
counter is up (`Flagged`), that its status is not yet COMPLETED, and that it holds a
result wherever a step looks at one (`Shape`). One lemma per action; the steps that
end or continue a loop share `KeepStep`, `ReportStep` and `KeepIndexStep`.
`SynchronisationMirrors` (`Spec => CompletedMirrors`) needs to know what the pages read
so far are. `Reading` says that, as long as nobody interferes and no error is counted,
they are a `Prefix` of the products that the shop lists, in the order of their ids; that
the next offset is their number; that the table has them as the shop has them; and that
they are the whole list once the loop has ended. `Mirrored` says that what was reported
stays true while the request indexes. `SynchronisationIsSearchable`
(`CompletedIsSearchable`) says the same of the pages of the table in the order of names
(`Indexed`). It assumes `DistinctNames`, and must: with one name for all three products
of the run's instance TLC finds a run in which the second page overlaps the first and a
product is never indexed (section 5). Both rest on `NextSlice`: the slice of at most
`limit` products that starts at the length of a prefix extends the prefix, is
disjoint from it, and completes the list if it is short. It holds because the rank of
a product orders the products by how many come before them, and uses the least rank that
is missing (`NaturalExtrema`) and the pigeonhole principle. `OthersKeep` deals with the
steps of other requests once for all: either they write nothing, or the calm is over.

`GatewayProofs` proves, for any finite set of requests, any workers and settings, any
limit, window and bounds, every property of the run `gateway`, from
`GatewayAssumption`: `TypeCorrect`, `LimitRespected` (`AtMostLimit`),
`RevokedKeysForgotten` (`RevokedIsForgotten`), `CouponRedeemedOnce` (`RedeemedOnce`) and
`UpdatesKept` (`UpdateKept`). Each has an inductive invariant of its own, on top of
`TypeOK` and of `BeforeCommitted` (what was stored when a request arrived stays so).
`TimesInv` orders the second that was read, the execution of the pipeline and the clock.
`WindowInv` says that the second of an admitted request, unless a request of this second
was refused, is in the window until the clock is `Window` seconds past it, and that the
key lives as long: a pipeline prunes by a second that was read no later than now, so
pruning late prunes less. When a request is admitted, the seconds that count against it
are therefore members of what its pipeline left, which are less than its limit
(`AdmissionCounts`); a refusal only adds to the exempt seconds. `KeysInv` speaks of the
cache, of the lookups in flight and of the keys that nobody has replaced yet; `CouponInv` of
requests that are about to mark the coupon; `SettingsInv` of the copies that are about
to be written. Two lemmas about `Next` carry the proofs: `Kept` (what a step leaves
alone) and `Reached` (which step leads where).

`WidgetProofs` proves, for any tabs, slots of calls, bounds and data of the answers,
from `WidgetAssumption`: `TypeCorrect`, `ButtonsRedeemable` (`ButtonRedeemable`),
`AppliedIsInCart` (`AppliedTookEffect`), `GreetingOpens` (`GreetsFirst`),
`InputBlockedWhileWaiting` (`BusyWhileWaiting`), `PagesKeepTheirThread`
(`OneThreadPerPage`) and `AnswersInPlace` (`AnsweredInPlace`), which are the safety
properties of its run. Not even the types are inductive alone:
the outcome of a click is written to the entry at a position that was noted when the
click was made. `ClickInv` says that this entry is still the button, that a click has
it for itself, that a code which is about to be added is a rule of the shop and that a
click which succeeded left its code in the cart. `ButtonsInv` says where the
buttons come from: the answer that is on its way to a page brings a button only if its
code was made a rule before. Three lemmas about `Next` carry the proofs: `Origins` (which
step can have put an entry where it is), `Advanced` (what a step changes in a
message) and `OneCallGoesOn` (what it leaves of the calls). The last two
need what the core keeps as well. `LogInv` says that a stored message is in the
conversation of its record, and an answer behind its question; `ThreadInv` that a
message which names a stored conversation goes there, and that the message a page waits
for names the tab's, which needs `BusyWhileWaiting`; so a tab whose conversation is
stored never changes it (`SavedStays`). `ReadInv` says that a history on its way is the
beginning of the tab's conversation, even when an answer came first, and `PageInv` that
a page shows the question it waits for and answers of the tab's conversation only: an
answer that is received or replayed then finds its question above it (`BotPlace`). The
id under which a failed question is answered (`Unsaved`) is why the invariants speak of
*stored* conversations. `NaturalExtrema` has the two
facts about least and greatest elements that type the newest conversation and the
oldest rows.

Only model-checked: liveness (`ExecutionEnds`, `JobEnds`, `Answered`, `RequestEnds`,
`WaitsEnd`), which rests on fairness and `ENABLED`. Every invariant, every other
action property and both refinements that the passing runs check are theorems; those
that a run checks of one attempt or one worker at a time are theorems under that
condition, for every value of the other constants.

## 7. What is left out

- The in-memory fallback of the admin store when Redis is absent (one process),
  and the 7 days after which its keys expire, which is longer than every window.
- A Redis write of the admin workflow that is applied and yet raises, but for the last one
  of an execution (`StoreFails`): the handler stops there and answers with an error, so
  that the stores are those of a write followed by the death of the request (`Crash`).
  The properties of the workflow are about actions and requests of any tenant; that a
  request of another tenant is refused is a guard of `Load` and no property.
- Entries of the queue that a consumer has read but not acknowledged keep their data:
  the length limit of Redis (`MAXLEN`) would remove that, too. The consumer has a copy,
  and no other one looks at the data (section 5); but if it dies, `Accounted` takes the
  pending entry for the job, of which then only the id is left. Likewise a read whose
  reply is lost, which leaves messages pending for a worker that does not know them, as a
  crash does (`queue_stranded`).
- The deletion of rules: `_record_rule_triggered` counts only a rule that is still there,
  while it writes the event in any case. The retrieval service of the chat
  (`get_retrieval_service`) is obtained outside of every `try`: it is assumed to be there,
  as the LLM provider is.
- In the catalogue, which statements poison the session: a failed batch always does in
  the model, the worse case. The bounds on the errors that are kept (50 and 100) are one
  constant, `MaxErrors`.
- The parser of natural language commands, the audit log, texts, formatting.
- Retrieval and FAQ context of an answer: data of the LLM call.
- Categories, CMS pages and the operations on single products of the catalogue.
- Rates, delays and priorities of jobs; statistics of every component.
- In the widget: the back-forward cache of browsers, which would revive a page that
  was left; a duplicated tab, which copies `sessionStorage`; two visitors of one
  browser; the checkout, which empties the cart, and a shopper who removes a voucher from
  the cart in the shop: the button then still says that it is applied, since the widget
  never asks again (`AppliedTookEffect` is about what clicks do); the words of every text.
- In the gateway: several addresses and tenants, which share nothing; signatures;
  plans; reads of the database that fail, which change nothing; the differences
  between the clocks of the workers and of Redis, which are one clock here.
  `RedisRateLimiter`, the tiers of `core/security/rate_limiter.py` and
  `infrastructure/cache/stateless_session.py` are imported by no endpoint.
- Cryptography, serialisation, settings, monitoring.
