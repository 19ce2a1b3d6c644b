-------------------------------- MODULE ChatTurn --------------------------------
(***************************************************************************)
(* POST /chat/message (api/v1/endpoints/chat.py) over PostgreSQL: the      *)
(* attempts at a turn find or create the conversation, store the question  *)
(* under its idempotency key, look for an answer that is already there,    *)
(* let ChatTurnOrchestrator decide, issue the coupon of a rule, count the  *)
(* rule and store the answer.                                              *)
(*                                                                         *)
(* Every attempt is a process and every transaction at least one step; the *)
(* transactions that read before they write are two, since READ COMMITTED  *)
(* lets other attempts commit in between.                                  *)
(*                                                                         *)
(* Some definitions follow a faulty variant of theirs, which no action     *)
(* uses: the properties below tell the two apart.                          *)
(***************************************************************************)
EXTENDS Integers, Sequences, FiniteSets

CONSTANTS
  Attempts,    \* the requests that ever arrive
  Turns,       \* the idempotency keys; a key stands for one question
  Visitors,
  VisitorOf,   \* who asks each question
  CustomerOf,  \* the customer_id a visitor sends, or None
  Triggers,    \* the rules that the words of a question match
  RuleTable,   \* the active rules, by priority
  FirstWindow, \* how many messages the search for an answer reads (10)
  Hour,        \* the window of max_per_hour
  Serial,      \* TRUE: at most one attempt is being handled at a time
  MayCrash,    \* TRUE: a worker can die
  Failing,     \* the transactions that can fail
  MaxTime,     \* bound on the clock, for model checking
  None

Forever == -1

Rule ==
  [type: {"canned_response", "inject_instruction", "generate_coupon"},
   first_message: {"any", "only", "never"},
   cooldown: Nat \union {Forever},
   cap: Nat \ {0}]

Rules == DOMAIN RuleTable
Customers == {CustomerOf[v] : v \in Visitors} \ {None}

\* The transactions whose failure an attempt survives.
Transactions ==
  {"question", "find", "rules", "limits", "history", "coupon", "usage", "answer"}

ASSUME ChatAssumption ==
  /\ VisitorOf \in [Turns -> Visitors]
  /\ CustomerOf \in [Visitors -> Customers \union {None}]
  /\ RuleTable \in Seq(Rule)
  /\ Triggers \in [Turns -> SUBSET Rules]
  /\ FirstWindow \in Nat /\ Hour \in Nat /\ MaxTime \in Nat
  /\ Serial \in BOOLEAN /\ MayCrash \in BOOLEAN
  /\ Failing \subseteq Transactions
  /\ None \notin Attempts /\ None \notin Turns

VARIABLES
  conversations,  \* table conversation; an index is an id
  messages,       \* table message, in the order of created_at
  coupons,        \* table coupon
  usage,          \* usage_count of each rule
  events,         \* the rule_triggered events of each rule
  now,
  pc,             \* where each attempt is
  at,             \* what it has in memory
  reply,          \* what it was answered
  sent,           \* the conversation_id that each question was sent with
  calls           \* history: how often a turn reached the LLM

tables == <<conversations, messages, coupons, usage, events>>
client == <<reply, sent>>
vars == <<tables, now, pc, at, client, calls>>

--------------------------------------------------------------------------------
Conversation == [user: Customers \union Attempts, active: BOOLEAN]

\* The answer names the attempt that generated it and the coupon in its text.
Message ==
  [conv: Nat \ {0}, role: {"user", "assistant"}, key: Turns \union {None},
   of: Turns, coupon: Nat]

\* by, known: history; the attempt that issued it, and whether the attempt learnt it.
Coupon ==
  [rule: Rules, customer: Customers \union {None}, conv: Nat, at: Nat, by: Attempts,
   known: BOOLEAN]

\* What an attempt knows.  conv = 0: no conversation could be persisted;
\* rule = 0: no rule matched; coupon = 0: none issued.
Memory ==
  [turn: Turns, conv: Nat, logged: BOOLEAN, created: BOOLEAN, kept: SUBSET Rules,
   first: BOOLEAN, rule: Rules \union {0}, checked: Nat, coupon: Nat, seen: Nat]

NoFallback(k) ==
  [turn |-> k, conv |-> None, logged |-> FALSE, created |-> TRUE, kept |-> {},
   first |-> FALSE, rule |-> 0, checked |-> 0, coupon |-> 0, seen |-> 0]
Fresh(k) ==
  [turn |-> k, conv |-> 0, logged |-> FALSE, created |-> TRUE, kept |-> {},
   first |-> FALSE, rule |-> 0, checked |-> 0, coupon |-> 0, seen |-> 0]

Reply == [of: Turns, coupon: Nat, conv: Nat, cached: BOOLEAN]

\* An attempt that has nothing in memory, a question that was not sent and a
\* conversation that does not exist are told from those that do.
ASSUME NoneAssumption == None \notin Memory /\ None \notin Reply /\ None \notin Nat

Idle == {"idle", "done", "dead"}
InFlight == {r \in Attempts : pc[r] \notin Idle}

Goto(r, label) == pc' = [pc EXCEPT ![r] = label]
Keep(r, m, label) == at' = [at EXCEPT ![r] = m] /\ Goto(r, label)

Init ==
  /\ conversations = <<>> /\ messages = <<>> /\ coupons = <<>>
  /\ usage = [i \in Rules |-> 0] /\ events = [i \in Rules |-> 0]
  /\ now = 0
  /\ pc = [r \in Attempts |-> "idle"]
  /\ at = [r \in Attempts |-> None]
  /\ reply = [r \in Attempts |-> None]
  /\ sent = [k \in Turns |-> None]
  /\ calls = [k \in Turns |-> 0]

--------------------------------------------------------------------------------
(* The client: a question is sent with the conversation that the replies   *)
(* to its visitor named, if any; a retry repeats the request.              *)

Known(v) ==
  {reply[r].conv : r \in {q \in Attempts : reply[q] # None /\ VisitorOf[at[q].turn] = v}}

Send(r, k) ==
  /\ pc[r] = "idle"
  /\ Serial => InFlight = {}
  /\ IF sent[k] = None
       THEN \E c \in Known(VisitorOf[k]) \union {0} : sent' = [sent EXCEPT ![k] = c]
       ELSE UNCHANGED sent
  /\ Keep(r, Fresh(k), "resolve")
  /\ UNCHANGED <<tables, now, reply, calls>>

--------------------------------------------------------------------------------
(* _log_user_message                                                       *)

Customer(r) == CustomerOf[VisitorOf[at[r].turn]]

\* The user_identifier: an anonymous one is new for every request.
Identifier(r) == IF Customer(r) = None THEN r ELSE Customer(r)

\* get_active_by_user: the newest one.
NewestActive(user) ==
  LET mine == {c \in DOMAIN conversations :
                 conversations[c].user = user /\ conversations[c].active}
  IN IF mine = {} THEN 0 ELSE CHOOSE c \in mine : \A d \in mine : d <= c

\* get_by_id of the conversation that the client names, or get_or_create, up
\* to what it finds.
Resolve(r) ==
  LET m == at[r]
      named == sent[m.turn]
  IN /\ pc[r] = "resolve"
     /\ Keep(r, [m EXCEPT !.conv = IF named # 0 THEN named ELSE NewestActive(Identifier(r))],
             "log")
     /\ UNCHANGED <<tables, now, client, calls>>

Stored(k, role) == {i \in DOMAIN messages : messages[i].key = k /\ messages[i].role = role}

\* create_idempotent: INSERT ... ON CONFLICT (idempotency_key) DO NOTHING.
\* The keys of the answers are derived from those of the questions.
Inserted(msg) ==
  IF msg.key # None /\ Stored(msg.key, msg.role) # {} THEN messages ELSE Append(messages, msg)

\* The rest of the transaction.  The conversation is created even when the
\* question is there already, possibly in another one: the attempt goes on in
\* the conversation of the stored question.
ConversationResolved(conv, stored) == conv
ConversationOf(conv, stored) ==
  IF stored = {} THEN conv ELSE messages[CHOOSE i \in stored : TRUE].conv

\* The turn goes on with the conversation id that the client named, or one that
\* does not exist.
Fallback(r) ==
  /\ "question" \in Failing
  /\ Keep(r, [at[r] EXCEPT !.conv = sent[at[r].turn]], "filter")

\* The commit may take place and yet raise.
LogQuestion(r) ==
  LET m == at[r]
      conv == IF m.conv = 0 THEN Len(conversations) + 1 ELSE m.conv
      stored == Stored(m.turn, "user")
  IN /\ pc[r] = "log"
     /\ conversations' = IF m.conv = 0
                           THEN Append(conversations, [user |-> Identifier(r), active |-> TRUE])
                           ELSE conversations
     /\ messages' = Inserted([conv |-> conv, role |-> "user", key |-> m.turn, of |-> m.turn,
                              coupon |-> 0])
     /\ \/ Keep(r, [m EXCEPT !.conv = ConversationOf(conv, stored),
                             !.logged = TRUE, !.created = stored = {}],
                IF stored = {} THEN "filter" ELSE "find")
        \/ Fallback(r)
     /\ UNCHANGED <<coupons, usage, events, now, client, calls>>

\* The transaction fails: nothing is stored.
LogRaises(r) ==
  /\ "question" \in Failing
  /\ pc[r] \in {"resolve", "log"}
  /\ Goto(r, "raised")
  /\ UNCHANGED <<tables, now, at, client, calls>>
LogFails(r) ==
  /\ pc[r] \in {"resolve", "log"}
  /\ Fallback(r)
  /\ UNCHANGED <<tables, now, client, calls>>

--------------------------------------------------------------------------------
(* _find_existing_assistant_response                                       *)

Of(conv) == {i \in DOMAIN messages : messages[i].conv = conv}

\* The first messages of a conversation.
FirstOf(conv) == {i \in Of(conv) : Cardinality({n \in Of(conv) : n < i}) < FirstWindow}

\* Any answer that comes later than the question.
AnswersBefore(k, window) ==
  {i \in window : /\ messages[i].role = "assistant"
                  /\ \E n \in window \intersect Stored(k, "user") : i < n}
AnswersAfter(k, window) ==
  {i \in window : /\ messages[i].role = "assistant"
                  /\ \E n \in window \intersect Stored(k, "user") : n < i}

Answer(r, of, coupon, cached) ==
  /\ reply' = [reply EXCEPT ![r] = [of |-> of, coupon |-> coupon, conv |-> at[r].conv,
                                    cached |-> cached]]
  /\ Goto(r, "done")

FindAnswer(r) ==
  LET found == AnswersAfter(at[r].turn, FirstOf(at[r].conv))
  IN /\ pc[r] = "find"
     /\ \/ /\ found # {}
           /\ \E i \in found :
                /\ \A n \in found : i <= n
                /\ Answer(r, messages[i].of, messages[i].coupon, TRUE)
        \/ /\ found = {} \/ "find" \in Failing
           /\ Goto(r, "filter")
           /\ UNCHANGED reply
     /\ UNCHANGED <<tables, now, at, sent, calls>>

--------------------------------------------------------------------------------
(* _load_active_rules and _drop_exhausted_coupon_rules                     *)

SameVisitor(c, customer, conv) ==
  \/ customer # None /\ c.customer = customer
  \/ conv # 0 /\ c.conv = conv

\* A faulty variant: anonymous visitors are not looked at.
SameCustomer(i, customer, conv) ==
  \E n \in DOMAIN coupons :
    /\ coupons[n].rule = i
    /\ customer # None /\ coupons[n].customer = customer
    /\ RuleTable[i].cooldown = Forever \/ coupons[n].at > now - RuleTable[i].cooldown
\* _visitor_already_has_coupon: the latest coupon of the rule for this
\* customer or this conversation is too recent.
VisitorHasCoupon(i, customer, conv) ==
  \E n \in DOMAIN coupons :
    /\ coupons[n].rule = i
    /\ SameVisitor(coupons[n], customer, conv)
    /\ RuleTable[i].cooldown = Forever \/ coupons[n].at > now - RuleTable[i].cooldown

Issued(i, since) == {n \in DOMAIN coupons : coupons[n].rule = i /\ coupons[n].at >= since}

CapReached(i) == Cardinality(Issued(i, now - Hour)) >= RuleTable[i].cap

Exhausted(i, r) ==
  /\ RuleTable[i].type = "generate_coupon"
  /\ VisitorHasCoupon(i, Customer(r), at[r].conv) \/ CapReached(i)

\* Without the rules there is no match, without the limits no rule is dropped.
FilterRules(r) ==
  /\ pc[r] = "filter"
  /\ \E kept \in {{i \in Rules : ~Exhausted(i, r)}}
                   \union {{} : t \in Failing \intersect {"rules"}}
                   \union {Rules : t \in Failing \intersect {"limits"}} :
       Keep(r, [at[r] EXCEPT !.kept = kept], "history")
  /\ UNCHANGED <<tables, now, client, calls>>

--------------------------------------------------------------------------------
(* _load_recent_history: what the turn needs of it is whether it is empty. *)

LoadHistory(r) ==
  LET m == at[r]
      others == Of(m.conv) \ (IF m.logged THEN Stored(m.turn, "user") ELSE {})
  IN /\ pc[r] = "history"
     /\ \E first \in {others = {}} \union {TRUE : t \in Failing \intersect {"history"}} :
          Keep(r, [m EXCEPT !.first = first], "decide")
     /\ UNCHANGED <<tables, now, client, calls>>

--------------------------------------------------------------------------------
(* ChatTurnOrchestrator.process_turn, which only decides.                  *)

\* RuleEvaluator._matches_conditions, the words of the question given.
Matches(i, k, first) ==
  /\ i \in Triggers[k]
  /\ RuleTable[i].first_message = "only" => first
  /\ RuleTable[i].first_message = "never" => ~first

\* RuleEvaluator.evaluate: the first rule that matches.
Evaluated(m) ==
  LET matching == {i \in m.kept : Matches(i, m.turn, m.first)}
  IN IF matching = {} THEN 0 ELSE CHOOSE i \in matching : \A n \in matching : i <= n

TypeOf(i) == IF i = 0 THEN "no_rule" ELSE RuleTable[i].type

\* The guardrails block the question.
Block(r) ==
  /\ pc[r] = "decide"
  /\ Goto(r, "store")
  /\ UNCHANGED <<tables, now, at, client, calls>>

\* A canned response needs no LLM.  An error of the LLM or of the output
\* guardrails forgets the rule; the coupon of a rule comes after the answer.
Decide(r) ==
  LET m == at[r]
      i == Evaluated(m)
  IN /\ pc[r] = "decide"
     /\ IF TypeOf(i) = "canned_response"
          THEN Keep(r, [m EXCEPT !.rule = i], "read_usage") /\ UNCHANGED calls
          ELSE /\ calls' = [calls EXCEPT ![m.turn] = @ + 1]
               /\ \/ Goto(r, "store") /\ UNCHANGED at
                  \/ Keep(r, [m EXCEPT !.rule = i],
                          CASE TypeOf(i) = "generate_coupon" -> "check"
                            [] TypeOf(i) = "no_rule" -> "store"
                            [] OTHER -> "read_usage")
     /\ UNCHANGED <<tables, now, client>>

--------------------------------------------------------------------------------
(* _generate_coupon_from_rule: the limits are read again, then the coupon  *)
(* is inserted.  An insertion by another attempt between the two reads     *)
(* could only make the second one stricter: they are one step.             *)

Refused(i, r) == VisitorHasCoupon(i, Customer(r), at[r].conv) \/ CapReached(i)

CheckCoupon(r) ==
  LET m == at[r]
  IN /\ pc[r] = "check"
     /\ \/ /\ ~Refused(m.rule, r)
           /\ Keep(r, [m EXCEPT !.checked = now], "issue")
        \/ /\ Refused(m.rule, r) \/ "coupon" \in Failing
           /\ Goto(r, "read_usage") /\ UNCHANGED at
     /\ UNCHANGED <<tables, now, client, calls>>

\* created_at is the time at which the transaction began.
CouponOf(r, known) ==
  [rule |-> at[r].rule, customer |-> Customer(r), conv |-> at[r].conv, at |-> at[r].checked,
   by |-> r, known |-> known]

\* A commit that fails gives the attempt no coupon, whether it took place or not.
IssueCoupon(r) ==
  /\ pc[r] = "issue"
  /\ \/ /\ coupons' = Append(coupons, CouponOf(r, TRUE))
        /\ Keep(r, [at[r] EXCEPT !.coupon = Len(coupons) + 1], "read_usage")
     \/ /\ "coupon" \in Failing
        /\ coupons' \in {coupons, Append(coupons, CouponOf(r, FALSE))}
        /\ Goto(r, "read_usage") /\ UNCHANGED at
  /\ UNCHANGED <<conversations, messages, usage, events, now, client, calls>>

--------------------------------------------------------------------------------
(* _record_rule_triggered: usage_count is read, then written back with the *)
(* event, in one transaction.                                              *)

ReadUsage(r) ==
  /\ pc[r] = "read_usage"
  /\ Keep(r, [at[r] EXCEPT !.seen = usage[at[r].rule]], "count")
  /\ UNCHANGED <<tables, now, client, calls>>

EventApart(r) ==
  LET i == at[r].rule
  IN /\ pc[r] = "count"
     /\ usage' = [usage EXCEPT ![i] = at[r].seen + 1]
     /\ events' \in {events, [events EXCEPT ![i] = @ + 1]}
     /\ Goto(r, "store")
     /\ UNCHANGED <<conversations, messages, coupons, now, at, client, calls>>
CountRule(r) ==
  LET i == at[r].rule
  IN /\ pc[r] = "count"
     /\ usage' = [usage EXCEPT ![i] = at[r].seen + 1]
     /\ events' = [events EXCEPT ![i] = @ + 1]
     /\ Goto(r, "store")
     /\ UNCHANGED <<conversations, messages, coupons, now, at, client, calls>>

CountFails(r) ==
  /\ "usage" \in Failing
  /\ pc[r] \in {"read_usage", "count"}
  /\ Goto(r, "store")
  /\ UNCHANGED <<tables, now, at, client, calls>>

--------------------------------------------------------------------------------
(* _log_assistant_message, after which the reply is sent.                  *)

\* The coupon of the text, which was generated before the coupon existed.
TextOfTurn(m) == 0
CouponOfText(m) == m.coupon

\* The foreign key of the message.
Exists(conv) == conv # 0

StoreAnswer(r) ==
  LET m == at[r]
      msg == [conv |-> m.conv, role |-> "assistant", of |-> m.turn,
              coupon |-> CouponOfText(m), key |-> IF m.logged THEN m.turn ELSE None]
  IN /\ pc[r] = "store"
     /\ \/ Exists(m.conv) /\ messages' = Inserted(msg)
        \/ /\ ~Exists(m.conv) \/ "answer" \in Failing
           /\ UNCHANGED messages
     /\ Answer(r, m.turn, CouponOfText(m), FALSE)
     /\ UNCHANGED <<conversations, coupons, usage, events, now, at, sent, calls>>

--------------------------------------------------------------------------------
(* The rest.                                                               *)

\* DELETE /chat/conversation/{id}
EndConversation ==
  /\ Serial => InFlight = {}
  /\ \E c \in DOMAIN conversations :
       /\ conversations[c].active
       /\ conversations' = [conversations EXCEPT ![c].active = FALSE]
  /\ UNCHANGED <<messages, coupons, usage, events, now, pc, at, client, calls>>

\* The worker dies, with what the attempt had not committed.
Crash(r) ==
  /\ MayCrash
  /\ r \in InFlight
  /\ Goto(r, "dead")
  /\ UNCHANGED <<tables, now, at, client, calls>>

Tick ==
  /\ now < MaxTime
  /\ now' = now + 1
  /\ UNCHANGED <<tables, pc, at, client, calls>>

Handle(r) ==
  \/ Resolve(r) \/ LogQuestion(r) \/ LogFails(r) \/ FindAnswer(r) \/ FilterRules(r)
  \/ LoadHistory(r) \/ Block(r) \/ Decide(r) \/ CheckCoupon(r) \/ IssueCoupon(r)
  \/ ReadUsage(r) \/ CountRule(r) \/ CountFails(r) \/ StoreAnswer(r)

Next ==
  \/ \E r \in Attempts, k \in Turns : Send(r, k)
  \/ \E r \in Attempts : Handle(r) \/ Crash(r)
  \/ EndConversation
  \/ Tick

Spec == Init /\ [][Next]_vars

\* A database or LLM call returns or raises.
FairSpec == Spec /\ \A r \in Attempts : WF_vars(Handle(r))

--------------------------------------------------------------------------------
(* Properties.                                                             *)

Labels == Idle \union {"resolve", "log", "find", "filter", "history", "decide", "check",
                       "issue", "read_usage", "count", "store"}

\* Every variable keeps its type: the rows of the tables and what an attempt
\* has in memory.
TypeOK ==
  /\ conversations \in Seq(Conversation) /\ messages \in Seq(Message)
  /\ coupons \in Seq(Coupon)
  /\ usage \in [Rules -> Nat] /\ events \in [Rules -> Nat]
  /\ now \in Nat
  /\ pc \in [Attempts -> Labels]
  /\ at \in [Attempts -> Memory \union {None}]
  /\ reply \in [Attempts -> Reply \union {None}]
  /\ sent \in [Turns -> Nat \union {None}]
  /\ calls \in [Turns -> Nat]
  /\ \A r \in Attempts : pc[r] # "idle" => at[r] # None /\ sent[at[r].turn] # None

\* No coupon is lost on the way to the visitor or shown to another one: an
\* attempt that issued one, learnt that it did and was answered shows it in its
\* reply, although the answer was generated before the coupon existed, and the
\* coupon in a stored answer was issued by an attempt at that turn.
CouponShown ==
  /\ \A n \in DOMAIN coupons :
       LET r == coupons[n].by
       IN coupons[n].known /\ pc[r] = "done" => reply[r].coupon = n
  /\ \A i \in DOMAIN messages :
       LET n == messages[i].coupon
       IN n # 0 => n \in DOMAIN coupons /\ at[coupons[n].by].turn = messages[i].of

\* One attempt at a time, failed transactions and dead workers included: the
\* same visitor (customer or conversation) gets the coupon of a rule again
\* only after its cooldown.
OneCouponPerVisitor ==
  \A n, p \in DOMAIN coupons :
    n < p /\ coupons[n].rule = coupons[p].rule
          /\ SameVisitor(coupons[n], coupons[p].customer, coupons[p].conv)
    => LET cooldown == RuleTable[coupons[n].rule].cooldown
       IN cooldown # Forever /\ coupons[n].at + cooldown <= coupons[p].at

\* No window of an hour holds more coupons of a rule than max_per_hour.
HourlyCap ==
  \A i \in Rules, t \in 0 .. now :
    Cardinality({n \in DOMAIN coupons : /\ coupons[n].rule = i
                                        /\ coupons[n].at \in t - Hour .. t})
      <= RuleTable[i].cap

\* One attempt at a time, the comment over the second check holds: once per
\* visitor, and the cap of the hour.
CouponLimits == OneCouponPerVisitor /\ HourlyCap

\* One attempt at a time: usage_count and the rule_triggered events agree,
\* whichever transactions fail.
UsageMatchesEvents == usage = events

\* One attempt at a time, when the transactions of the question and of the
\* search succeed and the conversation fits the messages that the search
\* reads: a turn whose answer is stored does not reach the LLM again.
AnsweredOnce ==
  [][\A k \in Turns : Stored(k, "assistant") # {} => calls'[k] = calls[k]]_vars

\* A failing database never breaks the chat: an attempt whose worker lives is
\* answered.
Answered == \A r \in Attempts : r \in InFlight ~> pc[r] \in {"done", "dead"}

\* "Send the same value on a retry to get back the cached response": what a
\* retry gets from the store is the answer to its own question.
CachedAnswerIsOwn ==
  \A r \in Attempts : reply[r] # None => reply[r].of = at[r].turn

--------------------------------------------------------------------------------
(* The abstract specification.                                             *)

ConversationOfTurn(k, role) ==
  IF Stored(k, role) = {} THEN None ELSE messages[CHOOSE i \in Stored(k, role) : TRUE].conv

Log == INSTANCE TurnLog WITH
  Conversations <- Nat \ {0},
  asked <- [k \in Turns |-> ConversationOfTurn(k, "user")],
  answered <- [k \in Turns |-> ConversationOfTurn(k, "assistant")]

\* However the attempts at one turn interleave and whichever of them die, its
\* question and its answer are stored once, in one conversation.
ImplementsTurnLog == Log!Spec
================================================================================
