--------------------------------- MODULE Widget ---------------------------------
(***************************************************************************)
(* The chat widget of the shop (views/js/widget.js) in the tabs of one     *)
(* visitor, the front controller that it calls (controllers/front/chat.php *)
(* with classes/AiCoreClient.php) and, as far as the widget can tell, the  *)
(* AI core behind it.                                                      *)
(*                                                                         *)
(* A callback of the widget is one step: JavaScript runs to completion.    *)
(* Every message that is sent is a request with a browser, a shop and a    *)
(* core side, since each may give up while the next one goes on.  Reads of *)
(* the history and clicks on a coupon are requests of a second kind.       *)
(***************************************************************************)
EXTENDS Integers, Sequences, FiniteSets

CONSTANTS
  Tabs,
  CallsOf,       \* the reads of the history and coupon clicks of each tab at a time
  Issues,        \* the messages whose answer comes with a coupon
  Finds,         \* the messages whose answer comes with a product to show
  HistoryLimit,  \* how many messages GET /chat/history returns (50)
  Failing,       \* what may go wrong, see Troubles
  MaxMessages,   \* bound on the messages that are sent
  MaxLoads,      \* bound on the page loads that the visitor asks for
  MaxShown,      \* bound on the transcripts in which a coupon is clicked
  MaxTroubles,   \* bound on what goes wrong
  None

\* The module is switched off or the core fails; curl gives up after 10 s;
\* the browser loses the connection; the core cannot store the question or
\* the answer; CartRule::add, checkValidity or addCartRule says no; somebody
\* ends a conversation.
Troubles ==
  {"refused", "timeout", "connection", "question", "answer", "rule", "validity", "add",
   "ended"}

ASSUME WidgetAssumption ==
  /\ HistoryLimit \in Nat \ {0} /\ MaxMessages \in Nat /\ MaxLoads \in Nat
  /\ MaxShown \in Nat /\ MaxTroubles \in Nat
  /\ Issues \subseteq 1 .. MaxMessages /\ Finds \subseteq 1 .. MaxMessages
  /\ Failing \subseteq Troubles
  /\ DOMAIN CallsOf = Tabs
  /\ None \notin Tabs

Calls == UNION {CallsOf[t] : t \in Tabs}

VARIABLES
  page,      \* what the widget of each tab keeps in the DOM and in its closures
  saved,     \* sessionStorage of each tab: the conversation
  sends,     \* the messages that were sent, in that order
  call,      \* the other requests
  rules,     \* codes that are a CartRule of the shop
  cart,      \* codes in the visitor's cart
  filled,    \* there is a cart
  log,       \* the messages of each conversation in the core
  active,    \* the conversations that are not over
  loads,
  troubles   \* how often something went wrong

browser == <<page, saved, loads>>
shop == <<rules, cart, filled>>
core == <<log, active>>
vars == <<browser, sends, call, shop, core, troubles>>

--------------------------------------------------------------------------------
Messages == 1 .. MaxMessages

\* Nothing is stored under the id that the core invents when it cannot store
\* the question.
NoConversation == 0
Unsaved == -1
ConversationIds == {NoConversation, Unsaved} \union (Nat \ {0})

\* What a conversation keeps of each message.
Message == [role: {"user", "bot"}, of: Messages]

\* The children of messagesEl.  "note" and "error" are texts of the widget
\* itself; the last three are the states of a coupon button.
Entry ==
  [kind: {"user", "bot", "welcome", "note", "error", "offer", "applying", "applied"},
   of: Messages \union {0}]

Text(kind) == [kind |-> kind, of |-> 0]
About(kind, n) == [kind |-> kind, of |-> n]

\* busy: input and button are disabled; leaving: a navigation timer runs.
Page == [open: BOOLEAN, busy: BOOLEAN, leaving: BOOLEAN, shown: Seq(Entry)]

Send ==
  [tab: Tabs \union {None},                       \* the page that waits for it
   asked: ConversationIds,
   shop: {"waiting", "ok", "failed"},
   core: {"sent", "log", "answer", "answered", "over"},
   conv: ConversationIds,
   redeemable: BOOLEAN]

Call ==
  [kind: {"history", "apply"}, tab: Tabs \union {None},
   stage: {"sent", "add", "done"},
   conv: ConversationIds, replay: Seq(Message),  \* history
   code: Messages \union {0}, at: Nat, ok: BOOLEAN]  \* apply: button, outcome

\* buildWidget, at every page load.
FreshPage == [open |-> FALSE, busy |-> FALSE, leaving |-> FALSE, shown |-> <<>>]

Init ==
  /\ page = [t \in Tabs |-> FreshPage] /\ saved = [t \in Tabs |-> NoConversation]
  /\ loads = 0
  /\ sends = <<>> /\ call = [c \in Calls |-> None]
  /\ rules = {} /\ cart = {} /\ filled = FALSE
  /\ log = <<>> /\ active = {} /\ troubles = 0

Fine == UNCHANGED troubles
Trouble(kind) == kind \in Failing /\ troubles < MaxTroubles /\ troubles' = troubles + 1

Issue(c, request) == call' = [call EXCEPT ![c] = request]

--------------------------------------------------------------------------------
(* The page                                                                *)

\* What was under way is aborted in the browser and goes on elsewhere.
Unload(t) ==
  /\ page' = [page EXCEPT ![t] = FreshPage]
  /\ sends' = [n \in DOMAIN sends |->
                 IF sends[n].tab = t THEN [sends[n] EXCEPT !.tab = None] ELSE sends[n]]
  /\ call' = [c \in Calls |->
                IF call[c] # None /\ call[c].tab = t
                  THEN IF call[c].stage = "done" THEN None ELSE [call[c] EXCEPT !.tab = None]
                  ELSE call[c]]
  /\ UNCHANGED <<saved, shop, core, troubles>>

LoadPage(t) ==
  /\ loads < MaxLoads
  /\ loads' = loads + 1
  /\ Unload(t)

\* The timer of maybeNavigate.
Navigate(t) ==
  /\ page[t].leaving
  /\ UNCHANGED loads
  /\ Unload(t)

\* The listener of the toggle: greet, or replay what the core has stored.
ReadRequest(t) ==
  [kind |-> "history", tab |-> t, stage |-> "sent", conv |-> saved[t], replay |-> <<>>,
   code |-> 0, at |-> 0, ok |-> FALSE]

Toggle(t) ==
  LET opened == ~page[t].open
      first == opened /\ page[t].shown = <<>>
      entries == IF first /\ saved[t] = NoConversation THEN <<Text("welcome")>> ELSE <<>>
  IN /\ page' = [page EXCEPT ![t].open = opened, ![t].shown = @ \o entries]
     /\ IF first /\ saved[t] # NoConversation
          THEN \E c \in CallsOf[t] : call[c] = None /\ Issue(c, ReadRequest(t))
          ELSE UNCHANGED call
     /\ UNCHANGED <<saved, loads, sends, shop, core, troubles>>

\* The input is not disabled; and if nothing ever disabled it.
CanSendAnyTime(t) == page[t].open
CanSend(t) == page[t].open /\ ~page[t].busy

\* The conversation_id that is sent; two that are wrong: none, and null.
NeverNamed(t) == NoConversation
NamedOrNull(t) == IF saved[t] = NoConversation THEN None ELSE saved[t]
NamedConversation(t) == saved[t]

\* sendMessage up to fetch.
SendMessage(t) ==
  /\ CanSend(t)
  /\ Len(sends) < MaxMessages
  /\ page' = [page EXCEPT ![t].busy = TRUE,
                          ![t].shown = Append(@, About("user", Len(sends) + 1))]
  /\ sends' = Append(sends, [tab |-> t, asked |-> NamedConversation(t), shop |-> "waiting",
                             core |-> "sent", conv |-> NoConversation, redeemable |-> FALSE])
  /\ UNCHANGED <<saved, loads, call, shop, core, troubles>>

ApplyRequest(t, i) ==
  [kind |-> "apply", tab |-> t, stage |-> "sent", conv |-> NoConversation, replay |-> <<>>,
   code |-> page[t].shown[i].of, at |-> i, ok |-> FALSE]

\* applyCoupon up to fetch.
ClickApply(t) ==
  /\ page[t].open
  /\ \E i \in DOMAIN page[t].shown, c \in CallsOf[t] :
       /\ page[t].shown[i].kind = "offer"
       /\ Len(page[t].shown) < MaxShown
       /\ call[c] = None
       /\ page' = [page EXCEPT ![t].shown[i].kind = "applying"]
       /\ Issue(c, ApplyRequest(t, i))
  /\ UNCHANGED <<saved, loads, sends, shop, core, troubles>>

--------------------------------------------------------------------------------
(* chat.php and the core: a message                                        *)

Advance(n, s) == sends' = [sends EXCEPT ![n] = s]

\* 503 or 403 of initContent; an error or the end of a worker of the core, at
\* any point.
Refuse(n) ==
  /\ Trouble("refused")
  /\ sends[n].shop = "waiting" /\ sends[n].core # "over"
  /\ Advance(n, [sends[n] EXCEPT !.shop = "failed", !.core = "over"])
  /\ UNCHANGED <<browser, call, shop, core>>

Newest(S) == IF S = {} THEN NoConversation ELSE CHOOSE c \in S : \A d \in S : d <= c

\* The conversation that the widget names, or else the active one of the
\* visitor, or else a new one.
ConversationFor(asked) == IF asked \in DOMAIN log THEN asked ELSE Newest(active)

Resolve(n) ==
  /\ sends[n].core = "sent"
  /\ Advance(n, [sends[n] EXCEPT !.core = "log", !.conv = ConversationFor(sends[n].asked)])
  /\ UNCHANGED <<browser, call, shop, core, troubles>>

Write(role, n, conv) == log' = [log EXCEPT ![conv] = Append(@, [role |-> role, of |-> n])]

LogQuestion(n) ==
  LET s == sends[n]
      new == Len(log) + 1
      answerIn(conv) == Advance(n, [s EXCEPT !.core = "answer", !.conv = conv])
  IN /\ s.core = "log"
     /\ \/ /\ s.conv # NoConversation
           /\ Write("user", n, s.conv)
           /\ UNCHANGED active /\ Fine
           /\ answerIn(s.conv)
        \/ /\ s.conv = NoConversation
           /\ log' = Append(log, <<[role |-> "user", of |-> n]>>)
           /\ active' = active \union {new}
           /\ Fine
           /\ answerIn(new)
        \/ /\ Trouble("question")
           /\ UNCHANGED core
           /\ answerIn(IF s.asked # NoConversation THEN s.asked ELSE Unsaved)
     /\ UNCHANGED <<browser, call, shop>>

Answer(n) ==
  LET s == sends[n]
  IN /\ s.core = "answer"
     /\ IF s.conv \in DOMAIN log
          THEN \/ Write("bot", n, s.conv) /\ Fine
               \/ UNCHANGED log /\ Trouble("answer")
          ELSE UNCHANGED log /\ Fine
     /\ Advance(n, [s EXCEPT !.core = "answered"])
     /\ UNCHANGED <<browser, call, shop, active>>

\* createCartRuleFromCoupon, which returns made; and without a look at what
\* add() returned.
CreateCartRuleUnchecked(code, made) ==
  \/ rules' = rules \union {code} /\ made = TRUE /\ Fine
  \/ code \notin rules /\ UNCHANGED rules /\ made = TRUE /\ Trouble("rule")
CreateCartRule(code, made) ==
  \/ rules' = rules \union {code} /\ made = TRUE /\ Fine
  \/ code \notin rules /\ UNCHANGED rules /\ made = FALSE /\ Trouble("rule")

\* The reply: withNavigation, then withRedeemableCoupons.
Reply(n) ==
  /\ sends[n].shop = "waiting" /\ sends[n].core = "answered"
  /\ \E made \in BOOLEAN :
       /\ IF n \in Issues THEN CreateCartRule(n, made)
                         ELSE made = FALSE /\ UNCHANGED rules /\ Fine
       /\ Advance(n, [sends[n] EXCEPT !.shop = "ok", !.redeemable = made])
  /\ UNCHANGED <<browser, call, cart, filled, core>>

\* Whether the core ever gets what was on its way when the caller gave up.
MaybeLost(s) == IF s.core = "sent" THEN {s, [s EXCEPT !.core = "over"]} ELSE {s}

\* CURLOPT_TIMEOUT: the shop answers 502 and the core goes on.
TimeOut(n) ==
  /\ Trouble("timeout")
  /\ sends[n].shop = "waiting" /\ sends[n].core \in {"sent", "log", "answer"}
  /\ \E s \in MaybeLost(sends[n]) : Advance(n, [s EXCEPT !.shop = "failed"])
  /\ UNCHANGED <<browser, call, shop, core>>

--------------------------------------------------------------------------------
(* chat.php and the core: the other requests                               *)

Respond(c, r) == Issue(c, IF r.tab = None THEN None ELSE [r EXCEPT !.stage = "done"])

\* ORDER BY created_at LIMIT 50; and with DESC.
Limited(messages) == IF Len(messages) < HistoryLimit THEN Len(messages) ELSE HistoryLimit
LatestFirst(messages) ==
  [i \in 1 .. Limited(messages) |-> messages[Len(messages) + 1 - i]]
Oldest(messages) == SubSeq(messages, 1, Limited(messages))

\* Every error becomes an empty history.
ReadHistory(c) ==
  LET r == call[c]
  IN /\ r.kind = "history" /\ r.stage = "sent"
     /\ \/ /\ r.conv \in DOMAIN log
           /\ Respond(c, [r EXCEPT !.replay = Oldest(log[r.conv])])
           /\ Fine
        \/ /\ Respond(c, r)
           /\ (r.conv \notin DOMAIN log /\ Fine) \/ Trouble("refused") \/ Trouble("timeout")
     /\ UNCHANGED <<browser, sends, shop, core>>

\* checkValidity, external: no other coupon in the cart; dates, quantities and
\* the rest may refuse as well.
Combinable(code) == cart \subseteq {code}

\* applyCouponToCart up to addCartRule.
CheckCoupon(c) ==
  LET r == call[c]
  IN /\ r.kind = "apply" /\ r.stage = "sent"
     /\ \/ /\ Respond(c, [r EXCEPT !.ok = FALSE])
           /\ \/ (r.code \notin rules \/ ~Combinable(r.code) \/ ~filled) /\ Fine
              \/ Trouble("refused") \/ Trouble("validity")
        \/ /\ r.code \in rules /\ Combinable(r.code) /\ filled /\ Fine
           /\ IF r.code \in cart
                THEN Respond(c, [r EXCEPT !.ok = TRUE])
                ELSE Issue(c, [r EXCEPT !.stage = "add"])
     /\ UNCHANGED <<browser, sends, shop, core>>

AddCoupon(c) ==
  LET r == call[c]
  IN /\ r.kind = "apply" /\ r.stage = "add"
     /\ \/ /\ cart' = cart \union {r.code}
           /\ Respond(c, [r EXCEPT !.ok = TRUE])
           /\ Fine
        \/ /\ Trouble("add")
           /\ UNCHANGED cart
           /\ Respond(c, [r EXCEPT !.ok = FALSE])
     /\ UNCHANGED <<browser, sends, rules, filled, core>>

--------------------------------------------------------------------------------
(* The callbacks of fetch                                                  *)

\* finally: what every end of a message does to the page; and if the failures
\* forgot the input.
SettledByAnswer(p, entries) ==
  [p EXCEPT !.busy = (entries = <<Text("error")>>), !.shown = @ \o entries]
Settled(p, entries) == [p EXCEPT !.busy = FALSE, !.shown = @ \o entries]

\* appendMessage, appendCouponActions and maybeNavigate.
AnswerEntries(n) ==
  <<About("bot", n)>>
    \o (IF sends[n].redeemable THEN <<About("offer", n)>> ELSE <<>>)
    \o (IF n \in Finds THEN <<Text("note")>> ELSE <<>>)

ReceiveAnswer(n) ==
  LET t == sends[n].tab
  IN /\ sends[n].shop = "ok" /\ t # None
     /\ saved' = [saved EXCEPT ![t] = sends[n].conv]
     /\ page' = [page EXCEPT ![t] = [Settled(page[t], AnswerEntries(n))
                                       EXCEPT !.leaving = @ \/ n \in Finds]]
     /\ Advance(n, [sends[n] EXCEPT !.tab = None])
     /\ UNCHANGED <<loads, call, shop, core, troubles>>

ShowFailure(n) ==
  page' = [page EXCEPT ![sends[n].tab] = Settled(@, <<Text("error")>>)]

ReceiveError(n) ==
  /\ sends[n].shop = "failed" /\ sends[n].tab # None
  /\ ShowFailure(n)
  /\ Advance(n, [sends[n] EXCEPT !.tab = None])
  /\ UNCHANGED <<saved, loads, call, shop, core, troubles>>

\* The connection breaks: catch, and the others go on.
Disconnect(n) ==
  /\ Trouble("connection")
  /\ sends[n].tab # None
  /\ ShowFailure(n)
  /\ \E s \in IF sends[n].shop = "waiting" THEN MaybeLost(sends[n]) ELSE {sends[n]} :
       Advance(n, [s EXCEPT !.tab = None])
  /\ UNCHANGED <<saved, loads, call, shop, core>>

Entries(replay) == [i \in DOMAIN replay |-> About(replay[i].role, replay[i].of)]

\* loadHistory and what the listener does then: it greets if nothing is shown;
\* and if nothing came.
ReplayedOrGreeted(shown, replay) ==
  shown \o (IF replay = <<>> THEN <<Text("welcome")>> ELSE Entries(replay))
Replayed(shown, replay) ==
  LET all == shown \o Entries(replay) IN IF all = <<>> THEN <<Text("welcome")>> ELSE all

ShowHistory(c, replay) ==
  page' = [page EXCEPT ![call[c].tab].shown = Replayed(@, replay)]

ButtonOf(c, kind, entry) ==
  page' = [page EXCEPT ![call[c].tab].shown =
             Append([@ EXCEPT ![call[c].at].kind = kind], Text(entry))]

\* The outcome of applyCoupon; and if result.ok was not looked at.
ShowSuccess(c) == ButtonOf(c, "applied", "note")
ShowOutcome(c) ==
  IF call[c].ok THEN ButtonOf(c, "applied", "note") ELSE ButtonOf(c, "offer", "error")

Receive(c) ==
  /\ call[c].stage = "done"
  /\ IF call[c].kind = "history" THEN ShowHistory(c, call[c].replay) ELSE ShowOutcome(c)
  /\ Issue(c, None)
  /\ UNCHANGED <<saved, loads, sends, shop, core, troubles>>

DisconnectCall(c) ==
  /\ Trouble("connection")
  /\ call[c].tab # None
  /\ IF call[c].kind = "history" THEN ShowHistory(c, <<>>) ELSE ButtonOf(c, "offer", "error")
  /\ \/ call[c].stage # "add" /\ Issue(c, None)
     \/ call[c].stage # "done" /\ Issue(c, [call[c] EXCEPT !.tab = None])
  /\ UNCHANGED <<saved, loads, sends, shop, core>>

--------------------------------------------------------------------------------
(* The rest of the shop and of the core                                    *)

\* The visitor adds a first product.
FillCart ==
  /\ ~filled /\ filled' = TRUE
  /\ UNCHANGED <<browser, sends, call, rules, cart, core, troubles>>

\* DELETE /chat/conversation/{id}.
EndConversation ==
  /\ \E c \in active : active' = active \ {c}
  /\ Trouble("ended")
  /\ UNCHANGED <<browser, sends, call, shop, log>>

Visit(t) == LoadPage(t) \/ Navigate(t) \/ Toggle(t) \/ SendMessage(t) \/ ClickApply(t)

\* What goes on by itself.
Handle(n) == Resolve(n) \/ LogQuestion(n) \/ Answer(n) \/ Reply(n) \/ ReceiveAnswer(n) \/ ReceiveError(n)
HandleCall(c) == ReadHistory(c) \/ CheckCoupon(c) \/ AddCoupon(c) \/ Receive(c)

GiveUp(n) == Refuse(n) \/ TimeOut(n) \/ Disconnect(n)

Next ==
  \/ \E t \in Tabs : Visit(t)
  \/ \E n \in DOMAIN sends : Handle(n) \/ GiveUp(n)
  \/ \E c \in Calls : call[c] # None /\ (HandleCall(c) \/ DisconnectCall(c))
  \/ FillCart \/ EndConversation

\* The shop and the core answer or give up after their timeouts, and the
\* browser runs its callbacks.
Fairness ==
  /\ \A n \in Messages : WF_vars(n \in DOMAIN sends /\ Handle(n))
  /\ \A c \in Calls : WF_vars(call[c] # None /\ HandleCall(c))

Spec == Init /\ [][Next]_vars /\ Fairness

--------------------------------------------------------------------------------
(* Properties                                                              *)

TypeOK ==
  /\ page \in [Tabs -> Page] /\ saved \in [Tabs -> ConversationIds]
  /\ sends \in Seq(Send) /\ Len(sends) <= MaxMessages
  /\ call \in [Calls -> Call \union {None}]
  /\ rules \subseteq Messages /\ cart \subseteq Messages
  /\ filled \in BOOLEAN
  /\ log \in Seq(Seq(Message)) /\ active \subseteq DOMAIN log
  /\ loads \in 0 .. MaxLoads /\ troubles \in 0 .. MaxTroubles

\* The comment on appendCouponActions: "this button is never offered for a code
\* that couldn't actually be redeemed", whatever failed on the way and whoever
\* still waited for the answer.
ButtonRedeemable ==
  \A t \in Tabs : \A i \in DOMAIN page[t].shown :
    page[t].shown[i].kind \in {"offer", "applying", "applied"} => page[t].shown[i].of \in rules

\* A button says that its code is applied only if the code is in the cart, be it
\* since a click whose reply was lost.
AppliedTookEffect ==
  \A t \in Tabs : \A i \in DOMAIN page[t].shown :
    page[t].shown[i].kind = "applied" => page[t].shown[i].of \in cart

\* The input is disabled exactly while the page waits for one message: no second
\* message is under way, and the shopper is not locked out by a reply that comes
\* late, twice or for the page that was there before.
BusyWhileWaiting ==
  \A t \in Tabs :
    /\ \A m, n \in DOMAIN sends : sends[m].tab = t /\ sends[n].tab = t => m = n
    /\ page[t].busy <=> \E n \in DOMAIN sends : sends[n].tab = t

\* The greeting opens a transcript or does not come at all: it does not follow
\* what was sent or replayed while the history was on its way.
GreetsFirst ==
  \A t \in Tabs : \A i \in DOMAIN page[t].shown : page[t].shown[i].kind = "welcome" => i = 1

\* The answers that a page shows and the core has stored are all in the
\* conversation that the tab goes on with: a visitor whose tabs started two
\* conversations, or whose conversation ended, is not moved between them.
OneThreadPerPage ==
  \A t \in Tabs : \A i \in DOMAIN page[t].shown : \A c \in DOMAIN log :
    /\ page[t].shown[i].kind = "bot"
    /\ [role |-> "bot", of |-> page[t].shown[i].of] \in {log[c][j] : j \in DOMAIN log[c]}
    => saved[t] = c

\* An answer is shown after its question, replayed or not, unless the core
\* could not store the question.
Stored(role, n) == \E c \in DOMAIN log : [role |-> role, of |-> n] \in {log[c][j] : j \in DOMAIN log[c]}

AnsweredInPlace ==
  \A t \in Tabs : \A i \in DOMAIN page[t].shown :
    page[t].shown[i].kind = "bot" /\ Stored("user", page[t].shown[i].of) =>
      \E j \in 1 .. i : page[t].shown[j] = About("user", page[t].shown[i].of)

\* Nobody waits for ever: the input comes back, and so does a coupon button.
Applying(t, code) ==
  \E i \in DOMAIN page[t].shown : page[t].shown[i] = About("applying", code)

WaitsEnd ==
  \A t \in Tabs :
    /\ []<>(~page[t].busy)
    /\ \A code \in Issues : []<>(~Applying(t, code))
================================================================================
