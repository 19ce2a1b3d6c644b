------------------------------ MODULE WidgetProofs ------------------------------
(***************************************************************************)
(* Theorems about Widget, for any tabs, any bounds and any data of the     *)
(* answers, whatever goes wrong and however pages, shop and core           *)
(* interleave.                                                             *)
(***************************************************************************)
EXTENDS Widget, SequenceTheorems, NaturalExtrema

--------------------------------------------------------------------------------
(* Sequences.                                                              *)

\* A function on 1 .. n is a sequence of length n.
LEMMA Sequence ==
  ASSUME NEW S, NEW n \in Nat, NEW f \in [1 .. n -> S]
  PROVE  f \in Seq(S) /\ Len(f) = n /\ DOMAIN f = 1 .. n
BY SeqDef

\* What a page shows after entries were added to it.
LEMMA Added ==
  ASSUME NEW S, NEW s \in Seq(S), NEW e \in Seq(S)
  PROVE  /\ s \o e \in Seq(S)
         /\ \A i \in DOMAIN s : i \in DOMAIN (s \o e) /\ (s \o e)[i] = s[i]
         /\ \A i \in DOMAIN (s \o e) \ DOMAIN s :
              i - Len(s) \in DOMAIN e /\ (s \o e)[i] = e[i - Len(s)]
BY ConcatProperties, LenProperties

\* What a page shows after one of its entries changed.
LEMMA Changed ==
  ASSUME NEW S, NEW s \in Seq(S), NEW i, NEW e \in S
  PROVE  /\ [s EXCEPT ![i] = e] \in Seq(S)
         /\ DOMAIN [s EXCEPT ![i] = e] = DOMAIN s
         /\ \A j \in DOMAIN s : [s EXCEPT ![i] = e][j] = IF j = i THEN e ELSE s[j]
<1>1. s \in [1 .. Len(s) -> S] /\ Len(s) \in Nat
  BY LenProperties
<1>2. [s EXCEPT ![i] = e] \in [1 .. Len(s) -> S]
  BY <1>1
<1> QED BY <1>1, <1>2, Sequence

--------------------------------------------------------------------------------
(* Types.                                                                  *)

\* The entries that are made are entries.
LEMMA EntryTypes ==
  /\ \A k \in {"welcome", "note", "error"} : Text(k) \in Entry
  /\ \A k \in {"user", "bot", "offer", "applying", "applied"}, n \in Messages \union {0} :
       About(k, n) \in Entry
BY DEF Text, About, Entry

\* A page that was never opened has its type.
LEMMA TypeInit == Init => TypeOK
<1> SUFFICES ASSUME Init PROVE TypeOK
  OBVIOUS
<1>1. page \in [Tabs -> Page]
  BY EmptySeq DEF Init, Page, FreshPage
<1>2. sends \in Seq(Send) /\ Len(sends) <= MaxMessages
  BY EmptySeq, WidgetAssumption DEF Init
<1>3. log \in Seq(Seq(Message)) /\ active \subseteq DOMAIN log
  BY EmptySeq DEF Init
<1>4. saved \in [Tabs -> ConversationIds] /\ call \in [Calls -> Call \union {None}]
  BY DEF Init, ConversationIds
<1>5. loads \in 0 .. MaxLoads /\ troubles \in 0 .. MaxTroubles
  BY WidgetAssumption DEF Init
<1>6. rules \subseteq Messages /\ cart \subseteq Messages /\ filled \in BOOLEAN
  BY DEF Init
<1> QED BY <1>1, <1>2, <1>3, <1>4, <1>5, <1>6 DEF TypeOK

\* An action advances one message and leaves the sequence of them in place.
LEMMA AdvanceType ==
  ASSUME TypeOK, NEW n \in DOMAIN sends, NEW s \in Send, Advance(n, s)
  PROVE  /\ sends' \in Seq(Send) /\ Len(sends') <= MaxMessages
         /\ DOMAIN sends' = DOMAIN sends
         /\ \A m \in DOMAIN sends : sends'[m] = IF m = n THEN s ELSE sends[m]
<1>1. sends \in [1 .. Len(sends) -> Send] /\ Len(sends) \in Nat
  BY LenProperties DEF TypeOK
<1>2. sends' \in [1 .. Len(sends) -> Send]
  BY <1>1 DEF Advance
<1> QED BY <1>1, <1>2, Sequence DEF TypeOK, Advance

\* A message's record has the type of its fields.
LEMMA SendType ==
  ASSUME TypeOK, NEW n \in DOMAIN sends
  PROVE  sends[n] \in Send /\ n \in Messages
BY LenProperties, ElementOfSeq, WidgetAssumption DEF TypeOK, Messages

\* The newest of a set of conversations is one of them.
LEMMA NewestType ==
  ASSUME TypeOK
  PROVE  /\ Newest(active) \in {NoConversation} \union DOMAIN log
         /\ DOMAIN log \subseteq Nat \ {0}
         /\ DOMAIN log = 1 .. Len(log) /\ Len(log) \in Nat
<1>1. DOMAIN log = 1 .. Len(log) /\ Len(log) \in Nat
  BY LenProperties DEF TypeOK
<1>2. active # {} => \E c \in active : \A d \in active : d <= c
  BY <1>1, MaxExists DEF TypeOK
<1> QED BY <1>1, <1>2 DEF TypeOK, Newest

\* A tab that leaves its page keeps its type, and so does what it waited for.
LEMMA UnloadType ==
  ASSUME TypeOK, NEW t \in Tabs, Unload(t), loads' \in 0 .. MaxLoads
  PROVE  TypeOK'
<1>1. page' \in [Tabs -> Page]
  BY EmptySeq DEF TypeOK, Unload, FreshPage, Page
<1>2. sends \in [1 .. Len(sends) -> Send] /\ Len(sends) \in Nat /\ DOMAIN sends = 1 .. Len(sends)
  BY LenProperties DEF TypeOK
<1>3. sends' \in [1 .. Len(sends) -> Send]
  BY <1>2 DEF Unload, Send
<1>4. sends' \in Seq(Send) /\ Len(sends') <= MaxMessages
  BY <1>2, <1>3, Sequence DEF TypeOK
<1>5. call' \in [Calls -> Call \union {None}]
  <2>1. \A r \in Call : [r EXCEPT !.tab = None] \in Call
    BY DEF Call
  <2>2. \A c \in Calls : call[c] # None => call[c] \in Call
    BY DEF TypeOK
  <2>3. \A c \in Calls : call'[c] \in {None, call[c], [call[c] EXCEPT !.tab = None]}
    BY DEF Unload
  <2>4. \A c \in Calls : call'[c] \in Call \union {None}
    BY <2>1, <2>2, <2>3 DEF Unload
  <2> QED BY <2>4 DEF Unload
<1>6. /\ UNCHANGED <<saved, rules, cart, filled, log, active, troubles>>
      /\ loads' \in 0 .. MaxLoads
  BY DEF Unload, shop, core
<1> QED BY <1>1, <1>4, <1>5, <1>6 DEF TypeOK

\* What the callbacks do to the transcript of a page.
LEMMA PageTypes ==
  ASSUME TypeOK, NEW t \in Tabs, NEW e \in Seq(Entry)
  PROVE  /\ page[t] \in Page
         /\ page[t].shown \in Seq(Entry)
         /\ Settled(page[t], e) \in Page
         /\ \A o \in BOOLEAN : [page[t] EXCEPT !.open = o, !.shown = @ \o e] \in Page
<1>1. page[t] \in Page
  BY DEF TypeOK
<1>2. page[t].shown \in Seq(Entry) /\ page[t].shown \o e \in Seq(Entry)
  BY <1>1, Added DEF Page
<1> QED BY <1>1, <1>2 DEF Page, Settled

LEMMA ToggleType ==
  ASSUME TypeOK, NEW t \in Tabs, Toggle(t)
  PROVE  TypeOK'
<1> DEFINE opened == ~page[t].open
           first == opened /\ page[t].shown = <<>>
           entries == IF first /\ saved[t] = NoConversation THEN <<Text("welcome")>> ELSE <<>>
<1>1. entries \in Seq(Entry)
  BY EmptySeq, EntryTypes
<1>2. page' = [page EXCEPT ![t].open = opened, ![t].shown = @ \o entries]
  BY DEF Toggle
<1>3. page[t] \in Page /\ opened \in BOOLEAN
  BY DEF TypeOK, Page
<1> HIDE DEF opened, entries
<1>4. page' = [page EXCEPT ![t] = [page[t] EXCEPT !.open = opened, !.shown = @ \o entries]]
  BY <1>2
<1>5. page' \in [Tabs -> Page]
  BY <1>1, <1>3, <1>4, PageTypes DEF TypeOK
<1>6. call' \in [Calls -> Call \union {None}]
  <2>1. ReadRequest(t) \in Call
    BY EmptySeq DEF ReadRequest, Call, TypeOK
  <2> QED BY <2>1 DEF Toggle, Issue, TypeOK, Calls
<1> QED BY <1>5, <1>6 DEF Toggle, TypeOK, shop, core

LEMMA SendMessageType ==
  ASSUME TypeOK, NEW t \in Tabs, SendMessage(t)
  PROVE  TypeOK'
<1> DEFINE n == Len(sends) + 1
           s == [tab |-> t, asked |-> NamedConversation(t), shop |-> "waiting",
                 core |-> "sent", conv |-> NoConversation, redeemable |-> FALSE]
<1>1. Len(sends) \in Nat /\ n \in Messages
  BY LenProperties, WidgetAssumption DEF TypeOK, SendMessage, Messages
<1>2. s \in Send
  BY DEF Send, TypeOK, NamedConversation, ConversationIds
<1>3. sends' = Append(sends, s)
  BY DEF SendMessage
<1> HIDE DEF s
<1>4. sends' \in Seq(Send) /\ Len(sends') <= MaxMessages
  BY <1>1, <1>2, <1>3, WidgetAssumption DEF SendMessage, TypeOK
<1>5. About("user", n) \in Entry
  BY <1>1, EntryTypes
<1>6. page' = [page EXCEPT ![t] = [page[t] EXCEPT !.busy = TRUE,
                                     !.shown = Append(page[t].shown, About("user", n))]]
  BY DEF SendMessage
<1>7. page[t] \in Page /\ Append(page[t].shown, About("user", n)) \in Seq(Entry)
  BY <1>5 DEF TypeOK, Page
<1>8. page' \in [Tabs -> Page]
  BY <1>6, <1>7 DEF TypeOK, Page
<1> QED BY <1>4, <1>8 DEF SendMessage, TypeOK, shop, core

\* A change of the button i of a page.
LEMMA ButtonType ==
  ASSUME TypeOK, NEW t \in Tabs, NEW i \in DOMAIN page[t].shown,
         NEW k \in {"offer", "applying", "applied"}
  PROVE  /\ page[t].shown[i] \in Entry
         /\ [page[t].shown EXCEPT ![i].kind = k] \in Seq(Entry)
         /\ DOMAIN [page[t].shown EXCEPT ![i].kind = k] = DOMAIN page[t].shown
         /\ \A j \in DOMAIN page[t].shown :
              [page[t].shown EXCEPT ![i].kind = k][j] =
                IF j = i THEN About(k, page[t].shown[i].of) ELSE page[t].shown[j]
<1>1. page[t].shown \in Seq(Entry)
  BY DEF TypeOK, Page
<1>2. page[t].shown[i] \in Entry
  BY <1>1, ElementOfSeq, LenProperties
<1>3. About(k, page[t].shown[i].of) \in Entry
  BY <1>2 DEF About, Entry
<1>4. [page[t].shown[i] EXCEPT !.kind = k] = About(k, page[t].shown[i].of)
  BY <1>2 DEF About, Entry
<1>5. [page[t].shown EXCEPT ![i].kind = k]
        = [page[t].shown EXCEPT ![i] = About(k, page[t].shown[i].of)]
  BY <1>4
<1> QED BY <1>1, <1>2, <1>3, <1>5, Changed

\* An entry of a page that is a button, and the code of a coupon.
LEMMA EntryType ==
  ASSUME TypeOK, NEW t \in Tabs, NEW i \in DOMAIN page[t].shown
  PROVE  page[t].shown[i] \in Entry /\ page[t].shown[i].of \in Messages \union {0} /\ i \in Nat
<1>1. page[t].shown \in Seq(Entry)
  BY DEF TypeOK, Page
<1>2. page[t].shown[i] \in Entry /\ i \in Nat
  BY <1>1, ElementOfSeq, LenProperties
<1> QED BY <1>2 DEF Entry

LEMMA ClickApplyType ==
  ASSUME TypeOK, NEW t \in Tabs, ClickApply(t)
  PROVE  TypeOK'
<1>1. PICK i \in DOMAIN page[t].shown, c \in CallsOf[t] :
        /\ page' = [page EXCEPT ![t].shown[i].kind = "applying"]
        /\ Issue(c, ApplyRequest(t, i))
  BY DEF ClickApply
<1>2. page' = [page EXCEPT ![t] = [page[t] EXCEPT
                 !.shown = [page[t].shown EXCEPT ![i].kind = "applying"]]]
  BY <1>1
<1>3. page[t] \in Page /\ [page[t].shown EXCEPT ![i].kind = "applying"] \in Seq(Entry)
  BY ButtonType DEF TypeOK
<1>4. page' \in [Tabs -> Page]
  BY <1>2, <1>3 DEF TypeOK, Page
<1>5. ApplyRequest(t, i) \in Call
  BY EntryType, EmptySeq DEF ApplyRequest, Call, ConversationIds
<1>6. call' \in [Calls -> Call \union {None}]
  BY <1>1, <1>5 DEF Issue, TypeOK, Calls
<1> QED BY <1>4, <1>6 DEF ClickApply, TypeOK, shop, core

\* The actions that advance a message and change little else.
LEMMA RefuseType ==
  ASSUME TypeOK, NEW n \in DOMAIN sends, Refuse(n)
  PROVE  TypeOK'
<1>1. [sends[n] EXCEPT !.shop = "failed", !.core = "over"] \in Send
  BY SendType DEF Send
<1>2. sends' \in Seq(Send) /\ Len(sends') <= MaxMessages
  BY <1>1, AdvanceType DEF Refuse
<1>3. troubles' \in 0 .. MaxTroubles
  BY WidgetAssumption DEF Refuse, Trouble, TypeOK
<1> QED BY <1>2, <1>3 DEF Refuse, TypeOK, browser, shop, core

LEMMA ResolveType ==
  ASSUME TypeOK, NEW n \in DOMAIN sends, Resolve(n)
  PROVE  TypeOK'
<1>1. ConversationFor(sends[n].asked) \in ConversationIds
  BY SendType, NewestType DEF ConversationFor, ConversationIds, Send
<1>2. [sends[n] EXCEPT !.core = "log", !.conv = ConversationFor(sends[n].asked)] \in Send
  BY <1>1, SendType DEF Send
<1>3. sends' \in Seq(Send) /\ Len(sends') <= MaxMessages
  BY <1>2, AdvanceType DEF Resolve
<1> QED BY <1>3 DEF Resolve, TypeOK, browser, shop, core

\* A message is appended to a conversation.
LEMMA WriteType ==
  ASSUME TypeOK, NEW c, NEW role \in {"user", "bot"}, NEW n \in Messages, Write(role, n, c)
  PROVE  /\ log' \in Seq(Seq(Message)) /\ DOMAIN log' = DOMAIN log
         /\ \A d \in DOMAIN log :
              log'[d] = IF d = c THEN Append(log[d], [role |-> role, of |-> n]) ELSE log[d]
<1>1. log \in Seq(Seq(Message)) /\ [role |-> role, of |-> n] \in Message
  BY DEF TypeOK, Message
<1>2. CASE c \in DOMAIN log
  <2>1. Append(log[c], [role |-> role, of |-> n]) \in Seq(Message)
    BY <1>1, <1>2, ElementOfSeq, LenProperties
  <2>2. log' = [log EXCEPT ![c] = Append(log[c], [role |-> role, of |-> n])]
    BY DEF Write
  <2> HIDE DEF Write
  <2> QED BY <1>1, <2>1, <2>2, Changed
<1>3. CASE c \notin DOMAIN log
  <2>1. log \in [1 .. Len(log) -> Seq(Message)] /\ Len(log) \in Nat /\ DOMAIN log = 1 .. Len(log)
    BY <1>1, LenProperties
  <2>2. log' \in [1 .. Len(log) -> Seq(Message)] /\ \A d \in DOMAIN log : log'[d] = log[d]
    BY <1>3, <2>1 DEF Write
  <2> QED BY <1>3, <2>1, <2>2, Sequence
<1> QED BY <1>2, <1>3

LEMMA LogQuestionType ==
  ASSUME TypeOK, NEW n \in DOMAIN sends, LogQuestion(n)
  PROVE  TypeOK'
<1> DEFINE answerIn(conv) == Advance(n, [sends[n] EXCEPT !.core = "answer", !.conv = conv])
<1>1. n \in Messages /\ sends[n] \in Send
  BY SendType
<1>2. ASSUME NEW conv \in ConversationIds, answerIn(conv)
      PROVE  sends' \in Seq(Send) /\ Len(sends') <= MaxMessages
  <2>1. [sends[n] EXCEPT !.core = "answer", !.conv = conv] \in Send
    BY <1>1, <1>2 DEF Send
  <2> QED BY <1>2, <2>1, AdvanceType
<1>3. CASE /\ sends[n].conv # NoConversation /\ Write("user", n, sends[n].conv)
           /\ UNCHANGED active /\ Fine /\ answerIn(sends[n].conv)
  <2>1. sends' \in Seq(Send) /\ Len(sends') <= MaxMessages
    BY <1>1, <1>2, <1>3 DEF Send
  <2>2. log' \in Seq(Seq(Message)) /\ DOMAIN log' = DOMAIN log
    BY <1>1, <1>3, WriteType
  <2> HIDE DEF answerIn
  <2> QED BY <1>3, <2>1, <2>2 DEF LogQuestion, TypeOK, Fine, browser, shop
<1>4. CASE /\ sends[n].conv = NoConversation
           /\ log' = Append(log, <<[role |-> "user", of |-> n]>>)
           /\ active' = active \union {Len(log) + 1} /\ Fine /\ answerIn(Len(log) + 1)
  <2>1. Len(log) + 1 \in Nat \ {0} /\ DOMAIN log = 1 .. Len(log) /\ Len(log) \in Nat
    BY NewestType
  <2>2. sends' \in Seq(Send) /\ Len(sends') <= MaxMessages
    BY <1>2, <1>4, <2>1 DEF ConversationIds
  <2>3. <<[role |-> "user", of |-> n]>> \in Seq(Message)
    BY <1>1 DEF Message
  <2>4. log' \in Seq(Seq(Message)) /\ Len(log') = Len(log) + 1
    BY <1>4, <2>3 DEF TypeOK
  <2>5. active' \subseteq DOMAIN log'
    BY <1>4, <2>1, <2>4, LenProperties DEF TypeOK
  <2> HIDE DEF answerIn
  <2> QED BY <1>4, <2>2, <2>4, <2>5 DEF LogQuestion, TypeOK, Fine, browser, shop
<1>5. CASE /\ Trouble("question") /\ UNCHANGED core
           /\ answerIn(IF sends[n].asked # NoConversation THEN sends[n].asked ELSE Unsaved)
  <2>1. sends' \in Seq(Send) /\ Len(sends') <= MaxMessages
    BY <1>1, <1>2, <1>5 DEF Send, ConversationIds
  <2>2. troubles' \in 0 .. MaxTroubles
    BY <1>5, WidgetAssumption DEF Trouble, TypeOK
  <2> HIDE DEF answerIn
  <2> QED BY <1>5, <2>1, <2>2 DEF LogQuestion, TypeOK, browser, shop, core
<1> QED BY <1>3, <1>4, <1>5 DEF LogQuestion

LEMMA AnswerType ==
  ASSUME TypeOK, NEW n \in DOMAIN sends, Answer(n)
  PROVE  TypeOK'
<1>1. n \in Messages /\ [sends[n] EXCEPT !.core = "answered"] \in Send
  BY SendType DEF Send
<1>2. sends' \in Seq(Send) /\ Len(sends') <= MaxMessages
  BY <1>1, AdvanceType DEF Answer
<1>3. log' \in Seq(Seq(Message)) /\ DOMAIN log' = DOMAIN log
  BY <1>1, WriteType DEF Answer, TypeOK
<1>4. troubles' \in 0 .. MaxTroubles
  BY WidgetAssumption DEF Answer, Trouble, Fine, TypeOK
<1> QED BY <1>2, <1>3, <1>4 DEF Answer, TypeOK, browser, shop

LEMMA ReplyType ==
  ASSUME TypeOK, NEW n \in DOMAIN sends, Reply(n)
  PROVE  TypeOK'
<1>1. n \in Messages
  BY SendType
<1>2. PICK made \in BOOLEAN :
        /\ IF n \in Issues THEN CreateCartRule(n, made)
                          ELSE made = FALSE /\ UNCHANGED rules /\ Fine
        /\ Advance(n, [sends[n] EXCEPT !.shop = "ok", !.redeemable = made])
  BY DEF Reply
<1>3. [sends[n] EXCEPT !.shop = "ok", !.redeemable = made] \in Send
  BY SendType DEF Send
<1>4. sends' \in Seq(Send) /\ Len(sends') <= MaxMessages
  BY <1>2, <1>3, AdvanceType
<1>5. rules' \subseteq Messages /\ troubles' \in 0 .. MaxTroubles
  BY <1>1, <1>2, WidgetAssumption DEF CreateCartRule, Trouble, Fine, TypeOK
<1> QED BY <1>4, <1>5 DEF Reply, TypeOK, browser, core

LEMMA TimeOutType ==
  ASSUME TypeOK, NEW n \in DOMAIN sends, TimeOut(n)
  PROVE  TypeOK'
<1>1. PICK s \in MaybeLost(sends[n]) : Advance(n, [s EXCEPT !.shop = "failed"])
  BY DEF TimeOut
<1>2. [s EXCEPT !.shop = "failed"] \in Send
  BY SendType DEF Send, MaybeLost
<1>3. sends' \in Seq(Send) /\ Len(sends') <= MaxMessages
  BY <1>1, <1>2, AdvanceType
<1>4. troubles' \in 0 .. MaxTroubles
  BY WidgetAssumption DEF TimeOut, Trouble, TypeOK
<1> QED BY <1>3, <1>4 DEF TimeOut, TypeOK, browser, shop, core

\* The page that waited is told.
LEMMA AnswerEntriesType ==
  ASSUME TypeOK, NEW n \in DOMAIN sends
  PROVE  AnswerEntries(n) \in Seq(Entry)
<1>1. About("bot", n) \in Entry /\ About("offer", n) \in Entry /\ Text("note") \in Entry
  BY SendType, EntryTypes
<1> QED BY <1>1, ConcatProperties, EmptySeq DEF AnswerEntries

LEMMA ReceiveAnswerType ==
  ASSUME TypeOK, NEW n \in DOMAIN sends, ReceiveAnswer(n)
  PROVE  TypeOK'
<1> DEFINE t == sends[n].tab
           settled == Settled(page[t], AnswerEntries(n))
<1>1. sends[n] \in Send /\ t \in Tabs /\ [sends[n] EXCEPT !.tab = None] \in Send
  BY SendType DEF Send, ReceiveAnswer
<1>2. sends' \in Seq(Send) /\ Len(sends') <= MaxMessages
  BY <1>1, AdvanceType DEF ReceiveAnswer
<1>3. settled \in Page
  BY <1>1, AnswerEntriesType, PageTypes
<1>4. page' = [page EXCEPT ![t] = [settled EXCEPT !.leaving = @ \/ n \in Finds]]
  BY DEF ReceiveAnswer
<1> HIDE DEF settled
<1>5. page' \in [Tabs -> Page]
  BY <1>1, <1>3, <1>4 DEF TypeOK, Page
<1>6. saved' \in [Tabs -> ConversationIds]
  BY <1>1 DEF ReceiveAnswer, TypeOK, Send
<1> QED BY <1>2, <1>5, <1>6 DEF ReceiveAnswer, TypeOK, shop, core

LEMMA ShowFailureType ==
  ASSUME TypeOK, NEW n \in DOMAIN sends, sends[n].tab # None, ShowFailure(n)
  PROVE  page' \in [Tabs -> Page]
<1>1. sends[n].tab \in Tabs
  BY SendType DEF Send
<1>2. <<Text("error")>> \in Seq(Entry)
  BY EntryTypes
<1>3. Settled(page[sends[n].tab], <<Text("error")>>) \in Page
  BY <1>1, <1>2, PageTypes
<1> QED BY <1>1, <1>3 DEF ShowFailure, TypeOK

LEMMA ReceiveErrorType ==
  ASSUME TypeOK, NEW n \in DOMAIN sends, ReceiveError(n)
  PROVE  TypeOK'
<1>1. [sends[n] EXCEPT !.tab = None] \in Send
  BY SendType DEF Send
<1>2. sends' \in Seq(Send) /\ Len(sends') <= MaxMessages
  BY <1>1, AdvanceType DEF ReceiveError
<1>3. page' \in [Tabs -> Page]
  BY ShowFailureType DEF ReceiveError
<1> QED BY <1>2, <1>3 DEF ReceiveError, TypeOK, shop, core

LEMMA DisconnectType ==
  ASSUME TypeOK, NEW n \in DOMAIN sends, Disconnect(n)
  PROVE  TypeOK'
<1>1. PICK s \in IF sends[n].shop = "waiting" THEN MaybeLost(sends[n]) ELSE {sends[n]} :
        Advance(n, [s EXCEPT !.tab = None])
  BY DEF Disconnect
<1>2. [s EXCEPT !.tab = None] \in Send
  BY SendType DEF Send, MaybeLost
<1>3. sends' \in Seq(Send) /\ Len(sends') <= MaxMessages
  BY <1>1, <1>2, AdvanceType
<1>4. page' \in [Tabs -> Page]
  BY ShowFailureType DEF Disconnect
<1>5. troubles' \in 0 .. MaxTroubles
  BY WidgetAssumption DEF Disconnect, Trouble, TypeOK
<1> QED BY <1>3, <1>4, <1>5 DEF Disconnect, TypeOK, shop, core

\* A slot that is filled or freed keeps the type of the calls.
LEMMA IssueType ==
  ASSUME TypeOK, NEW c \in Calls, NEW r \in Call \union {None}, Issue(c, r)
  PROVE  call' \in [Calls -> Call \union {None}]
BY DEF TypeOK, Issue

\* The oldest messages of a conversation are the first of its sequence.
LEMMA OldestType ==
  ASSUME NEW m \in Seq(Message)
  PROVE  /\ Oldest(m) \in Seq(Message) /\ Len(Oldest(m)) \in Nat
         /\ Len(Oldest(m)) <= Len(m) /\ DOMAIN Oldest(m) = 1 .. Len(Oldest(m))
         /\ \A i \in DOMAIN Oldest(m) : i \in DOMAIN m /\ Oldest(m)[i] = m[i]
<1>1. Len(m) \in Nat /\ DOMAIN m = 1 .. Len(m)
  BY LenProperties
<1>2. Limited(m) \in Nat /\ Limited(m) <= Len(m)
  BY <1>1, WidgetAssumption DEF Limited
<1>3. \A i \in 1 .. Limited(m) : m[i] \in Message
  BY <1>1, <1>2, ElementOfSeq
<1>4. /\ Oldest(m) \in Seq(Message) /\ Len(Oldest(m)) = Limited(m)
      /\ \A i \in 1 .. Limited(m) : Oldest(m)[i] = m[1 + i - 1]
  BY <1>2, <1>3, SubSeqProperties DEF Oldest
<1>5. DOMAIN Oldest(m) = 1 .. Limited(m)
  BY <1>4, LenProperties
<1> QED BY <1>1, <1>2, <1>4, <1>5

LEMMA RespondType ==
  ASSUME TypeOK, NEW c \in Calls, NEW r \in Call, Respond(c, r)
  PROVE  call' \in [Calls -> Call \union {None}]
<1>1. [r EXCEPT !.stage = "done"] \in Call
  BY DEF Call
<1>2. \E x \in Call \union {None} : Issue(c, x)
  BY <1>1 DEF Respond
<1> QED BY <1>2, IssueType

LEMMA ReadHistoryType ==
  ASSUME TypeOK, NEW c \in Calls, call[c] \in Call, ReadHistory(c)
  PROVE  TypeOK'
<1>1. call' \in [Calls -> Call \union {None}]
  <2>1. CASE call[c].conv \in DOMAIN log /\ Respond(c, [call[c] EXCEPT !.replay = Oldest(log[call[c].conv])])
    <3>1. Oldest(log[call[c].conv]) \in Seq(Message)
      BY <2>1, OldestType, ElementOfSeq, LenProperties DEF TypeOK
    <3>2. [call[c] EXCEPT !.replay = Oldest(log[call[c].conv])] \in Call
      BY <3>1 DEF Call
    <3> QED BY <2>1, <3>2, RespondType
  <2>2. CASE Respond(c, call[c])
    BY <2>2, RespondType
  <2> QED BY <2>1, <2>2 DEF ReadHistory
<1>2. troubles' \in 0 .. MaxTroubles
  BY WidgetAssumption DEF ReadHistory, Trouble, Fine, TypeOK
<1> QED BY <1>1, <1>2 DEF ReadHistory, TypeOK, browser, shop, core

LEMMA CheckCouponType ==
  ASSUME TypeOK, NEW c \in Calls, call[c] \in Call, CheckCoupon(c)
  PROVE  TypeOK'
<1>1. /\ \A b \in BOOLEAN : [call[c] EXCEPT !.ok = b] \in Call
      /\ [call[c] EXCEPT !.stage = "add"] \in Call
  BY DEF Call
<1>2. call' \in [Calls -> Call \union {None}]
  BY <1>1, RespondType, IssueType DEF CheckCoupon
<1>3. troubles' \in 0 .. MaxTroubles
  BY WidgetAssumption DEF CheckCoupon, Trouble, Fine, TypeOK
<1> QED BY <1>2, <1>3 DEF CheckCoupon, TypeOK, browser, shop, core

LEMMA AddCouponType ==
  ASSUME TypeOK, NEW c \in Calls, call[c] \in Call, AddCoupon(c),
         call[c].code \in Messages
  PROVE  TypeOK'
<1>1. \A b \in BOOLEAN : [call[c] EXCEPT !.ok = b] \in Call
  BY DEF Call
<1>2. call' \in [Calls -> Call \union {None}]
  BY <1>1, RespondType DEF AddCoupon
<1>3. troubles' \in 0 .. MaxTroubles /\ cart' \subseteq Messages
  BY WidgetAssumption DEF AddCoupon, Trouble, Fine, TypeOK
<1> QED BY <1>2, <1>3 DEF AddCoupon, TypeOK, browser, core

\* A history that is replayed.
LEMMA EntriesType ==
  ASSUME NEW m \in Seq(Message)
  PROVE  /\ Entries(m) \in Seq(Entry) /\ DOMAIN Entries(m) = DOMAIN m
         /\ \A i \in DOMAIN m : m[i] \in Message /\ Entries(m)[i] = About(m[i].role, m[i].of)
<1>1. DOMAIN m = 1 .. Len(m) /\ Len(m) \in Nat /\ \A i \in DOMAIN m : m[i] \in Message
  BY LenProperties, ElementOfSeq
<1>2. \A i \in DOMAIN m : About(m[i].role, m[i].of) \in Entry
  BY <1>1, EntryTypes DEF Message
<1>3. Entries(m) \in [1 .. Len(m) -> Entry]
  BY <1>1, <1>2 DEF Entries
<1> QED BY <1>1, <1>3, Sequence DEF Entries

\* A replay makes a transcript.
LEMMA ReplayedType ==
  ASSUME NEW s \in Seq(Entry), NEW m \in Seq(Message)
  PROVE  Replayed(s, m) \in Seq(Entry)
<1>1. s \o Entries(m) \in Seq(Entry)
  BY EntriesType, ConcatProperties
<1>2. <<Text("welcome")>> \in Seq(Entry)
  BY EntryTypes
<1> QED BY <1>1, <1>2 DEF Replayed

LEMMA ShowHistoryType ==
  ASSUME TypeOK, NEW c \in Calls, call[c].tab \in Tabs, NEW m \in Seq(Message),
         ShowHistory(c, m)
  PROVE  /\ page' \in [Tabs -> Page]
         /\ page' = [page EXCEPT ![call[c].tab] =
                      [page[call[c].tab] EXCEPT !.shown = Replayed(page[call[c].tab].shown, m)]]
<1> DEFINE t == call[c].tab
<1>1. page[t] \in Page /\ Replayed(page[t].shown, m) \in Seq(Entry)
  BY ReplayedType DEF TypeOK, Page
<1>2. page' = [page EXCEPT ![t] = [page[t] EXCEPT !.shown = Replayed(page[t].shown, m)]]
  BY DEF ShowHistory
<1> QED BY <1>1, <1>2 DEF TypeOK, Page

--------------------------------------------------------------------------------
(* Coupon buttons and the clicks on them.                                  *)

Buttons == {"offer", "applying", "applied"}

Clicks == {c \in Calls : call[c] # None /\ call[c].kind = "apply"}

\* A click that a page waits for has a button of its own, which says so; what
\* it may add is a code of the shop, and it succeeds with a code in the cart.
ButtonOfClick(c) ==
  call[c].tab # None =>
    /\ call[c].at \in DOMAIN page[call[c].tab].shown
    /\ page[call[c].tab].shown[call[c].at] = About("applying", call[c].code)

ClickInv ==
  /\ \A c \in Clicks : ButtonOfClick(c)
  /\ \A c \in Clicks : call[c].stage = "add" => call[c].code \in rules
  /\ \A c \in Clicks : call[c].ok => call[c].code \in cart
  /\ \A c, d \in Clicks :
       call[c].tab # None /\ call[c].tab = call[d].tab /\ call[c].at = call[d].at => c = d
  /\ \A c \in Calls : call[c] # None /\ call[c].stage = "done" => call[c].tab # None

\* The outcome of a click changes its button and adds a line.
LEMMA ButtonOfType ==
  ASSUME TypeOK, NEW c \in Clicks, call[c].tab # None, ButtonOfClick(c),
         NEW k \in {"offer", "applied"}, NEW e \in {"note", "error"}, ButtonOf(c, k, e)
  PROVE  /\ page' \in [Tabs -> Page] /\ call[c].tab \in Tabs
         /\ \A u \in Tabs \ {call[c].tab} : page'[u] = page[u]
         /\ DOMAIN page[call[c].tab].shown \subseteq DOMAIN page'[call[c].tab].shown
         /\ \A i \in DOMAIN page[call[c].tab].shown :
              page'[call[c].tab].shown[i] = IF i = call[c].at THEN About(k, call[c].code)
                                                              ELSE page[call[c].tab].shown[i]
         /\ \A i \in DOMAIN page'[call[c].tab].shown \ DOMAIN page[call[c].tab].shown :
              page'[call[c].tab].shown[i] = Text(e)
<1> DEFINE t == call[c].tab
           i == call[c].at
           old == page[t].shown
           changed == [page[t].shown EXCEPT ![i].kind = k]
           shown == Append(changed, Text(e))
<1>1. t \in Tabs /\ page[t] \in Page /\ i \in DOMAIN old
  BY DEF Clicks, TypeOK, Call, ButtonOfClick
<1>2. /\ old[i].of = call[c].code
      /\ old \in Seq(Entry)
  BY <1>1 DEF ButtonOfClick, About, Page
<1>3. /\ changed \in Seq(Entry) /\ DOMAIN changed = DOMAIN old
      /\ \A j \in DOMAIN old : changed[j] = IF j = i THEN About(k, call[c].code) ELSE old[j]
  <2>1. k \in {"offer", "applying", "applied"}
    OBVIOUS
  <2>2. /\ changed \in Seq(Entry) /\ DOMAIN changed = DOMAIN old
        /\ \A j \in DOMAIN old : changed[j] = IF j = i THEN About(k, old[i].of) ELSE old[j]
    BY <1>1, <2>1, ButtonType
  <2> QED BY <1>2, <2>2
<1>4. page' = [page EXCEPT ![t] = [page[t] EXCEPT !.shown = shown]]
  BY DEF ButtonOf
<1> HIDE DEF changed, old, t, i
<1>5. Text(e) \in Entry
  BY EntryTypes
<1>6. DOMAIN changed = 1 .. Len(changed) /\ Len(changed) \in Nat
  BY <1>3, LenProperties
<1>7. /\ shown \in Seq(Entry) /\ Len(shown) = Len(changed) + 1
      /\ \A j \in 1 .. Len(changed) : shown[j] = changed[j]
      /\ shown[Len(changed) + 1] = Text(e)
  BY <1>3, <1>5, <1>6
<1>8. DOMAIN shown = 1 .. (Len(changed) + 1)
  BY <1>7, LenProperties
<1> HIDE DEF shown
<1>9. page' \in [Tabs -> Page]
  BY <1>1, <1>4, <1>7 DEF TypeOK, Page
<1>10. /\ DOMAIN old \subseteq DOMAIN shown
       /\ \A j \in DOMAIN old : shown[j] = IF j = i THEN About(k, call[c].code) ELSE old[j]
       /\ \A j \in DOMAIN shown \ DOMAIN old : shown[j] = Text(e)
  BY <1>3, <1>6, <1>7, <1>8
<1>11. page'[t].shown = shown /\ \A u \in Tabs \ {t} : page'[u] = page[u]
  BY <1>1, <1>4 DEF TypeOK, Page
<1> QED BY <1>1, <1>9, <1>10, <1>11 DEF t, old, i

LEMMA ReceiveType ==
  ASSUME TypeOK, ClickInv, NEW c \in Calls, call[c] # None, Receive(c)
  PROVE  TypeOK'
<1>1. call' \in [Calls -> Call \union {None}]
  BY IssueType DEF Receive
<1>2. call[c] \in Call /\ call[c].tab \in Tabs
  BY DEF TypeOK, Receive, ClickInv, Call
<1>3. page' \in [Tabs -> Page]
  <2>1. CASE call[c].kind = "history"
    <3>1. call[c].replay \in Seq(Message)
      BY <1>2 DEF Call
    <3> QED BY <1>2, <2>1, <3>1, ShowHistoryType DEF Receive
  <2>2. CASE call[c].kind # "history"
    <3>1. c \in Clicks /\ call[c].tab # None /\ ButtonOfClick(c)
      BY <1>2, <2>2, WidgetAssumption DEF Clicks, ClickInv, Call
    <3>2. ButtonOf(c, "applied", "note") \/ ButtonOf(c, "offer", "error")
      BY <2>2 DEF Receive, ShowOutcome
    <3> QED BY <3>1, <3>2, ButtonOfType
  <2> QED BY <2>1, <2>2
<1> QED BY <1>1, <1>3 DEF Receive, TypeOK, shop, core

LEMMA DisconnectCallType ==
  ASSUME TypeOK, ClickInv, NEW c \in Calls, call[c] # None, DisconnectCall(c)
  PROVE  TypeOK'
<1>1. call[c] \in Call /\ call[c].tab \in Tabs
  BY DEF TypeOK, DisconnectCall, Call
<1>2. [call[c] EXCEPT !.tab = None] \in Call
  BY <1>1 DEF Call
<1>3. call' \in [Calls -> Call \union {None}]
  BY <1>2, IssueType DEF DisconnectCall
<1>4. page' \in [Tabs -> Page]
  <2>1. CASE call[c].kind = "history"
    BY <1>1, <2>1, EmptySeq, ShowHistoryType DEF DisconnectCall
  <2>2. CASE call[c].kind # "history"
    <3>1. c \in Clicks /\ call[c].tab # None /\ ButtonOfClick(c)
      BY <1>1, <2>2, WidgetAssumption DEF Clicks, ClickInv, Call
    <3> QED BY <2>2, <3>1, ButtonOfType DEF DisconnectCall
  <2> QED BY <2>1, <2>2
<1>5. troubles' \in 0 .. MaxTroubles
  BY WidgetAssumption DEF DisconnectCall, Trouble, TypeOK
<1> QED BY <1>3, <1>4, <1>5 DEF DisconnectCall, TypeOK, shop, core

\* Every step keeps the types.
LEMMA TypeStep == TypeOK /\ ClickInv /\ [Next]_vars => TypeOK'
<1> SUFFICES ASSUME TypeOK, ClickInv, [Next]_vars PROVE TypeOK'
  OBVIOUS
<1>1. CASE UNCHANGED vars
  BY <1>1 DEF TypeOK, vars, browser, shop, core
<1>2. ASSUME NEW t \in Tabs, Visit(t) PROVE TypeOK'
  <2>1. CASE LoadPage(t)
    <3>1. loads' \in 0 .. MaxLoads
      BY <2>1, WidgetAssumption DEF LoadPage, TypeOK
    <3> QED BY <2>1, <3>1, UnloadType DEF LoadPage
  <2>2. CASE Navigate(t)
    BY <2>2, UnloadType DEF Navigate, TypeOK
  <2> QED BY <1>2, <2>1, <2>2, ToggleType, SendMessageType, ClickApplyType DEF Visit
<1>3. ASSUME NEW n \in DOMAIN sends, Handle(n) \/ GiveUp(n) PROVE TypeOK'
  BY <1>3, RefuseType, ResolveType, LogQuestionType, AnswerType, ReplyType, TimeOutType,
     ReceiveAnswerType, ReceiveErrorType, DisconnectType DEF Handle, GiveUp
<1>4. ASSUME NEW c \in Calls, call[c] # None, HandleCall(c) \/ DisconnectCall(c) PROVE TypeOK'
  <2>1. call[c] \in Call
    BY <1>4 DEF TypeOK
  <2>2. call[c].kind = "apply" /\ call[c].stage = "add" => call[c].code \in Messages
    BY <1>4 DEF ClickInv, Clicks, TypeOK
  <2>3. CASE AddCoupon(c)
    BY <2>1, <2>2, <2>3, AddCouponType DEF AddCoupon
  <2> QED BY <1>4, <2>1, <2>3, ReadHistoryType, CheckCouponType, ReceiveType,
             DisconnectCallType DEF HandleCall
<1>5. CASE FillCart
  BY <1>5 DEF FillCart, TypeOK, browser, core
<1>6. CASE EndConversation
  <2>1. active' \subseteq active /\ UNCHANGED <<page, saved, loads, sends, call, log>>
    BY <1>6 DEF EndConversation, browser
  <2>2. UNCHANGED <<rules, cart, filled>>
    BY <1>6 DEF EndConversation, shop
  <2>3. troubles' \in 0 .. MaxTroubles
    BY <1>6, WidgetAssumption DEF EndConversation, Trouble, TypeOK
  <2> QED BY <2>1, <2>2, <2>3 DEF TypeOK
<1> QED BY <1>1, <1>2, <1>3, <1>4, <1>5, <1>6 DEF Next

--------------------------------------------------------------------------------
(* What a step does to the transcript of a page.                           *)

\* Entries are only added.
Grows(t) ==
  \A i \in DOMAIN page[t].shown :
    i \in DOMAIN page'[t].shown /\ page'[t].shown[i] = page[t].shown[i]

\* Opening a page adds at most the greeting, to an empty transcript.
LEMMA ToggleShows ==
  ASSUME TypeOK, NEW t \in Tabs, Toggle(t), NEW u \in Tabs
  PROVE  /\ Grows(u)
         /\ \A i \in DOMAIN page'[u].shown \ DOMAIN page[u].shown :
              i = 1 /\ page'[u].shown[i] = Text("welcome") /\ page[u].shown = <<>>
<1> DEFINE opened == ~page[t].open
           first == opened /\ page[t].shown = <<>>
           entries == IF first /\ saved[t] = NoConversation THEN <<Text("welcome")>> ELSE <<>>
<1>1. page' = [page EXCEPT ![t].open = opened, ![t].shown = @ \o entries]
  BY DEF Toggle
<1>2. page[t].shown \in Seq(Entry) /\ entries \in Seq(Entry)
  BY EntryTypes, EmptySeq DEF TypeOK, Page
<1>3. page'[t].shown = page[t].shown \o entries /\ (u # t => page'[u] = page[u])
  BY <1>1 DEF TypeOK, Page
<1>4. entries = <<>> \/ (page[t].shown = <<>> /\ entries = <<Text("welcome")>>)
  OBVIOUS
<1> HIDE DEF entries
<1>5. CASE u # t
  BY <1>3, <1>5 DEF Grows
<1>6. CASE u = t /\ entries = <<>>
  BY <1>2, <1>3, <1>6, ConcatEmptySeq DEF Grows
<1>7. CASE u = t /\ page[t].shown = <<>> /\ entries = <<Text("welcome")>>
  <2>1. page'[u].shown = <<Text("welcome")>>
    BY <1>2, <1>3, <1>7, ConcatEmptySeq
  <2> QED BY <2>1, <1>7 DEF Grows
<1> QED BY <1>4, <1>5, <1>6, <1>7

\* Sending adds the question.
LEMMA SendMessageShows ==
  ASSUME TypeOK, NEW t \in Tabs, SendMessage(t), NEW u \in Tabs
  PROVE  /\ Grows(u)
         /\ \A i \in DOMAIN page'[u].shown \ DOMAIN page[u].shown :
              u = t /\ page'[u].shown[i] = About("user", Len(sends) + 1)
<1>1. page[t].shown \in Seq(Entry) /\ About("user", Len(sends) + 1) \in Entry
  <2>1. Len(sends) + 1 \in Messages
    BY LenProperties, WidgetAssumption DEF TypeOK, SendMessage, Messages
  <2> QED BY <2>1, EntryTypes DEF TypeOK, Page
<1>2. /\ page'[t].shown = Append(page[t].shown, About("user", Len(sends) + 1))
      /\ u # t => page'[u] = page[u]
  BY DEF SendMessage, TypeOK, Page
<1>3. CASE u # t
  BY <1>2, <1>3 DEF Grows
<1>4. CASE u = t
  <2>1. DOMAIN page[t].shown = 1 .. Len(page[t].shown) /\ Len(page[t].shown) \in Nat
    BY <1>1, LenProperties
  <2>2. /\ page'[t].shown \in Seq(Entry) /\ Len(page'[t].shown) = Len(page[t].shown) + 1
        /\ \A i \in 1 .. Len(page[t].shown) : page'[t].shown[i] = page[t].shown[i]
        /\ page'[t].shown[Len(page[t].shown) + 1] = About("user", Len(sends) + 1)
    BY <1>1, <1>2, <2>1
  <2>3. DOMAIN page'[t].shown = 1 .. (Len(page[t].shown) + 1)
    BY <2>2, LenProperties
  <2>4. Grows(t)
    BY <2>1, <2>2, <2>3 DEF Grows
  <2>5. \A i \in DOMAIN page'[t].shown \ DOMAIN page[t].shown : i = Len(page[t].shown) + 1
    BY <2>1, <2>3
  <2> QED BY <1>4, <2>2, <2>4, <2>5
<1> QED BY <1>3, <1>4

\* Entries that a callback adds to the page t.
LEMMA AddedShows ==
  ASSUME TypeOK, NEW t \in Tabs, NEW u \in Tabs, NEW e \in Seq(Entry),
         page'[t].shown = page[t].shown \o e, u # t => page'[u] = page[u]
  PROVE  /\ Grows(u)
         /\ \A i \in DOMAIN page'[u].shown \ DOMAIN page[u].shown :
              u = t /\ \E j \in DOMAIN e : page'[u].shown[i] = e[j]
<1>1. page[t].shown \in Seq(Entry)
  BY DEF TypeOK, Page
<1>2. CASE u # t
  BY <1>2 DEF Grows
<1>3. CASE u = t
  <2> DEFINE s == page[t].shown
  <2>1. /\ \A i \in DOMAIN s : i \in DOMAIN (s \o e) /\ (s \o e)[i] = s[i]
        /\ \A i \in DOMAIN (s \o e) \ DOMAIN s :
             i - Len(s) \in DOMAIN e /\ (s \o e)[i] = e[i - Len(s)]
    BY <1>1, Added
  <2>2. page[u].shown = s /\ page'[u].shown = s \o e
    BY <1>3
  <2> HIDE DEF s
  <2>3. Grows(u)
    BY <2>1, <2>2 DEF Grows
  <2>4. ASSUME NEW i \in DOMAIN page'[u].shown \ DOMAIN page[u].shown
        PROVE  \E j \in DOMAIN e : page'[u].shown[i] = e[j]
    BY <2>1, <2>2
  <2> QED BY <1>3, <2>3, <2>4
<1> QED BY <1>2, <1>3

\* A failure adds an error.
LEMMA FailureShows ==
  ASSUME TypeOK, NEW n \in DOMAIN sends, sends[n].tab # None, ShowFailure(n), NEW u \in Tabs
  PROVE  /\ Grows(u)
         /\ \A i \in DOMAIN page'[u].shown \ DOMAIN page[u].shown :
              page'[u].shown[i] = Text("error")
<1> DEFINE e == <<Text("error")>>
<1>1. e \in Seq(Entry) /\ \A j \in DOMAIN e : e[j] = Text("error")
  BY EntryTypes
<1>2. PICK t \in Tabs : t = sends[n].tab
  BY SendType DEF Send
<1>3. page'[t].shown = page[t].shown \o e /\ (u # t => page'[u] = page[u])
  BY <1>2 DEF ShowFailure, Settled, TypeOK, Page
<1> HIDE DEF e
<1>4. /\ Grows(u)
      /\ \A i \in DOMAIN page'[u].shown \ DOMAIN page[u].shown :
           u = t /\ \E j \in DOMAIN e : page'[u].shown[i] = e[j]
  BY <1>1, <1>2, <1>3, AddedShows
<1> QED BY <1>1, <1>4

\* A reply adds its answer and, if it is redeemable, a button.
LEMMA ReceiveAnswerShows ==
  ASSUME TypeOK, NEW n \in DOMAIN sends, ReceiveAnswer(n), NEW u \in Tabs
  PROVE  /\ Grows(u)
         /\ \A i \in DOMAIN page'[u].shown \ DOMAIN page[u].shown :
              /\ u = sends[n].tab
              /\ \/ page'[u].shown[i] = About("bot", n)
                 \/ page'[u].shown[i] = About("offer", n) /\ sends[n].redeemable
                 \/ page'[u].shown[i] = Text("note")
<1> DEFINE e == AnswerEntries(n)
           t == sends[n].tab
<1>1. e \in Seq(Entry)
  BY AnswerEntriesType
<1>2. \A j \in DOMAIN e : \/ e[j] = About("bot", n)
                          \/ e[j] = About("offer", n) /\ sends[n].redeemable
                          \/ e[j] = Text("note")
  <2> DEFINE a == <<About("bot", n)>>
             b == IF sends[n].redeemable THEN <<About("offer", n)>> ELSE <<>>
             d == IF n \in Finds THEN <<Text("note")>> ELSE <<>>
  <2>1. a \in Seq(Entry) /\ b \in Seq(Entry) /\ d \in Seq(Entry)
    BY SendType, EntryTypes, EmptySeq
  <2>2. /\ \A j \in DOMAIN a : a[j] = About("bot", n)
        /\ \A j \in DOMAIN b : b[j] = About("offer", n) /\ sends[n].redeemable
        /\ \A j \in DOMAIN d : d[j] = Text("note")
    OBVIOUS
  <2>3. e = a \o b \o d
    BY DEF AnswerEntries
  <2> HIDE DEF a, b, d, e
  <2> DEFINE ab == a \o b
  <2>4. /\ ab \in Seq(Entry)
        /\ \A j \in DOMAIN a : ab[j] = a[j]
        /\ \A j \in DOMAIN ab \ DOMAIN a : \E i \in DOMAIN b : ab[j] = b[i]
    BY <2>1, Added
  <2> HIDE DEF ab
  <2>5. /\ \A j \in DOMAIN ab : (ab \o d)[j] = ab[j]
        /\ \A j \in DOMAIN (ab \o d) \ DOMAIN ab : \E i \in DOMAIN d : (ab \o d)[j] = d[i]
    BY <2>1, <2>4, Added
  <2>6. e = ab \o d
    BY <2>3 DEF ab
  <2> QED BY <2>2, <2>4, <2>5, <2>6
<1>3. t \in Tabs
  BY SendType DEF Send, ReceiveAnswer
<1>4. page'[t].shown = page[t].shown \o e /\ (u # t => page'[u] = page[u])
  BY <1>3 DEF ReceiveAnswer, Settled, TypeOK, Page
<1> HIDE DEF e, t
<1>5. /\ Grows(u)
      /\ \A i \in DOMAIN page'[u].shown \ DOMAIN page[u].shown :
           u = t /\ \E j \in DOMAIN e : page'[u].shown[i] = e[j]
  BY <1>1, <1>3, <1>4, AddedShows
<1> QED BY <1>2, <1>5 DEF t

\* A history is shown under what is there, or the greeting if both are empty.
LEMMA HistoryShows ==
  ASSUME TypeOK, NEW c \in Calls, call[c].tab \in Tabs, NEW m \in Seq(Message),
         ShowHistory(c, m), NEW u \in Tabs
  PROVE  /\ Grows(u)
         /\ \A i \in DOMAIN page'[u].shown \ DOMAIN page[u].shown :
              /\ u = call[c].tab
              /\ \/ i = 1 /\ page'[u].shown[i] = Text("welcome")
                 \/ \E j \in DOMAIN m : page'[u].shown[i] = About(m[j].role, m[j].of)
<1> DEFINE t == call[c].tab
           all == page[t].shown \o Entries(m)
<1>1. page[t].shown \in Seq(Entry) /\ Entries(m) \in Seq(Entry)
  BY EntriesType DEF TypeOK, Page
<1>2. page'[t].shown = Replayed(page[t].shown, m) /\ (u # t => page'[u] = page[u])
  <2>1. page' = [page EXCEPT ![t] = [page[t] EXCEPT !.shown = Replayed(page[t].shown, m)]]
    BY ShowHistoryType
  <2> QED BY <2>1 DEF TypeOK, Page
<1>3. CASE all = <<>>
  <2>1. page[t].shown = <<>>
    BY <1>1, <1>3, ConcatEqualIffEmpty
  <2>2. page'[t].shown = <<Text("welcome")>>
    BY <1>2, <1>3 DEF Replayed
  <2>3. Grows(u) /\ \A i \in DOMAIN page'[u].shown \ DOMAIN page[u].shown :
                      u = t /\ i = 1 /\ page'[u].shown[i] = Text("welcome")
    BY <1>2, <2>1, <2>2 DEF Grows
  <2> QED BY <2>3
<1>4. CASE all # <<>>
  <2>1. page'[t].shown = page[t].shown \o Entries(m)
    BY <1>2, <1>4 DEF Replayed
  <2>2. /\ Grows(u)
        /\ \A i \in DOMAIN page'[u].shown \ DOMAIN page[u].shown :
             u = t /\ \E j \in DOMAIN Entries(m) : page'[u].shown[i] = Entries(m)[j]
    BY <1>1, <1>2, <2>1, AddedShows
  <2> QED BY <2>2, EntriesType
<1> QED BY <1>3, <1>4

\* The outcome of a click: its button changes, the other entries are kept.
LEMMA OutcomeShows ==
  ASSUME TypeOK, NEW c \in Clicks, call[c].tab # None, ButtonOfClick(c),
         NEW k \in {"offer", "applied"}, NEW e \in {"note", "error"}, ButtonOf(c, k, e),
         NEW u \in Tabs
  PROVE  /\ DOMAIN page[u].shown \subseteq DOMAIN page'[u].shown
         /\ \A i \in DOMAIN page[u].shown :
              page'[u].shown[i] = IF u = call[c].tab /\ i = call[c].at
                                    THEN About(k, call[c].code) ELSE page[u].shown[i]
         /\ \A i \in DOMAIN page'[u].shown \ DOMAIN page[u].shown : page'[u].shown[i] = Text(e)
<1>1. CASE u = call[c].tab
  BY <1>1, ButtonOfType
<1>2. CASE u # call[c].tab
  BY <1>2, ButtonOfType
<1> QED BY <1>1, <1>2

\* A click changes its button only.
LEMMA ClickApplyShows ==
  ASSUME TypeOK, NEW t \in Tabs, ClickApply(t), NEW u \in Tabs
  PROVE  \E i \in DOMAIN page[t].shown, c \in CallsOf[t] :
           /\ page[t].shown[i].kind = "offer"
           /\ call[c] = None
           /\ Issue(c, ApplyRequest(t, i))
           /\ DOMAIN page'[u].shown = DOMAIN page[u].shown
           /\ \A j \in DOMAIN page[u].shown :
                page'[u].shown[j] = IF u = t /\ j = i THEN About("applying", page[t].shown[i].of)
                                                     ELSE page[u].shown[j]
<1>1. PICK i \in DOMAIN page[t].shown, c \in CallsOf[t] :
        /\ page[t].shown[i].kind = "offer"
        /\ call[c] = None
        /\ page' = [page EXCEPT ![t].shown[i].kind = "applying"]
        /\ Issue(c, ApplyRequest(t, i))
  BY DEF ClickApply
<1>2. page' = [page EXCEPT ![t] = [page[t] EXCEPT
                 !.shown = [page[t].shown EXCEPT ![i].kind = "applying"]]]
  BY <1>1
<1>3. /\ page'[t].shown = [page[t].shown EXCEPT ![i].kind = "applying"]
      /\ u # t => page'[u] = page[u]
  BY <1>2 DEF TypeOK, Page
<1>4. /\ DOMAIN page'[t].shown = DOMAIN page[t].shown
      /\ \A j \in DOMAIN page[t].shown :
           page'[t].shown[j] = IF j = i THEN About("applying", page[t].shown[i].of)
                                        ELSE page[t].shown[j]
  BY <1>3, ButtonType
<1>5. CASE u = t
  BY <1>1, <1>4, <1>5
<1>6. CASE u # t
  BY <1>1, <1>3, <1>6
<1> QED BY <1>5, <1>6

\* A call that goes on keeps its button.
LEMMA ClicksKept ==
  ASSUME ClickInv, rules \subseteq rules', cart \subseteq cart',
         \A c \in Clicks' :
           /\ c \in Clicks
           /\ call'[c].at = call[c].at /\ call'[c].code = call[c].code
           /\ call'[c].tab \in {None, call[c].tab}
           /\ call'[c].stage = "add" => call[c].stage = "add" \/ call[c].code \in rules
           /\ call'[c].ok => call[c].ok \/ call[c].code \in cart'
           /\ call'[c].tab # None =>
                /\ call[c].at \in DOMAIN page'[call[c].tab].shown
                /\ page'[call[c].tab].shown[call[c].at] = page[call[c].tab].shown[call[c].at],
         \A c \in Calls : call'[c] # None /\ call'[c].stage = "done" => call'[c].tab # None
  PROVE  ClickInv'
<1>1. \A c \in Clicks' : ButtonOfClick(c)'
  BY DEF ClickInv, ButtonOfClick
<1>2. \A c \in Clicks' : call'[c].stage = "add" => call'[c].code \in rules'
  BY DEF ClickInv
<1>3. \A c \in Clicks' : call'[c].ok => call'[c].code \in cart'
  BY DEF ClickInv
<1>4. \A c, d \in Clicks' :
        call'[c].tab # None /\ call'[c].tab = call'[d].tab /\ call'[c].at = call'[d].at => c = d
  BY DEF ClickInv
<1> QED BY <1>1, <1>2, <1>3, <1>4 DEF ClickInv, Calls

\* Steps that leave the calls alone and add to pages, carts and rules.
LEMMA ClicksAlone ==
  ASSUME TypeOK, ClickInv, \A t \in Tabs : Grows(t), call' = call,
         rules \subseteq rules', cart \subseteq cart'
  PROVE  ClickInv'
<1>1. \A c \in Clicks' : c \in Clicks /\ call[c] \in Call
  BY DEF Clicks, TypeOK
<1>2. \A c \in Clicks' :
        call'[c].tab # None =>
          /\ call[c].at \in DOMAIN page'[call[c].tab].shown
          /\ page'[call[c].tab].shown[call[c].at] = page[call[c].tab].shown[call[c].at]
  BY <1>1 DEF ClickInv, ButtonOfClick, Grows, Call
<1> QED BY <1>1, <1>2, ClicksKept DEF ClickInv

\* Steps of a call that is not a click that a page gets the outcome of.
LEMMA OneCallGoesOn ==
  ASSUME TypeOK, ClickInv, NEW c \in Calls, call[c] # None, NEW r \in Call \union {None},
         Issue(c, r), \A t \in Tabs : Grows(t), rules \subseteq rules', cart \subseteq cart',
         r # None =>
           /\ r.kind = call[c].kind /\ r.at = call[c].at /\ r.code = call[c].code
           /\ r.tab \in {None, call[c].tab}
           /\ r.kind = "apply" /\ r.stage = "add" => call[c].stage = "add" \/ call[c].code \in rules
           /\ r.kind = "apply" /\ r.ok => call[c].ok \/ call[c].code \in cart'
           /\ r.stage = "done" => r.tab # None
  PROVE  ClickInv'
<1>1. \A d \in Calls : call'[d] = IF d = c THEN r ELSE call[d]
  BY DEF Issue, TypeOK
<1>2. \A d \in Clicks' : d \in Clicks /\ call[d] \in Call
  BY <1>1 DEF Clicks, TypeOK
<1>3. \A d \in Clicks' :
        call'[d].tab # None =>
          /\ call[d].at \in DOMAIN page'[call[d].tab].shown
          /\ page'[call[d].tab].shown[call[d].at] = page[call[d].tab].shown[call[d].at]
  BY <1>1, <1>2 DEF ClickInv, ButtonOfClick, Grows, Call, Clicks
<1>4. \A d \in Clicks' :
        /\ call'[d].at = call[d].at /\ call'[d].code = call[d].code
        /\ call'[d].tab \in {None, call[d].tab}
        /\ call'[d].stage = "add" => call[d].stage = "add" \/ call[d].code \in rules
        /\ call'[d].ok => call[d].ok \/ call[d].code \in cart'
  BY <1>1 DEF Clicks
<1>5. \A d \in Calls : call'[d] # None /\ call'[d].stage = "done" => call'[d].tab # None
  BY <1>1 DEF ClickInv
<1> QED BY <1>2, <1>3, <1>4, <1>5, ClicksKept

\* A page that is left: nobody waits for its calls any more.
LEMMA UnloadClicks ==
  ASSUME TypeOK, ClickInv, NEW t \in Tabs, Unload(t)
  PROVE  ClickInv'
<1>1. \A d \in Calls :
        \/ call'[d] = call[d] /\ (call[d] # None => call[d].tab # t)
        \/ call'[d] = None
        \/ /\ call'[d] = [call[d] EXCEPT !.tab = None]
           /\ call[d] # None /\ call[d] \in Call /\ call[d].stage # "done"
  BY DEF Unload, TypeOK
<1>2. \A d \in Clicks' : d \in Clicks /\ call[d] \in Call
  BY <1>1 DEF Clicks, TypeOK, Call
<1>3. \A d \in Clicks' :
        /\ call'[d].at = call[d].at /\ call'[d].code = call[d].code
        /\ call'[d].tab \in {None, call[d].tab}
        /\ call'[d].stage = call[d].stage /\ call'[d].ok = call[d].ok
        /\ call'[d].tab # None => call[d].tab # t /\ call[d].tab \in Tabs
  BY <1>1, <1>2 DEF Clicks, Call
<1>4. \A u \in Tabs \ {t} : page'[u] = page[u]
  BY DEF Unload, TypeOK
<1>5. \A d \in Clicks' :
        call'[d].tab # None =>
          /\ call[d].at \in DOMAIN page'[call[d].tab].shown
          /\ page'[call[d].tab].shown[call[d].at] = page[call[d].tab].shown[call[d].at]
  BY <1>2, <1>3, <1>4 DEF ClickInv, ButtonOfClick
<1>6. \A d \in Calls : call'[d] # None /\ call'[d].stage = "done" => call'[d].tab # None
  BY <1>1 DEF ClickInv, Call
<1> QED BY <1>2, <1>3, <1>5, <1>6, ClicksKept DEF Unload, shop

\* A click finds a button that nobody has clicked yet.
LEMMA ClickApplyClicks ==
  ASSUME TypeOK, ClickInv, NEW t \in Tabs, ClickApply(t)
  PROVE  ClickInv'
<1>1. PICK i \in DOMAIN page[t].shown, c \in CallsOf[t] :
        /\ page[t].shown[i].kind = "offer"
        /\ call[c] = None
        /\ Issue(c, ApplyRequest(t, i))
        /\ page' = [page EXCEPT ![t].shown[i].kind = "applying"]
  BY DEF ClickApply
<1>2. c \in Calls /\ \A d \in Calls : call'[d] = IF d = c THEN ApplyRequest(t, i) ELSE call[d]
  BY <1>1 DEF Issue, TypeOK, Calls
<1>3. /\ ApplyRequest(t, i).kind = "apply" /\ ApplyRequest(t, i).tab = t
      /\ ApplyRequest(t, i).stage = "sent" /\ ApplyRequest(t, i).at = i
      /\ ApplyRequest(t, i).code = page[t].shown[i].of /\ ApplyRequest(t, i).ok = FALSE
  BY DEF ApplyRequest
<1>4. page' = [page EXCEPT ![t] = [page[t] EXCEPT
                 !.shown = [page[t].shown EXCEPT ![i].kind = "applying"]]]
  BY <1>1
<1>5. /\ page'[t].shown = [page[t].shown EXCEPT ![i].kind = "applying"]
      /\ \A u \in Tabs \ {t} : page'[u] = page[u]
  BY <1>4 DEF TypeOK, Page
<1>6. /\ DOMAIN page'[t].shown = DOMAIN page[t].shown
      /\ \A j \in DOMAIN page[t].shown :
           page'[t].shown[j] = IF j = i THEN About("applying", page[t].shown[i].of)
                                        ELSE page[t].shown[j]
  BY <1>5, ButtonType
<1>7. \A d \in Clicks : d # c /\ d \in Clicks' /\ call'[d] = call[d] /\ call[d] \in Call
  BY <1>1, <1>2 DEF Clicks, TypeOK
<1>8. \A d \in Clicks' : d = c \/ d \in Clicks
  BY <1>2 DEF Clicks
<1>9. \A d \in Clicks : ~(call[d].tab = t /\ call[d].at = i)
  <2> SUFFICES ASSUME NEW d \in Clicks, call[d].tab = t, call[d].at = i PROVE FALSE
    OBVIOUS
  <2>1. page[t].shown[i] = About("applying", call[d].code)
    BY WidgetAssumption DEF ClickInv, ButtonOfClick
  <2> QED BY <1>1, <2>1 DEF About
<1>10. \A d \in Clicks' : ButtonOfClick(d)'
  <2>1. ButtonOfClick(c)'
    BY <1>2, <1>3, <1>6 DEF ButtonOfClick
  <2>2. ASSUME NEW d \in Clicks PROVE ButtonOfClick(d)'
    <3>1. ButtonOfClick(d)
      BY DEF ClickInv
    <3>2. call[d].tab # None => call[d].tab \in Tabs
      BY <1>7 DEF Call
    <3> QED BY <1>5, <1>6, <1>7, <1>9, <3>1, <3>2 DEF ButtonOfClick
  <2> QED BY <1>8, <2>1, <2>2
<1>11. /\ \A d \in Clicks' : call'[d].stage = "add" => call'[d].code \in rules'
       /\ \A d \in Clicks' : call'[d].ok => call'[d].code \in cart'
  BY <1>2, <1>3, <1>7, <1>8 DEF ClickInv, ClickApply, shop
<1>12. \A d, e \in Clicks' :
         call'[d].tab # None /\ call'[d].tab = call'[e].tab /\ call'[d].at = call'[e].at => d = e
  BY <1>2, <1>3, <1>7, <1>8, <1>9 DEF ClickInv
<1>13. \A d \in Calls : call'[d] # None /\ call'[d].stage = "done" => call'[d].tab # None
  BY <1>2, <1>3 DEF ClickInv
<1> QED BY <1>10, <1>11, <1>12, <1>13 DEF ClickInv, Calls

\* A page that gets the outcome of a click.
LEMMA OutcomeClicks ==
  ASSUME TypeOK, ClickInv, NEW c \in Clicks, call[c].tab # None,
         NEW k \in {"offer", "applied"}, NEW e \in {"note", "error"}, ButtonOf(c, k, e),
         \/ Issue(c, None)
         \/ call[c].stage # "done" /\ Issue(c, [call[c] EXCEPT !.tab = None]),
         UNCHANGED shop
  PROVE  ClickInv'
<1>0. ButtonOfClick(c) /\ c \in Calls /\ call[c] \in Call
  BY DEF ClickInv, Clicks, TypeOK
<1>1. /\ \A d \in Calls \ {c} : call'[d] = call[d]
      /\ \/ call'[c] = None
         \/ call[c].stage # "done" /\ call'[c] = [call[c] EXCEPT !.tab = None]
  BY <1>0 DEF Issue, TypeOK
<1>2. \A d \in Clicks' : d \in Clicks /\ call[d] \in Call
  BY <1>0, <1>1 DEF Clicks, TypeOK
<1>3. \A d \in Clicks' :
        /\ call'[d].at = call[d].at /\ call'[d].code = call[d].code
        /\ call'[d].tab \in {None, call[d].tab}
        /\ call'[d].stage = call[d].stage /\ call'[d].ok = call[d].ok
        /\ call'[d].tab # None => d # c /\ call[d].tab \in Tabs
  <2>1. ASSUME NEW d \in Clicks', d # c
        PROVE  call'[d] = call[d] /\ (call[d].tab # None => call[d].tab \in Tabs)
    BY <1>1, <1>2, <2>1 DEF Clicks, Call
  <2>2. ASSUME c \in Clicks'
        PROVE  call'[c] = [call[c] EXCEPT !.tab = None]
    BY <1>1, <2>2 DEF Clicks
  <2>3. c \in Clicks' =>
          /\ call'[c].at = call[c].at /\ call'[c].code = call[c].code /\ call'[c].tab = None
          /\ call'[c].stage = call[c].stage /\ call'[c].ok = call[c].ok
    BY <1>0, <2>2 DEF Call
  <2> QED BY <2>1, <2>3
<1>4. ASSUME NEW d \in Clicks', call'[d].tab # None
      PROVE  /\ call[d].at \in DOMAIN page'[call[d].tab].shown
             /\ page'[call[d].tab].shown[call[d].at] = page[call[d].tab].shown[call[d].at]
  <2>1. d \in Clicks /\ call[d].tab # None /\ d # c /\ call[d].tab \in Tabs
    BY <1>2, <1>3, <1>4
  <2>2. ButtonOfClick(d) /\ ~(call[d].tab = call[c].tab /\ call[d].at = call[c].at)
    BY <2>1 DEF ClickInv
  <2>3. call[d].at \in DOMAIN page[call[d].tab].shown
    BY <2>1, <2>2 DEF ButtonOfClick
  <2> QED BY <1>0, <2>1, <2>2, <2>3, OutcomeShows
<1>5. \A d \in Calls : call'[d] # None /\ call'[d].stage = "done" => call'[d].tab # None
  BY <1>0, <1>1 DEF ClickInv, Call
<1>6. rules' = rules /\ cart' = cart
  BY DEF shop
<1> QED BY <1>2, <1>3, <1>4, <1>5, <1>6, ClicksKept

\* Reading the history is no click.
LEMMA ReadHistoryClicks ==
  ASSUME TypeOK, ClickInv, NEW c \in Calls, call[c] \in Call, call[c] # None, ReadHistory(c)
  PROVE  ClickInv'
<1>1. /\ \A t \in Tabs : Grows(t)
      /\ rules \subseteq rules' /\ cart \subseteq cart'
  BY DEF ReadHistory, Grows, browser, shop
<1>2. PICK m \in {call[c].replay, Oldest(log[call[c].conv])} :
        Respond(c, [call[c] EXCEPT !.replay = m])
  BY DEF ReadHistory, Call
<1>3. call[c].kind = "history"
  BY DEF ReadHistory
<1>4. CASE call[c].tab = None
  <2>1. Issue(c, None)
    BY <1>2, <1>4 DEF Respond, Call
  <2> QED BY <1>1, <2>1, OneCallGoesOn
<1>5. CASE call[c].tab # None
  <2> DEFINE r == [[call[c] EXCEPT !.replay = m] EXCEPT !.stage = "done"]
  <2>1. Issue(c, r)
    BY <1>2, <1>5 DEF Respond, Call
  <2>2. r \in Call \union {None}
    BY <2>1, ReadHistoryType DEF Issue, TypeOK
  <2>3. /\ r.kind = "history" /\ r.at = call[c].at /\ r.code = call[c].code
        /\ r.tab = call[c].tab /\ r.stage = "done"
    BY <1>3 DEF Call
  <2> HIDE DEF r
  <2> QED BY <1>1, <1>3, <1>5, <2>1, <2>2, <2>3, OneCallGoesOn
<1> QED BY <1>4, <1>5

\* A click goes on to the cart with a code of the shop, or ends.
LEMMA CheckCouponClicks ==
  ASSUME TypeOK, ClickInv, NEW c \in Calls, call[c] \in Call, call[c] # None, CheckCoupon(c)
  PROVE  ClickInv'
<1>1. /\ \A t \in Tabs : Grows(t)
      /\ rules \subseteq rules' /\ cart \subseteq cart'
  BY DEF CheckCoupon, Grows, browser, shop
<1>2. \E r \in Call \union {None} :
        /\ Issue(c, r)
        /\ r # None =>
             /\ r.kind = call[c].kind /\ r.at = call[c].at /\ r.code = call[c].code
             /\ r.tab = call[c].tab
             /\ r.stage = "add" => call[c].code \in rules
             /\ r.ok => call[c].ok \/ call[c].code \in cart
             /\ r.stage = "done" => r.tab # None
  <2>1. CASE Respond(c, [call[c] EXCEPT !.ok = FALSE])
    <3>1. CASE call[c].tab = None
      BY <2>1, <3>1 DEF Respond, Call
    <3>2. CASE call[c].tab # None
      <4> DEFINE r == [[call[c] EXCEPT !.ok = FALSE] EXCEPT !.stage = "done"]
      <4>1. Issue(c, r)
        BY <2>1, <3>2 DEF Respond, Call
      <4>2. /\ r \in Call /\ r.kind = call[c].kind /\ r.at = call[c].at
            /\ r.code = call[c].code /\ r.tab = call[c].tab /\ r.stage = "done" /\ r.ok = FALSE
        BY DEF Call
      <4> HIDE DEF r
      <4> QED BY <3>2, <4>1, <4>2
    <3> QED BY <3>1, <3>2
  <2>2. CASE call[c].code \in cart /\ Respond(c, [call[c] EXCEPT !.ok = TRUE])
    <3>1. CASE call[c].tab = None
      BY <2>2, <3>1 DEF Respond, Call
    <3>2. CASE call[c].tab # None
      <4> DEFINE r == [[call[c] EXCEPT !.ok = TRUE] EXCEPT !.stage = "done"]
      <4>1. Issue(c, r)
        BY <2>2, <3>2 DEF Respond, Call
      <4>2. /\ r \in Call /\ r.kind = call[c].kind /\ r.at = call[c].at
            /\ r.code = call[c].code /\ r.tab = call[c].tab /\ r.stage = "done"
        BY DEF Call
      <4> HIDE DEF r
      <4> QED BY <2>2, <3>2, <4>1, <4>2
    <3> QED BY <3>1, <3>2
  <2>3. CASE call[c].code \in rules /\ Issue(c, [call[c] EXCEPT !.stage = "add"])
    <3> DEFINE r == [call[c] EXCEPT !.stage = "add"]
    <3>1. /\ r \in Call /\ r.kind = call[c].kind /\ r.at = call[c].at
          /\ r.code = call[c].code /\ r.tab = call[c].tab /\ r.stage = "add" /\ r.ok = call[c].ok
      BY DEF Call
    <3>2. Issue(c, r) /\ call[c].code \in rules
      BY <2>3
    <3> HIDE DEF r
    <3> QED BY <3>1, <3>2
  <2> QED BY <2>1, <2>2, <2>3 DEF CheckCoupon
<1>3. cart' = cart
  BY DEF CheckCoupon, shop
<1> QED BY <1>1, <1>2, <1>3, OneCallGoesOn

\* A click that succeeds leaves its code in the cart.
LEMMA AddCouponClicks ==
  ASSUME TypeOK, ClickInv, NEW c \in Calls, call[c] \in Call, call[c] # None, AddCoupon(c)
  PROVE  ClickInv'
<1>1. /\ \A t \in Tabs : Grows(t)
      /\ rules \subseteq rules' /\ cart \subseteq cart'
  BY DEF AddCoupon, Grows, browser
<1>2. PICK ok \in BOOLEAN :
        Respond(c, [call[c] EXCEPT !.ok = ok]) /\ (ok => call[c].code \in cart')
  BY DEF AddCoupon
<1>3. CASE call[c].tab = None
  <2>1. Issue(c, None)
    BY <1>2, <1>3 DEF Respond, Call
  <2> QED BY <1>1, <2>1, OneCallGoesOn
<1>4. CASE call[c].tab # None
  <2> DEFINE r == [[call[c] EXCEPT !.ok = ok] EXCEPT !.stage = "done"]
  <2>1. Issue(c, r)
    BY <1>2, <1>4 DEF Respond, Call
  <2>2. /\ r \in Call /\ r.kind = call[c].kind /\ r.at = call[c].at
        /\ r.code = call[c].code /\ r.tab = call[c].tab /\ r.stage = "done" /\ r.ok = ok
    BY DEF Call
  <2> HIDE DEF r
  <2> QED BY <1>1, <1>2, <1>4, <2>1, <2>2, OneCallGoesOn
<1> QED BY <1>3, <1>4

\* The end of a call in the browser.
LEMMA ReceiveClicks ==
  ASSUME TypeOK, ClickInv, NEW c \in Calls, call[c] \in Call, call[c] # None,
         Receive(c) \/ DisconnectCall(c)
  PROVE  ClickInv'
<1>1. /\ UNCHANGED shop /\ call[c].tab # None /\ call[c].tab \in Tabs
      /\ \/ Issue(c, None)
         \/ call[c].stage # "done" /\ Issue(c, [call[c] EXCEPT !.tab = None])
  BY DEF Receive, DisconnectCall, ClickInv, Call
<1>2. CASE call[c].kind = "history"
  <2>1. PICK m \in Seq(Message) : ShowHistory(c, m)
    BY <1>2, EmptySeq DEF Receive, DisconnectCall, Call
  <2>2. \A t \in Tabs : Grows(t)
    BY <1>1, <2>1, HistoryShows
  <2>3. rules \subseteq rules' /\ cart \subseteq cart'
    BY <1>1 DEF shop
  <2>4. CASE Issue(c, None)
    BY <2>2, <2>3, <2>4, OneCallGoesOn
  <2>5. CASE call[c].stage # "done" /\ Issue(c, [call[c] EXCEPT !.tab = None])
    <3> DEFINE r == [call[c] EXCEPT !.tab = None]
    <3>1. /\ r \in Call /\ r.kind = "history" /\ r.at = call[c].at
          /\ r.code = call[c].code /\ r.tab = None /\ r.stage = call[c].stage
      BY <1>2 DEF Call
    <3>2. Issue(c, r) /\ r.stage # "done"
      BY <2>5, <3>1
    <3> HIDE DEF r
    <3> QED BY <1>2, <2>2, <2>3, <3>1, <3>2, OneCallGoesOn
  <2> QED BY <1>1, <2>4, <2>5
<1>3. CASE call[c].kind # "history"
  <2>1. c \in Clicks
    BY <1>3 DEF Clicks, Call
  <2>2. ButtonOf(c, "applied", "note") \/ ButtonOf(c, "offer", "error")
    BY <1>3 DEF Receive, DisconnectCall, ShowOutcome
  <2> QED BY <1>1, <2>1, <2>2, OutcomeClicks
<1> QED BY <1>2, <1>3

\* A call that opening a page issues is no click.
LEMMA ToggleClicks ==
  ASSUME TypeOK, ClickInv, NEW t \in Tabs, Toggle(t)
  PROVE  ClickInv'
<1>1. \A u \in Tabs : Grows(u)
  BY ToggleShows
<1>2. rules \subseteq rules' /\ cart \subseteq cart'
  BY DEF Toggle, shop
<1>3. CASE call' = call
  BY <1>1, <1>2, <1>3, ClicksAlone
<1>4. CASE \E c \in CallsOf[t] : call[c] = None /\ Issue(c, ReadRequest(t))
  <2>1. PICK c \in Calls : call[c] = None /\ Issue(c, ReadRequest(t))
    BY <1>4 DEF Calls
  <2>2. ReadRequest(t).kind = "history" /\ ReadRequest(t).stage = "sent"
    BY DEF ReadRequest
  <2>3. \A d \in Calls : call'[d] = IF d = c THEN ReadRequest(t) ELSE call[d]
    BY <2>1 DEF Issue, TypeOK
  <2>4. \A d \in Clicks' : d \in Clicks /\ call'[d] = call[d] /\ call[d] \in Call
    BY <2>1, <2>2, <2>3 DEF Clicks, TypeOK
  <2>5. \A d \in Clicks' :
          call'[d].tab # None =>
            /\ call[d].at \in DOMAIN page'[call[d].tab].shown
            /\ page'[call[d].tab].shown[call[d].at] = page[call[d].tab].shown[call[d].at]
    BY <1>1, <2>4 DEF ClickInv, ButtonOfClick, Grows, Call
  <2>6. \A d \in Calls : call'[d] # None /\ call'[d].stage = "done" => call'[d].tab # None
    BY <2>2, <2>3 DEF ClickInv
  <2> QED BY <1>2, <2>4, <2>5, <2>6, ClicksKept
<1> QED BY <1>3, <1>4 DEF Toggle

\* Every step keeps the invariant of the clicks.
LEMMA ClickStep == TypeOK /\ ClickInv /\ [Next]_vars => ClickInv'
<1> SUFFICES ASSUME TypeOK, ClickInv, [Next]_vars PROVE ClickInv'
  OBVIOUS
<1>1. CASE UNCHANGED vars
  BY <1>1, ClicksAlone DEF vars, browser, shop, Grows
<1>2. ASSUME NEW t \in Tabs, Visit(t) PROVE ClickInv'
  <2>1. CASE SendMessage(t)
    BY <2>1, SendMessageShows, ClicksAlone DEF SendMessage, shop
  <2> QED BY <1>2, <2>1, UnloadClicks, ToggleClicks, ClickApplyClicks
          DEF Visit, LoadPage, Navigate
<1>3. ASSUME NEW n \in DOMAIN sends, Handle(n) \/ GiveUp(n) PROVE ClickInv'
  <2>1. CASE ReceiveAnswer(n)
    BY <2>1, ReceiveAnswerShows, ClicksAlone DEF ReceiveAnswer, shop
  <2>2. CASE ReceiveError(n)
    BY <2>2, FailureShows, ClicksAlone DEF ReceiveError, shop
  <2>3. CASE Disconnect(n)
    BY <2>3, FailureShows, ClicksAlone DEF Disconnect, shop
  <2>4. CASE Resolve(n) \/ LogQuestion(n) \/ Answer(n) \/ Refuse(n) \/ TimeOut(n)
    <3>1. UNCHANGED <<browser, call, shop>>
      BY <2>4 DEF Resolve, LogQuestion, Answer, Refuse, TimeOut
    <3> QED BY <3>1, ClicksAlone DEF browser, shop, Grows
  <2>5. CASE Reply(n)
    <3>1. UNCHANGED <<browser, call, cart>> /\ rules \subseteq rules'
      BY <2>5 DEF Reply, CreateCartRule
    <3> QED BY <3>1, ClicksAlone DEF browser, Grows
  <2> QED BY <1>3, <2>1, <2>2, <2>3, <2>4, <2>5 DEF Handle, GiveUp
<1>4. ASSUME NEW c \in Calls, call[c] # None, HandleCall(c) \/ DisconnectCall(c) PROVE ClickInv'
  <2>1. call[c] \in Call
    BY <1>4 DEF TypeOK
  <2> QED BY <1>4, <2>1, ReadHistoryClicks, CheckCouponClicks, AddCouponClicks, ReceiveClicks
          DEF HandleCall
<1>5. CASE FillCart \/ EndConversation
  <2>1. UNCHANGED <<browser, call, rules, cart>>
    BY <1>5 DEF FillCart, EndConversation, shop
  <2> QED BY <2>1, ClicksAlone DEF browser, Grows
<1> QED BY <1>1, <1>2, <1>3, <1>4, <1>5 DEF Next

\* At first there are no clicks.
LEMMA ClickInit == Init => ClickInv
BY DEF Init, ClickInv, Clicks

\* Every variable keeps its type: a page, a message or a call never gets a field
\* or a state of another kind, and no conversation is referred to without an id.
THEOREM TypeCorrect == Spec => []TypeOK
<1>1. TypeOK /\ ClickInv /\ [Next]_vars => TypeOK' /\ ClickInv'
  BY TypeStep, ClickStep
<1> QED BY <1>1, TypeInit, ClickInit, PTL DEF Spec

\* Every click has its button, its code and its slot.
LEMMA ClicksCorrect == Spec => []ClickInv
<1> QED BY TypeCorrect, ClickInit, ClickStep, PTL DEF Spec

--------------------------------------------------------------------------------
(* What a step can add to a page, or change in it.                         *)

\* Where the entry i of page t comes from, after a step.
Origin(t, i) ==
  LET e == page'[t].shown[i]
  IN \/ i \in DOMAIN page[t].shown /\ e = page[t].shown[i]
     \/ i = 1 /\ e = Text("welcome")
     \/ e \in {Text("note"), Text("error")}
     \/ SendMessage(t) /\ e = About("user", Len(sends) + 1)
     \/ \E n \in DOMAIN sends :
          /\ ReceiveAnswer(n) /\ sends[n].tab = t
          /\ \/ e = About("bot", n)
             \/ e = About("offer", n) /\ sends[n].redeemable
     \/ \E c \in Calls :
          /\ call[c] \in Call /\ call[c] # None
          /\ call[c].kind = "history" /\ call[c].tab = t
          /\ \E j \in DOMAIN call[c].replay :
               e = About(call[c].replay[j].role, call[c].replay[j].of)
     \/ \E c \in Clicks :
          /\ call[c].tab = t /\ call[c].at = i /\ ButtonOfClick(c)
          /\ \/ e = About("offer", call[c].code)
             \/ e = About("applied", call[c].code) /\ call[c].ok
     \/ /\ i \in DOMAIN page[t].shown /\ page[t].shown[i].kind = "offer"
        /\ e = About("applying", page[t].shown[i].of)

LEMMA Origins ==
  ASSUME TypeOK, ClickInv, [Next]_vars, NEW t \in Tabs, NEW i \in DOMAIN page'[t].shown
  PROVE  Origin(t, i)
<1>1. CASE page'[t] = page[t]
  BY <1>1 DEF Origin
<1>2. ASSUME NEW u \in Tabs, Visit(u) PROVE Origin(t, i)
  <2>1. CASE Unload(u)
    BY <1>1, <2>1 DEF Unload, FreshPage, TypeOK
  <2>2. CASE Toggle(u)
    BY <2>2, ToggleShows DEF Origin, Grows
  <2>3. CASE SendMessage(u)
    BY <2>3, SendMessageShows DEF Origin, Grows
  <2>4. CASE ClickApply(u)
    BY <2>4, ClickApplyShows DEF Origin
  <2> QED BY <1>2, <2>1, <2>2, <2>3, <2>4 DEF Visit, LoadPage, Navigate
<1>3. ASSUME NEW n \in DOMAIN sends, Handle(n) \/ GiveUp(n) PROVE Origin(t, i)
  <2>1. CASE ReceiveAnswer(n)
    BY <2>1, ReceiveAnswerShows DEF Origin, Grows
  <2>2. CASE ReceiveError(n) \/ Disconnect(n)
    BY <2>2, FailureShows DEF Origin, Grows, ReceiveError, Disconnect
  <2>3. CASE page' = page
    BY <1>1, <2>3
  <2>4. ReceiveAnswer(n) \/ ReceiveError(n) \/ Disconnect(n) \/ page' = page
    BY <1>3 DEF Handle, GiveUp, Resolve, LogQuestion, Answer, Reply, Refuse, TimeOut, browser
  <2> QED BY <2>1, <2>2, <2>3, <2>4
<1>4. ASSUME NEW c \in Calls, call[c] # None, HandleCall(c) \/ DisconnectCall(c)
      PROVE  Origin(t, i)
  <2>1. call[c] \in Call
    BY <1>4 DEF TypeOK
  <2>2. CASE ReadHistory(c) \/ CheckCoupon(c) \/ AddCoupon(c)
    BY <1>1, <2>2 DEF ReadHistory, CheckCoupon, AddCoupon, browser
  <2>3. CASE Receive(c) \/ DisconnectCall(c)
    <3>1. call[c].tab # None /\ call[c].tab \in Tabs
      <4>1. call[c].tab # None
        BY <1>4, <2>3 DEF Receive, DisconnectCall, ClickInv
      <4> QED BY <2>1, <4>1 DEF Call
    <3>2. CASE call[c].kind = "history"
      <4>1. PICK m \in {call[c].replay, <<>>} : ShowHistory(c, m)
        BY <2>3, <3>2 DEF Receive, DisconnectCall
      <4>2. m \in Seq(Message)
        BY <2>1, <4>1, EmptySeq DEF Call
      <4>3. \A j \in DOMAIN m : j \in DOMAIN call[c].replay /\ m[j] = call[c].replay[j]
        BY <4>1
      <4> QED BY <1>4, <2>1, <3>1, <3>2, <4>1, <4>2, <4>3, HistoryShows DEF Origin, Grows
    <3>3. CASE call[c].kind # "history"
      <4>1. c \in Clicks /\ ButtonOfClick(c)
        BY <1>4, <2>1, <3>3 DEF Clicks, Call, ClickInv
      <4>2. \/ ButtonOf(c, "applied", "note") /\ call[c].ok
            \/ ButtonOf(c, "offer", "error")
        BY <2>3, <3>3 DEF Receive, DisconnectCall, ShowOutcome
      <4> QED BY <3>1, <4>1, <4>2, OutcomeShows DEF Origin
    <3> QED BY <3>2, <3>3
  <2> QED BY <1>4, <2>2, <2>3 DEF HandleCall
<1>5. CASE UNCHANGED vars \/ FillCart \/ EndConversation
  BY <1>1, <1>5 DEF vars, FillCart, EndConversation, browser
<1> QED BY <1>2, <1>3, <1>4, <1>5 DEF Next

--------------------------------------------------------------------------------
(* Coupon buttons.                                                         *)

\* Where a code comes from: an answer that is redeemable is a rule of the shop.
ButtonsInv ==
  /\ \A n \in DOMAIN sends : sends[n].redeemable => n \in rules
  /\ ButtonRedeemable
  /\ AppliedTookEffect

\* Codes are never taken out of the shop or of the cart.
LEMMA CodesStay ==
  ASSUME TypeOK, [Next]_vars
  PROVE  rules \subseteq rules' /\ cart \subseteq cart'
BY DEF Next, vars, browser, shop, Visit, LoadPage, Navigate, Unload, Toggle, SendMessage, ClickApply,
       Handle, GiveUp, Resolve, LogQuestion, Answer, Reply, CreateCartRule, ReceiveAnswer,
       ReceiveError, Refuse, TimeOut, Disconnect, HandleCall, ReadHistory, CheckCoupon,
       AddCoupon, Receive, DisconnectCall, FillCart, EndConversation

\* What a step does to the record of a message.
LEMMA SendStep ==
  ASSUME TypeOK, [Next]_vars, NEW n \in DOMAIN sends'
  PROVE  \/ /\ n \notin DOMAIN sends /\ n = Len(sends) + 1
            /\ \E t \in Tabs : /\ SendMessage(t)
                               /\ sends'[n] = [tab |-> t, asked |-> NamedConversation(t),
                                               shop |-> "waiting", core |-> "sent",
                                               conv |-> NoConversation, redeemable |-> FALSE]
         \/ /\ n \in DOMAIN sends
            /\ \/ sends'[n] = sends[n]
               \/ sends'[n] = [sends[n] EXCEPT !.tab = None]
               \/ Handle(n) \/ GiveUp(n)
<1>0. DOMAIN sends = 1 .. Len(sends) /\ Len(sends) \in Nat
  BY LenProperties DEF TypeOK
<1>1. CASE sends' = sends
  BY <1>1
<1>2. ASSUME NEW t \in Tabs, Unload(t)
      PROVE  n \in DOMAIN sends /\ sends'[n] \in {sends[n], [sends[n] EXCEPT !.tab = None]}
  BY <1>2 DEF Unload
<1>3. ASSUME NEW t \in Tabs, SendMessage(t)
      PROVE  \/ n \in DOMAIN sends /\ sends'[n] = sends[n]
             \/ /\ n \notin DOMAIN sends /\ n = Len(sends) + 1
                /\ sends'[n] = [tab |-> t, asked |-> NamedConversation(t), shop |-> "waiting",
                                core |-> "sent", conv |-> NoConversation, redeemable |-> FALSE]
  <2> DEFINE s == [tab |-> t, asked |-> NamedConversation(t), shop |-> "waiting",
                   core |-> "sent", conv |-> NoConversation, redeemable |-> FALSE]
  <2>1. sends' = Append(sends, s)
    BY <1>3 DEF SendMessage
  <2>2. s \in Send
    BY DEF Send, TypeOK, NamedConversation, ConversationIds
  <2> HIDE DEF s
  <2>3. /\ sends' \in Seq(Send) /\ Len(sends') = Len(sends) + 1
        /\ \A m \in 1 .. Len(sends) : sends'[m] = sends[m]
        /\ sends'[Len(sends) + 1] = s
    BY <1>0, <2>1, <2>2 DEF TypeOK
  <2>4. n \in 1 .. (Len(sends) + 1)
    BY <2>3, LenProperties
  <2> QED BY <1>0, <2>3, <2>4 DEF s
<1>4. ASSUME NEW t \in Tabs, Visit(t)
      PROVE  \/ sends' = sends
             \/ Unload(t) \/ SendMessage(t)
  BY <1>4 DEF Visit, LoadPage, Navigate, Toggle, ClickApply
<1>5. ASSUME NEW m \in DOMAIN sends, Handle(m) \/ GiveUp(m), m # n
      PROVE  n \in DOMAIN sends /\ sends'[n] = sends[n]
  <2>1. \E s : Advance(m, s)
    BY <1>5 DEF Handle, GiveUp, Resolve, LogQuestion, Answer, Reply, ReceiveAnswer,
                ReceiveError, Refuse, TimeOut, Disconnect
  <2> QED BY <1>5, <2>1 DEF Advance
<1>6. ASSUME NEW c \in Calls, HandleCall(c) \/ DisconnectCall(c)
      PROVE  sends' = sends
  BY <1>6 DEF HandleCall, ReadHistory, CheckCoupon, AddCoupon, Receive, DisconnectCall
<1>7. CASE UNCHANGED vars \/ FillCart \/ EndConversation
  BY <1>1, <1>7 DEF vars, FillCart, EndConversation
<1>8. CASE \E t \in Tabs : Visit(t)
  BY <1>1, <1>2, <1>3, <1>4, <1>8
<1>9. CASE \E m \in DOMAIN sends : Handle(m) \/ GiveUp(m)
  BY <1>5, <1>9
<1>10. CASE \E c \in Calls : HandleCall(c) \/ DisconnectCall(c)
  BY <1>1, <1>6, <1>10
<1> QED BY <1>7, <1>8, <1>9, <1>10 DEF Next

\* What the steps of a message change in its record.
LEMMA Advanced ==
  ASSUME TypeOK, NEW n \in DOMAIN sends, Handle(n) \/ GiveUp(n)
  PROVE  /\ DOMAIN sends' = DOMAIN sends
         /\ \A m \in DOMAIN sends \ {n} : sends'[m] = sends[m]
         /\ sends'[n].asked = sends[n].asked
         /\ Reply(n) \/ sends'[n].redeemable = sends[n].redeemable
         /\ \/ sends'[n].tab = sends[n].tab /\ page' = page /\ saved' = saved
            \/ /\ ReceiveAnswer(n) \/ ReceiveError(n) \/ Disconnect(n)
               /\ sends'[n].tab = None
         /\ Resolve(n) \/ LogQuestion(n) \/ sends'[n].conv = sends[n].conv
         /\ \/ Resolve(n) \/ LogQuestion(n) \/ Answer(n)
            \/ sends'[n].core \in {sends[n].core, "over"}
         /\ Reply(n) \/ sends'[n].shop \in {sends[n].shop, "failed"}
<1>1. sends[n] \in Send
  BY SendType
<1>2. CASE Resolve(n)
  <2> DEFINE s == [sends[n] EXCEPT !.core = "log", !.conv = ConversationFor(sends[n].asked)]
  <2>1. Advance(n, s) /\ UNCHANGED browser
    BY <1>2 DEF Resolve
  <2>2. s.asked = sends[n].asked /\ s.redeemable = sends[n].redeemable /\ s.tab = sends[n].tab
        /\ s.shop = sends[n].shop
    BY <1>1 DEF Send
  <2> HIDE DEF s
  <2> QED BY <1>2, <2>1, <2>2 DEF Advance, browser
<1>3. CASE LogQuestion(n)
  <2>1. PICK c : Advance(n, [sends[n] EXCEPT !.core = "answer", !.conv = c])
    BY <1>3 DEF LogQuestion
  <2> DEFINE s == [sends[n] EXCEPT !.core = "answer", !.conv = c]
  <2>2. s.asked = sends[n].asked /\ s.redeemable = sends[n].redeemable /\ s.tab = sends[n].tab
        /\ s.shop = sends[n].shop
    BY <1>1 DEF Send
  <2>3. Advance(n, s) /\ UNCHANGED browser
    BY <1>3, <2>1 DEF LogQuestion
  <2> HIDE DEF s
  <2> QED BY <1>3, <2>2, <2>3 DEF Advance, browser
<1>4. CASE Answer(n)
  <2> DEFINE s == [sends[n] EXCEPT !.core = "answered"]
  <2>1. Advance(n, s) /\ UNCHANGED browser
    BY <1>4 DEF Answer
  <2>2. s.asked = sends[n].asked /\ s.redeemable = sends[n].redeemable /\ s.tab = sends[n].tab
        /\ s.conv = sends[n].conv /\ s.shop = sends[n].shop
    BY <1>1 DEF Send
  <2> HIDE DEF s
  <2> QED BY <1>4, <2>1, <2>2 DEF Advance, browser
<1>5. CASE Reply(n)
  <2>1. PICK made : Advance(n, [sends[n] EXCEPT !.shop = "ok", !.redeemable = made])
    BY <1>5 DEF Reply
  <2> DEFINE s == [sends[n] EXCEPT !.shop = "ok", !.redeemable = made]
  <2>2. s.asked = sends[n].asked /\ s.tab = sends[n].tab /\ s.conv = sends[n].conv
        /\ s.core = sends[n].core
    BY <1>1 DEF Send
  <2>3. Advance(n, s) /\ UNCHANGED browser
    BY <1>5, <2>1 DEF Reply
  <2> HIDE DEF s
  <2> QED BY <1>5, <2>2, <2>3 DEF Advance, browser
<1>6. CASE ReceiveAnswer(n) \/ ReceiveError(n)
  <2> DEFINE s == [sends[n] EXCEPT !.tab = None]
  <2>1. Advance(n, s)
    BY <1>6 DEF ReceiveAnswer, ReceiveError
  <2>2. s.asked = sends[n].asked /\ s.redeemable = sends[n].redeemable /\ s.tab = None
        /\ s.conv = sends[n].conv /\ s.core = sends[n].core /\ s.shop = sends[n].shop
    BY <1>1 DEF Send
  <2> HIDE DEF s
  <2> QED BY <1>6, <2>1, <2>2 DEF Advance
<1>7. CASE Disconnect(n)
  <2>1. PICK r \in IF sends[n].shop = "waiting" THEN MaybeLost(sends[n]) ELSE {sends[n]} :
          Advance(n, [r EXCEPT !.tab = None])
    BY <1>7 DEF Disconnect
  <2>2. r = sends[n] \/ r = [sends[n] EXCEPT !.core = "over"]
    BY <2>1 DEF MaybeLost
  <2> DEFINE s == [r EXCEPT !.tab = None]
  <2>3. s.asked = sends[n].asked /\ s.redeemable = sends[n].redeemable /\ s.tab = None
        /\ s.conv = sends[n].conv /\ s.core \in {sends[n].core, "over"} /\ s.shop = sends[n].shop
    BY <1>1, <2>2 DEF Send
  <2> HIDE DEF s
  <2>4. Advance(n, s)
    BY <2>1 DEF s
  <2> QED BY <1>7, <2>3, <2>4 DEF Advance
<1>8. CASE Refuse(n) \/ TimeOut(n)
  <2>1. PICK r \in {sends[n], [sends[n] EXCEPT !.core = "over"]} :
          Advance(n, [r EXCEPT !.shop = "failed"])
    <3>1. CASE Refuse(n)
      <4>1. [sends[n] EXCEPT !.shop = "failed", !.core = "over"]
              = [[sends[n] EXCEPT !.core = "over"] EXCEPT !.shop = "failed"]
        BY <1>1 DEF Send
      <4> QED BY <3>1, <4>1 DEF Refuse
    <3>2. CASE TimeOut(n)
      BY <3>2 DEF TimeOut, MaybeLost
    <3> QED BY <1>8, <3>1, <3>2
  <2> DEFINE s == [r EXCEPT !.shop = "failed"]
  <2>2. s.asked = sends[n].asked /\ s.redeemable = sends[n].redeemable /\ s.tab = sends[n].tab
        /\ s.conv = sends[n].conv /\ s.core \in {sends[n].core, "over"} /\ s.shop = "failed"
    BY <1>1, <2>1 DEF Send
  <2>3. Advance(n, s) /\ UNCHANGED browser
    BY <1>8, <2>1 DEF Refuse, TimeOut
  <2> HIDE DEF s
  <2> QED BY <1>8, <2>2, <2>3 DEF Advance, browser
<1> QED BY <1>2, <1>3, <1>4, <1>5, <1>6, <1>7, <1>8 DEF Handle, GiveUp

\* Only the reply makes an answer redeemable, with a rule of the shop.
LEMMA RedeemableStep ==
  ASSUME TypeOK, ButtonsInv, [Next]_vars, NEW n \in DOMAIN sends', sends'[n].redeemable
  PROVE  n \in rules'
<1>1. n \in DOMAIN sends /\ (sends'[n] = sends[n] \/ sends'[n] = [sends[n] EXCEPT !.tab = None]
                               \/ Handle(n) \/ GiveUp(n))
  BY SendStep
<1>2. sends[n] \in Send
  BY <1>1, SendType
<1>3. CASE sends[n].redeemable
  BY <1>1, <1>3, CodesStay DEF ButtonsInv
<1>4. CASE ~sends[n].redeemable
  <2>1. Handle(n) \/ GiveUp(n)
    BY <1>1, <1>2, <1>4 DEF Send
  <2>2. CASE Reply(n)
    <3>1. PICK made \in BOOLEAN :
            /\ IF n \in Issues THEN CreateCartRule(n, made)
                              ELSE made = FALSE /\ UNCHANGED rules /\ Fine
            /\ Advance(n, [sends[n] EXCEPT !.shop = "ok", !.redeemable = made])
      BY <2>2 DEF Reply
    <3>2. sends'[n].redeemable = made
      BY <1>1, <1>2, <3>1 DEF Advance, Send
    <3> QED BY <3>1, <3>2 DEF CreateCartRule
  <2>3. CASE ~Reply(n)
    BY <1>1, <1>4, <2>1, <2>3, Advanced
  <2> QED BY <2>2, <2>3
<1> QED BY <1>3, <1>4

\* Every step keeps the invariant of the buttons.
LEMMA ButtonsStep ==
  ASSUME TypeOK, ClickInv, ButtonsInv, [Next]_vars
  PROVE  ButtonsInv'
<1>1. \A n \in DOMAIN sends' : sends'[n].redeemable => n \in rules'
  BY RedeemableStep
<1>2. ASSUME NEW t \in Tabs, NEW i \in DOMAIN page'[t].shown
      PROVE  LET e == page'[t].shown[i]
             IN /\ e.kind \in Buttons => e.of \in rules'
                /\ e.kind = "applied" => e.of \in cart'
  <2> DEFINE e == page'[t].shown[i]
  <2>0. Origin(t, i)
    BY Origins
  <2>1. CASE i \in DOMAIN page[t].shown /\ e = page[t].shown[i]
    BY <2>1, CodesStay DEF ButtonsInv, ButtonRedeemable, AppliedTookEffect, Buttons
  <2>2. CASE \/ e \in {Text("welcome"), Text("note"), Text("error")}
             \/ e = About("user", Len(sends) + 1)
    BY <2>2 DEF Text, About, Buttons
  <2>3. ASSUME NEW n \in DOMAIN sends,
               \/ e = About("bot", n)
               \/ e = About("offer", n) /\ sends[n].redeemable
        PROVE  (e.kind \in Buttons => e.of \in rules') /\ e.kind # "applied"
    BY <2>3, CodesStay DEF About, Buttons, ButtonsInv
  <2>4. ASSUME NEW c \in Calls, call[c] \in Call, NEW j \in DOMAIN call[c].replay,
               e = About(call[c].replay[j].role, call[c].replay[j].of)
        PROVE  e.kind \notin Buttons
    <3>1. call[c].replay[j].role \in {"user", "bot"}
      BY <2>4, EntriesType DEF Call, Message
    <3> QED BY <2>4, <3>1 DEF About, Buttons
  <2>5. ASSUME NEW c \in Clicks, call[c].tab = t, call[c].at = i, ButtonOfClick(c),
               \/ e = About("offer", call[c].code)
               \/ e = About("applied", call[c].code) /\ call[c].ok
        PROVE  /\ e.of \in rules'
               /\ e.kind = "applied" => e.of \in cart'
    <3>1. i \in DOMAIN page[t].shown /\ page[t].shown[i] = About("applying", call[c].code)
      BY <2>5, WidgetAssumption DEF ButtonOfClick
    <3>2. call[c].code \in rules
      BY <3>1 DEF ButtonsInv, ButtonRedeemable, About
    <3>3. call[c].ok => call[c].code \in cart
      BY DEF ClickInv
    <3> QED BY <2>5, <3>2, <3>3, CodesStay DEF About
  <2>6. CASE /\ i \in DOMAIN page[t].shown /\ page[t].shown[i].kind = "offer"
             /\ e = About("applying", page[t].shown[i].of)
    BY <2>6, CodesStay DEF ButtonsInv, ButtonRedeemable, About
  <2> HIDE DEF e
  <2>7. /\ e.kind \in Buttons => e.of \in rules'
        /\ e.kind = "applied" => e.of \in cart'
    <3>1. e.kind = "applied" => e.kind \in Buttons
      BY DEF Buttons
    <3> QED BY <2>0, <2>1, <2>2, <2>3, <2>4, <2>5, <2>6, <3>1 DEF Origin, e
  <2> QED BY <2>7 DEF e
<1> QED BY <1>1, <1>2 DEF ButtonsInv, ButtonRedeemable, AppliedTookEffect, Buttons

\* Every button that is offered or applied, and every answer on its way, is backed by the shop.
LEMMA ButtonsCorrect == Spec => []ButtonsInv
<1>1. Init => ButtonsInv
  BY DEF Init, ButtonsInv, ButtonRedeemable, AppliedTookEffect, FreshPage
<1> QED BY <1>1, ButtonsStep, TypeCorrect, ClicksCorrect, PTL DEF Spec

\* The comment on appendCouponActions: a button is never offered for a code that
\* is no rule of the shop.
THEOREM ButtonsRedeemable == Spec => []ButtonRedeemable
<1>1. ButtonsInv => ButtonRedeemable
  BY DEF ButtonsInv
<1> QED BY <1>1, ButtonsCorrect, PTL

\* A button that says that its code is applied tells the truth about the cart.
THEOREM AppliedIsInCart == Spec => []AppliedTookEffect
<1>1. ButtonsInv => AppliedTookEffect
  BY DEF ButtonsInv
<1> QED BY <1>1, ButtonsCorrect, PTL

--------------------------------------------------------------------------------
(* The greeting.                                                           *)

\* The greeting opens a transcript, whenever the history arrives.
THEOREM GreetingOpens == Spec => []GreetsFirst
<1>1. Init => GreetsFirst
  BY DEF Init, GreetsFirst, FreshPage
<1>2. ASSUME TypeOK, ClickInv, GreetsFirst, [Next]_vars
      PROVE  GreetsFirst'
  <2> SUFFICES ASSUME NEW t \in Tabs, NEW i \in DOMAIN page'[t].shown,
                      page'[t].shown[i].kind = "welcome"
               PROVE  i = 1
    BY DEF GreetsFirst
  <2> DEFINE e == page'[t].shown[i]
  <2>0. Origin(t, i)
    BY <1>2, Origins
  <2>1. CASE i \in DOMAIN page[t].shown /\ e = page[t].shown[i]
    BY <1>2, <2>1 DEF GreetsFirst
  <2>2. ASSUME NEW c \in Calls, call[c] \in Call, NEW j \in DOMAIN call[c].replay,
               e = About(call[c].replay[j].role, call[c].replay[j].of)
        PROVE  FALSE
    <3>1. call[c].replay[j].role \in {"user", "bot"}
      BY <2>2, EntriesType DEF Call, Message
    <3> QED BY <2>2, <3>1 DEF About
  <2>3. /\ e \notin {Text("note"), Text("error")}
        /\ \A n, k : e = About(k, n) => k = "welcome"
    BY DEF Text, About
  <2> HIDE DEF e
  <2> QED BY <2>0, <2>1, <2>2, <2>3 DEF Origin, e
<1> QED BY <1>1, <1>2, TypeCorrect, ClicksCorrect, PTL DEF Spec

--------------------------------------------------------------------------------
(* The input.                                                              *)

\* Steps that neither begin nor end a wait.
LEMMA BusyAlone ==
  ASSUME BusyWhileWaiting, \A t \in Tabs : page'[t].busy = page[t].busy,
         DOMAIN sends' = DOMAIN sends,
         \A n \in DOMAIN sends : sends'[n].tab = sends[n].tab
  PROVE  BusyWhileWaiting'
BY DEF BusyWhileWaiting

\* The wait of a page for a message ends.
LEMMA BusyEnds ==
  ASSUME BusyWhileWaiting, NEW n \in DOMAIN sends, NEW t \in Tabs, sends[n].tab = t,
         DOMAIN sends' = DOMAIN sends, sends'[n].tab = None,
         \A m \in DOMAIN sends \ {n} : sends'[m] = sends[m],
         page'[t].busy = FALSE,
         \A u \in Tabs \ {t} : page'[u] = page[u]
  PROVE  BusyWhileWaiting'
<1>1. \A m \in DOMAIN sends : sends[m].tab = t => m = n
  BY DEF BusyWhileWaiting
<1>2. \A m \in DOMAIN sends' : sends'[m].tab # t
  BY <1>1, WidgetAssumption
<1>3. ASSUME NEW u \in Tabs \ {t}
      PROVE  \A m \in DOMAIN sends : sends'[m].tab = u <=> sends[m].tab = u
  BY WidgetAssumption
<1>4. ASSUME NEW u \in Tabs
      PROVE  /\ \A k, m \in DOMAIN sends' : sends'[k].tab = u /\ sends'[m].tab = u => k = m
             /\ page'[u].busy <=> \E m \in DOMAIN sends' : sends'[m].tab = u
  <2>1. CASE u = t
    BY <1>2, <2>1
  <2>2. CASE u # t
    <3>1. /\ \A k, m \in DOMAIN sends : sends[k].tab = u /\ sends[m].tab = u => k = m
          /\ page[u].busy <=> \E m \in DOMAIN sends : sends[m].tab = u
      BY DEF BusyWhileWaiting
    <3> QED BY <1>3, <2>2, <3>1
  <2> QED BY <2>1, <2>2
<1> QED BY <1>4 DEF BusyWhileWaiting

\* A page that is left waits for nothing, nor does the next one.
LEMMA UnloadBusy ==
  ASSUME TypeOK, BusyWhileWaiting, NEW t \in Tabs, Unload(t)
  PROVE  BusyWhileWaiting'
<1>1. /\ DOMAIN sends' = DOMAIN sends
      /\ \A n \in DOMAIN sends : IF sends[n].tab = t THEN sends'[n] = [sends[n] EXCEPT !.tab = None]
                                                    ELSE sends'[n] = sends[n]
  BY DEF Unload
<1>2. \A n \in DOMAIN sends : sends'[n].tab = IF sends[n].tab = t THEN None ELSE sends[n].tab
  <2> SUFFICES ASSUME NEW n \in DOMAIN sends
               PROVE  sends'[n].tab = IF sends[n].tab = t THEN None ELSE sends[n].tab
    OBVIOUS
  <2>1. sends[n] \in Send
    BY SendType
  <2>2. [sends[n] EXCEPT !.tab = None].tab = None
    BY <2>1 DEF Send
  <2> QED BY <1>1, <2>2
<1>3. page'[t].busy = FALSE /\ \A u \in Tabs \ {t} : page'[u] = page[u]
  BY DEF Unload, FreshPage, TypeOK
<1>4. ASSUME NEW u \in Tabs
      PROVE  /\ \A k, m \in DOMAIN sends' : sends'[k].tab = u /\ sends'[m].tab = u => k = m
             /\ page'[u].busy <=> \E m \in DOMAIN sends' : sends'[m].tab = u
  <2>1. CASE u = t
    BY <1>1, <1>2, <1>3, <2>1, WidgetAssumption
  <2>2. CASE u # t
    <3>1. /\ \A k, m \in DOMAIN sends : sends[k].tab = u /\ sends[m].tab = u => k = m
          /\ page[u].busy <=> \E m \in DOMAIN sends : sends[m].tab = u
      BY DEF BusyWhileWaiting
    <3>2. \A m \in DOMAIN sends : sends'[m].tab = u <=> sends[m].tab = u
      BY <1>2, <2>2, WidgetAssumption
    <3> QED BY <1>1, <1>3, <2>2, <3>1, <3>2
  <2> QED BY <2>1, <2>2
<1> QED BY <1>4 DEF BusyWhileWaiting

\* Sending blocks the input until the reply.
LEMMA SendMessageBusy ==
  ASSUME TypeOK, BusyWhileWaiting, NEW t \in Tabs, SendMessage(t)
  PROVE  BusyWhileWaiting'
<1> DEFINE n == Len(sends) + 1
           s == [tab |-> t, asked |-> NamedConversation(t), shop |-> "waiting",
                 core |-> "sent", conv |-> NoConversation, redeemable |-> FALSE]
<1>1. sends' = Append(sends, s) /\ ~page[t].busy
  BY DEF SendMessage, CanSend
<1>2. s \in Send /\ s.tab = t
  BY DEF Send, TypeOK, NamedConversation, ConversationIds
<1> HIDE DEF s
<1>3. Len(sends) \in Nat /\ DOMAIN sends = 1 .. Len(sends)
  BY LenProperties DEF TypeOK
<1>4. /\ sends' \in Seq(Send) /\ Len(sends') = n
      /\ \A m \in 1 .. Len(sends) : sends'[m] = sends[m]
      /\ sends'[n] = s
  BY <1>1, <1>2, <1>3 DEF TypeOK
<1>5. DOMAIN sends' = 1 .. n
  BY <1>4, LenProperties
<1>6. /\ DOMAIN sends' = DOMAIN sends \union {n} /\ n \notin DOMAIN sends
      /\ \A m \in DOMAIN sends : sends'[m] = sends[m]
      /\ sends'[n].tab = t
  BY <1>2, <1>3, <1>4, <1>5
<1>7. page'[t].busy = TRUE /\ \A u \in Tabs \ {t} : page'[u] = page[u]
  BY DEF SendMessage, TypeOK, Page
<1> HIDE DEF n
<1>8. ASSUME NEW u \in Tabs
      PROVE  /\ \A k, m \in DOMAIN sends' : sends'[k].tab = u /\ sends'[m].tab = u => k = m
             /\ page'[u].busy <=> \E m \in DOMAIN sends' : sends'[m].tab = u
  <2>1. /\ \A k, m \in DOMAIN sends : sends[k].tab = u /\ sends[m].tab = u => k = m
        /\ page[u].busy <=> \E m \in DOMAIN sends : sends[m].tab = u
    BY DEF BusyWhileWaiting
  <2>2. CASE u = t
    BY <1>1, <1>6, <1>7, <2>1, <2>2
  <2>3. CASE u # t
    BY <1>6, <1>7, <2>1, <2>3
  <2> QED BY <2>2, <2>3
<1> QED BY <1>8 DEF BusyWhileWaiting

\* Opening a page and clicking a button do not touch the input.
LEMMA PressedBusy ==
  ASSUME TypeOK, BusyWhileWaiting, NEW t \in Tabs, Toggle(t) \/ ClickApply(t)
  PROVE  BusyWhileWaiting'
<1> DEFINE opened == ~page[t].open
           first == opened /\ page[t].shown = <<>>
           entries == IF first /\ saved[t] = NoConversation THEN <<Text("welcome")>> ELSE <<>>
           old == page[t].shown
<1>1. page[t] \in Page
  BY DEF TypeOK
<1>2. sends' = sends
  BY DEF Toggle, ClickApply
<1>3. CASE Toggle(t)
  <2>1. page' = [page EXCEPT ![t] = [page[t] EXCEPT !.open = opened, !.shown = old \o entries]]
    BY <1>3 DEF Toggle
  <2> HIDE DEF opened, entries, old
  <2>2. \A u \in Tabs : page'[u].busy = page[u].busy
    BY <1>1, <2>1 DEF TypeOK, Page
  <2> QED BY <1>2, <2>2, BusyAlone
<1>4. CASE ClickApply(t)
  <2>1. PICK i \in DOMAIN page[t].shown : page' = [page EXCEPT ![t].shown[i].kind = "applying"]
    BY <1>4 DEF ClickApply
  <2> DEFINE new == [page[t].shown EXCEPT ![i].kind = "applying"]
  <2>2. page' = [page EXCEPT ![t] = [page[t] EXCEPT !.shown = new]]
    BY <2>1
  <2> HIDE DEF new
  <2>3. \A u \in Tabs : page'[u].busy = page[u].busy
    BY <1>1, <2>2 DEF TypeOK, Page
  <2> QED BY <1>2, <2>3, BusyAlone
<1> QED BY <1>3, <1>4

\* The outcome of a click does not touch the input.
LEMMA ButtonOfBusy ==
  ASSUME TypeOK, NEW c \in Calls, NEW k, NEW e, ButtonOf(c, k, e), call[c].tab \in Tabs
  PROVE  \A u \in Tabs : page'[u].busy = page[u].busy
<1> DEFINE t == call[c].tab
           shown == Append([page[t].shown EXCEPT ![call[c].at].kind = k], Text(e))
<1>1. page' = [page EXCEPT ![t] = [page[t] EXCEPT !.shown = shown]]
  BY DEF ButtonOf
<1>2. page[t] \in Page
  BY DEF TypeOK
<1> HIDE DEF shown
<1> QED BY <1>1, <1>2 DEF TypeOK, Page

\* A replay does not touch the input.
LEMMA ShowHistoryBusy ==
  ASSUME TypeOK, NEW c \in Calls, NEW m, ShowHistory(c, m), call[c].tab \in Tabs
  PROVE  \A u \in Tabs : page'[u].busy = page[u].busy
<1> DEFINE t == call[c].tab
           shown == Replayed(page[t].shown, m)
<1>1. page' = [page EXCEPT ![t] = [page[t] EXCEPT !.shown = shown]]
  BY DEF ShowHistory
<1>2. page[t] \in Page
  BY DEF TypeOK
<1> HIDE DEF shown
<1> QED BY <1>1, <1>2 DEF TypeOK, Page

\* Neither does any other step of a call.
LEMMA CallBusy ==
  ASSUME TypeOK, ClickInv, BusyWhileWaiting, NEW c \in Calls, call[c] # None,
         HandleCall(c) \/ DisconnectCall(c)
  PROVE  BusyWhileWaiting'
<1>1. sends' = sends
  BY DEF HandleCall, ReadHistory, CheckCoupon, AddCoupon, Receive, DisconnectCall, browser
<1>2. CASE ReadHistory(c) \/ CheckCoupon(c) \/ AddCoupon(c)
  <2>1. page' = page
    BY <1>2 DEF ReadHistory, CheckCoupon, AddCoupon, browser
  <2> QED BY <1>1, <2>1, BusyAlone
<1>3. CASE Receive(c) \/ DisconnectCall(c)
  <2>1. call[c].tab \in Tabs
    BY <1>3 DEF Receive, DisconnectCall, ClickInv, TypeOK, Call
  <2>2. \/ \E m : ShowHistory(c, m)
        \/ \E k, e : ButtonOf(c, k, e)
    BY <1>3 DEF Receive, DisconnectCall, ShowOutcome
  <2>3. \A u \in Tabs : page'[u].busy = page[u].busy
    BY <2>1, <2>2, ButtonOfBusy, ShowHistoryBusy
  <2> QED BY <1>1, <2>3, BusyAlone
<1> QED BY <1>2, <1>3 DEF HandleCall

\* The input is disabled exactly while the page waits, whoever gives up first and
\* whatever page is there when a late reply comes.
THEOREM InputBlockedWhileWaiting == Spec => []BusyWhileWaiting
<1>1. Init => BusyWhileWaiting
  <2> SUFFICES ASSUME Init PROVE BusyWhileWaiting
    OBVIOUS
  <2>1. DOMAIN sends = {} /\ \A t \in Tabs : page[t].busy = FALSE
    BY DEF Init, FreshPage
  <2> QED BY <2>1 DEF BusyWhileWaiting
<1>2. ASSUME TypeOK, ClickInv, BusyWhileWaiting, [Next]_vars
      PROVE  BusyWhileWaiting'
  <2>1. CASE UNCHANGED <<page, sends>>
    BY <1>2, <2>1, BusyAlone
  <2>2. ASSUME NEW t \in Tabs, Visit(t) PROVE BusyWhileWaiting'
    <3> QED BY <1>2, <2>2, PressedBusy, UnloadBusy, SendMessageBusy DEF Visit, LoadPage, Navigate
  <2>3. ASSUME NEW n \in DOMAIN sends, Handle(n) \/ GiveUp(n) PROVE BusyWhileWaiting'
    <3>1. /\ DOMAIN sends' = DOMAIN sends
          /\ \A m \in DOMAIN sends \ {n} : sends'[m] = sends[m]
      BY <1>2, <2>3, Advanced
    <3>2. CASE sends'[n].tab = sends[n].tab /\ page' = page
      BY <1>2, <3>1, <3>2, BusyAlone
    <3>3. CASE /\ ReceiveAnswer(n) \/ ReceiveError(n) \/ Disconnect(n)
               /\ sends'[n].tab = None
      <4>1. PICK t \in Tabs : t = sends[n].tab
        BY <1>2, <3>3, SendType DEF Send, ReceiveAnswer, ReceiveError, Disconnect
      <4>2. page'[t].busy = FALSE /\ \A u \in Tabs \ {t} : page'[u] = page[u]
        <5>1. page[t] \in Page
          BY <1>2 DEF TypeOK
        <5>2. \A e : Settled(page[t], e).busy = FALSE
          BY <5>1 DEF Settled, Page
        <5>3. CASE ReceiveAnswer(n)
          <6> DEFINE p == Settled(page[t], AnswerEntries(n))
          <6>1. page' = [page EXCEPT ![t] = [p EXCEPT !.leaving = @ \/ n \in Finds]]
            BY <4>1, <5>3 DEF ReceiveAnswer
          <6>2. p \in Page /\ p.busy = FALSE
            BY <1>2, <5>2, AnswerEntriesType, PageTypes
          <6> HIDE DEF p
          <6> QED BY <1>2, <6>1, <6>2 DEF TypeOK, Page
        <5>4. CASE ShowFailure(n)
          BY <1>2, <4>1, <5>2, <5>4 DEF ShowFailure, TypeOK
        <5> QED BY <3>3, <5>3, <5>4 DEF ReceiveError, Disconnect
      <4> QED BY <1>2, <3>1, <3>3, <4>1, <4>2, BusyEnds
    <3> QED BY <1>2, <2>3, <3>2, <3>3, Advanced
  <2>4. ASSUME NEW c \in Calls, call[c] # None, HandleCall(c) \/ DisconnectCall(c)
        PROVE  BusyWhileWaiting'
    BY <1>2, <2>4, CallBusy
  <2>5. CASE UNCHANGED vars \/ FillCart \/ EndConversation
    BY <2>1, <2>5 DEF vars, FillCart, EndConversation, browser
  <2> QED BY <1>2, <2>1, <2>2, <2>3, <2>4, <2>5 DEF Next
<1> QED BY <1>1, <1>2, TypeCorrect, ClicksCorrect, PTL DEF Spec

--------------------------------------------------------------------------------
(* Conversations.  A tab goes on with the conversation of the last answer  *)
(* that it got.  Once that is stored, everything which the tab sends and   *)
(* reads belongs to it, whatever the other tabs do.                        *)

Conversations == {NoConversation, Unsaved} \union DOMAIN log

Question(n) == [role |-> "user", of |-> n]
BotMessage(n) == [role |-> "bot", of |-> n]

\* The core has dealt with the question of a message, and with its answer.
Asked(n) == sends[n].core \notin {"sent", "log"}
Finished(n) == sends[n].core \in {"answered", "over"}

\* A stored message is in its conversation, an answer behind its question.
LogInv ==
  \A c \in DOMAIN log : \A k \in DOMAIN log[c] :
    /\ log[c][k].of \in DOMAIN sends
    /\ sends[log[c][k].of].conv = c /\ Asked(log[c][k].of)
    /\ log[c][k].role = "bot" =>
         /\ Finished(log[c][k].of)
         /\ \A j \in DOMAIN log[c] : log[c][j] = Question(log[c][k].of) => j < k

\* A message that names a stored conversation goes there, and a page waits only
\* for one that names the tab's.
ThreadInv ==
  /\ \A t \in Tabs : saved[t] \in Conversations
  /\ \A n \in DOMAIN sends :
       /\ sends[n].asked \in Conversations /\ sends[n].conv \in Conversations
       /\ sends[n].core \notin {"sent", "over"} /\ sends[n].asked \in DOMAIN log =>
            sends[n].conv = sends[n].asked
       /\ sends[n].shop = "ok" => sends[n].core = "answered"
       /\ sends[n].tab # None => sends[n].asked = saved[sends[n].tab]

\* What a page waits to replay is the beginning of the tab's conversation.
ReadInv ==
  \A c \in Calls :
    call[c] # None /\ call[c].kind = "history" =>
      /\ call[c].conv \in Conversations
      /\ call[c].tab # None /\ call[c].conv \in DOMAIN log => saved[call[c].tab] = call[c].conv
      /\ \A j \in DOMAIN call[c].replay :
           /\ call[c].conv \in DOMAIN log /\ j \in DOMAIN log[call[c].conv]
           /\ call[c].replay[j] = log[call[c].conv][j]

\* A page shows what it waits for, and its answers are of the tab's conversation.
PageInv ==
  /\ \A n \in DOMAIN sends :
       sends[n].tab # None =>
         \E i \in DOMAIN page[sends[n].tab].shown : page[sends[n].tab].shown[i] = About("user", n)
  /\ \A t \in Tabs : \A i \in DOMAIN page[t].shown :
       page[t].shown[i].kind = "bot" =>
         /\ page[t].shown[i].of \in DOMAIN sends /\ Finished(page[t].shown[i].of)
         /\ sends[page[t].shown[i].of].conv \in DOMAIN log =>
              saved[t] = sends[page[t].shown[i].of].conv
  /\ AnsweredInPlace

\* A message that the core has dealt with stays where it is.
LEMMA Progress ==
  ASSUME TypeOK, [Next]_vars, NEW n \in DOMAIN sends
  PROVE  /\ n \in DOMAIN sends'
         /\ sends'[n].asked = sends[n].asked
         /\ sends'[n].tab \in {sends[n].tab, None}
         /\ Asked(n) => Asked(n)' /\ sends'[n].conv = sends[n].conv
         /\ Finished(n) => Finished(n)'
<1>0. sends[n] \in Send /\ DOMAIN sends = 1 .. Len(sends) /\ Len(sends) \in Nat
  BY SendType, LenProperties DEF TypeOK
<1>1. n \in DOMAIN sends'
  <2>1. ASSUME NEW t \in Tabs, Visit(t) PROVE n \in DOMAIN sends'
    <3>1. CASE Unload(t) \/ UNCHANGED sends
      BY <3>1 DEF Unload
    <3>2. CASE SendMessage(t)
      <4> DEFINE s == [tab |-> t, asked |-> NamedConversation(t), shop |-> "waiting",
                       core |-> "sent", conv |-> NoConversation, redeemable |-> FALSE]
      <4>1. sends' = Append(sends, s)
        BY <3>2 DEF SendMessage
      <4>2. s \in Send
        BY DEF Send, TypeOK, NamedConversation, ConversationIds
      <4> HIDE DEF s
      <4>3. sends' \in Seq(Send) /\ Len(sends') = Len(sends) + 1
        BY <1>0, <4>1, <4>2 DEF TypeOK
      <4> QED BY <1>0, <4>3, LenProperties
    <3> QED BY <2>1, <3>1, <3>2 DEF Visit, LoadPage, Navigate, Toggle, ClickApply
  <2>2. ASSUME NEW m \in DOMAIN sends, Handle(m) \/ GiveUp(m) PROVE n \in DOMAIN sends'
    BY <2>2, Advanced
  <2>3. CASE UNCHANGED sends
    BY <2>3
  <2> QED BY <2>1, <2>2, <2>3 DEF Next, vars, HandleCall, ReadHistory, CheckCoupon, AddCoupon, Receive,
             DisconnectCall, FillCart, EndConversation
<1>2. \/ sends'[n] = sends[n] \/ sends'[n] = [sends[n] EXCEPT !.tab = None]
      \/ Handle(n) \/ GiveUp(n)
  BY <1>1, SendStep
<1>3. CASE sends'[n] = sends[n] \/ sends'[n] = [sends[n] EXCEPT !.tab = None]
  <2>1. /\ sends'[n].asked = sends[n].asked /\ sends'[n].tab \in {sends[n].tab, None}
        /\ sends'[n].core = sends[n].core /\ sends'[n].conv = sends[n].conv
    BY <1>0, <1>3 DEF Send
  <2> QED BY <1>1, <2>1 DEF Asked, Finished
<1>4. CASE Handle(n) \/ GiveUp(n)
  <2>1. /\ sends'[n].asked = sends[n].asked /\ sends'[n].tab \in {sends[n].tab, None}
        /\ Resolve(n) \/ LogQuestion(n) \/ sends'[n].conv = sends[n].conv
        /\ \/ Resolve(n) \/ LogQuestion(n) \/ Answer(n)
           \/ sends'[n].core \in {sends[n].core, "over"}
    BY <1>4, Advanced
  <2>2. Asked(n) => ~Resolve(n) /\ ~LogQuestion(n)
    BY DEF Asked, Resolve, LogQuestion
  <2>3. Answer(n) => sends'[n].core = "answered" /\ ~Finished(n)
    BY <1>0 DEF Answer, Advance, Send, Finished
  <2>4. Finished(n) => Asked(n)
    BY DEF Finished, Asked
  <2> QED BY <1>1, <2>1, <2>2, <2>3, <2>4 DEF Asked, Finished
<1> QED BY <1>1, <1>2, <1>3, <1>4

\* A message m was written at the end of the conversation c.
Wrote(c, m) ==
  /\ DOMAIN log \subseteq DOMAIN log' /\ c \in DOMAIN log'
  /\ \A d \in DOMAIN log' \ {c} : d \in DOMAIN log /\ log'[d] = log[d]
  /\ \E n \in Nat :
       /\ c \in DOMAIN log => DOMAIN log[c] = 1 .. n /\ \A k \in 1 .. n : log'[c][k] = log[c][k]
       /\ c \notin DOMAIN log => n = 0
       /\ DOMAIN log'[c] = 1 .. (n + 1) /\ log'[c][n + 1] = m

\* A write adds its message at the end of a conversation that there is.
LEMMA WriteEnds ==
  ASSUME TypeOK, NEW c, NEW role \in {"user", "bot"}, NEW n \in Messages, Write(role, n, c)
  PROVE  log' = log \/ Wrote(c, [role |-> role, of |-> n])
<1> DEFINE m == [role |-> role, of |-> n]
<1>1. m \in Message
  BY DEF Message
<1>2. /\ log' \in Seq(Seq(Message)) /\ DOMAIN log' = DOMAIN log
      /\ \A d \in DOMAIN log : log'[d] = IF d = c THEN Append(log[d], m) ELSE log[d]
  BY WriteType
<1> HIDE DEF m
<1>3. CASE c \in DOMAIN log
  <2>1. log[c] \in Seq(Message)
    BY <1>3, ElementOfSeq, LenProperties DEF TypeOK
  <2>2. PICK l \in Nat : l = Len(log[c]) /\ DOMAIN log[c] = 1 .. l
    BY <2>1, LenProperties
  <2>3. log'[c] = Append(log[c], m)
    BY <1>2, <1>3
  <2>4. /\ log'[c] \in Seq(Message) /\ Len(log'[c]) = l + 1
        /\ \A k \in 1 .. l : log'[c][k] = log[c][k]
        /\ log'[c][l + 1] = m
    BY <1>1, <2>1, <2>2, <2>3
  <2>5. DOMAIN log'[c] = 1 .. (l + 1)
    BY <2>4, LenProperties
  <2> QED BY <1>2, <1>3, <2>2, <2>4, <2>5 DEF Wrote, m
<1>4. CASE c \notin DOMAIN log
  <2>1. log' = log
    BY <1>4 DEF Write, TypeOK
  <2> QED BY <2>1
<1> QED BY <1>3, <1>4

\* What a step writes into the conversations.
LEMMA LogMoved ==
  ASSUME TypeOK, [Next]_vars
  PROVE  \/ log' = log
         \/ \E n \in DOMAIN sends :
              \/ LogQuestion(n) /\ sends'[n].core = "answer" /\ Wrote(sends'[n].conv, Question(n))
              \/ Answer(n) /\ sends'[n].core = "answered" /\ Wrote(sends[n].conv, BotMessage(n))
<1>1. ASSUME NEW n \in DOMAIN sends, LogQuestion(n)
      PROVE  \/ log' = log
             \/ sends'[n].core = "answer" /\ Wrote(sends'[n].conv, Question(n))
  <2>0. sends[n] \in Send /\ n \in Messages
    BY SendType
  <2>1. ASSUME NEW conv, Advance(n, [sends[n] EXCEPT !.core = "answer", !.conv = conv])
        PROVE  sends'[n].core = "answer" /\ sends'[n].conv = conv
    BY <2>0, <2>1 DEF Advance, Send
  <2>2. CASE /\ Write("user", n, sends[n].conv)
             /\ Advance(n, [sends[n] EXCEPT !.core = "answer", !.conv = sends[n].conv])
    BY <2>0, <2>1, <2>2, WriteEnds DEF Question
  <2>3. CASE /\ log' = Append(log, <<[role |-> "user", of |-> n]>>)
             /\ Advance(n, [sends[n] EXCEPT !.core = "answer", !.conv = Len(log) + 1])
    <3> DEFINE s == <<[role |-> "user", of |-> n]>>
    <3>1. s \in Seq(Message) /\ DOMAIN s = 1 .. 1 /\ s[1] = Question(n)
      BY <2>0 DEF Message, Question
    <3> HIDE DEF s
    <3>2. DOMAIN log = 1 .. Len(log) /\ Len(log) \in Nat
      BY NewestType
    <3>3. /\ log' \in Seq(Seq(Message)) /\ Len(log') = Len(log) + 1
          /\ \A d \in 1 .. Len(log) : log'[d] = log[d]
          /\ log'[Len(log) + 1] = s
      BY <2>3, <3>1, <3>2 DEF TypeOK, s
    <3>4. DOMAIN log' = 1 .. (Len(log) + 1)
      BY <3>3, LenProperties
    <3>5. Wrote(Len(log) + 1, Question(n))
      BY <3>1, <3>2, <3>3, <3>4 DEF Wrote
    <3> QED BY <2>1, <2>3, <3>5
  <2>4. CASE UNCHANGED core
    BY <2>4 DEF core
  <2> QED BY <1>1, <2>2, <2>3, <2>4 DEF LogQuestion
<1>2. ASSUME NEW n \in DOMAIN sends, Answer(n)
      PROVE  \/ log' = log
             \/ sends'[n].core = "answered" /\ Wrote(sends[n].conv, BotMessage(n))
  <2>1. sends[n] \in Send /\ n \in Messages
    BY SendType
  <2>2. sends'[n].core = "answered"
    BY <1>2, <2>1 DEF Answer, Advance, Send
  <2> QED BY <1>2, <2>1, <2>2, WriteEnds DEF Answer, BotMessage
<1>3. CASE \E n \in DOMAIN sends : LogQuestion(n)
  BY <1>1, <1>3
<1>4. CASE \E n \in DOMAIN sends : Answer(n)
  BY <1>2, <1>4
<1>5. CASE log' = log
  BY <1>5
<1> QED BY <1>3, <1>4, <1>5 DEF Next, vars, browser, core, Visit, LoadPage, Navigate, Unload, Toggle,
           SendMessage, ClickApply, Handle, GiveUp, Resolve, Reply, ReceiveAnswer,
           ReceiveError, Refuse, TimeOut, Disconnect, HandleCall, ReadHistory, CheckCoupon,
           AddCoupon, Receive, DisconnectCall, FillCart, EndConversation

\* What is stored stays stored.
LEMMA LogGrows ==
  ASSUME TypeOK, [Next]_vars
  PROVE  /\ DOMAIN log \subseteq DOMAIN log'
         /\ \A c \in DOMAIN log : \A k \in DOMAIN log[c] :
              k \in DOMAIN log'[c] /\ log'[c][k] = log[c][k]
<1>1. ASSUME NEW c, NEW m, Wrote(c, m)
      PROVE  /\ DOMAIN log \subseteq DOMAIN log'
             /\ \A d \in DOMAIN log : \A k \in DOMAIN log[d] :
                  k \in DOMAIN log'[d] /\ log'[d][k] = log[d][k]
  BY <1>1 DEF Wrote
<1> QED BY <1>1, LogMoved

\* No step names a conversation that is stored later.
LEMMA ConversationsStay ==
  ASSUME TypeOK, TypeOK', [Next]_vars
  PROVE  /\ Conversations \subseteq Conversations'
         /\ Conversations \intersect DOMAIN log' \subseteq DOMAIN log
<1>1. DOMAIN log' = 1 .. Len(log')
  BY LenProperties DEF TypeOK
<1> QED BY <1>1, LogGrows DEF Conversations, NoConversation, Unsaved

--------------------------------------------------------------------------------
(* The core.                                                               *)

\* Nothing is stored at first.
LEMMA LogInit == Init => LogInv
BY DEF Init, LogInv

\* A message is stored before its answer, each once at most.
LEMMA LogStep ==
  ASSUME TypeOK, LogInv, [Next]_vars
  PROVE  LogInv'
<1>1. ASSUME NEW c \in DOMAIN log, NEW k \in DOMAIN log[c], NEW m, m = log[c][k]
      PROVE  /\ m.of \in DOMAIN sends' /\ sends'[m.of].conv = c /\ Asked(m.of)'
             /\ m.role = "bot" => Finished(m.of) /\ Finished(m.of)'
  BY <1>1, Progress DEF LogInv
<1>2. CASE log' = log
  BY <1>1, <1>2 DEF LogInv
<1>3. ASSUME NEW n \in DOMAIN sends, LogQuestion(n), sends'[n].core = "answer",
             NEW c, c = sends'[n].conv, Wrote(c, Question(n))
      PROVE  LogInv'
  <2>1. n \in DOMAIN sends' /\ Asked(n)' /\ ~Finished(n)
    BY <1>3, Progress DEF Asked, Finished, LogQuestion
  <2>2. PICK l \in Nat :
          /\ c \in DOMAIN log =>
               DOMAIN log[c] = 1 .. l /\ \A k \in 1 .. l : log'[c][k] = log[c][k]
          /\ c \notin DOMAIN log => l = 0
          /\ DOMAIN log'[c] = 1 .. (l + 1) /\ log'[c][l + 1] = Question(n)
    BY <1>3 DEF Wrote
  <2>3. \A d \in DOMAIN log' : \A k \in DOMAIN log'[d] :
          \/ d \in DOMAIN log /\ k \in DOMAIN log[d] /\ log'[d][k] = log[d][k]
          \/ d = c /\ k = l + 1 /\ log'[d][k] = Question(n)
    BY <1>3, <2>2 DEF Wrote
  <2>4. Question(n).of = n /\ Question(n).role = "user"
    BY DEF Question
  <2>5. ASSUME NEW d \in DOMAIN log, NEW k \in DOMAIN log[d], log[d][k].role = "bot",
               NEW j \in DOMAIN log'[d], log'[d][j] = Question(log[d][k].of)
        PROVE  j < k
    <3>1. log[d][k].of # n
      BY <1>1, <2>1, <2>5
    <3>2. Question(log[d][k].of) # Question(n)
      BY <3>1 DEF Question
    <3>3. j \in DOMAIN log[d] /\ log[d][j] = Question(log[d][k].of)
      BY <1>3, <2>3, <2>5, <3>2 DEF Wrote
    <3> QED BY <2>5, <3>3 DEF LogInv
  <2> QED BY <1>1, <1>3, <2>1, <2>3, <2>4, <2>5 DEF LogInv
<1>4. ASSUME NEW n \in DOMAIN sends, Answer(n), sends'[n].core = "answered",
             NEW c, c = sends[n].conv, Wrote(c, BotMessage(n))
      PROVE  LogInv'
  <2>1. n \in DOMAIN sends' /\ sends'[n].conv = c /\ Asked(n)' /\ Finished(n)'
    BY <1>4, Progress DEF Asked, Finished, Answer
  <2>2. PICK l \in Nat :
          /\ c \in DOMAIN log =>
               DOMAIN log[c] = 1 .. l /\ \A k \in 1 .. l : log'[c][k] = log[c][k]
          /\ c \notin DOMAIN log => l = 0
          /\ DOMAIN log'[c] = 1 .. (l + 1) /\ log'[c][l + 1] = BotMessage(n)
    BY <1>4 DEF Wrote
  <2>3. \A d \in DOMAIN log' : \A k \in DOMAIN log'[d] :
          \/ d \in DOMAIN log /\ k \in DOMAIN log[d] /\ log'[d][k] = log[d][k]
          \/ d = c /\ k = l + 1 /\ log'[d][k] = BotMessage(n)
    BY <1>4, <2>2 DEF Wrote
  <2>4. /\ BotMessage(n).of = n /\ BotMessage(n).role = "bot"
        /\ \A x : Question(x) # BotMessage(n)
    BY DEF Question, BotMessage
  <2>5. ASSUME NEW d \in DOMAIN log, NEW k \in DOMAIN log[d], log[d][k].role = "bot",
               NEW j \in DOMAIN log'[d], log'[d][j] = Question(log[d][k].of)
        PROVE  j < k
    <3>1. j \in DOMAIN log[d] /\ log[d][j] = Question(log[d][k].of)
      BY <1>4, <2>3, <2>4, <2>5 DEF Wrote
    <3> QED BY <2>5, <3>1 DEF LogInv
  <2>6. ASSUME NEW j \in DOMAIN log'[c], log'[c][j] = Question(n) PROVE j < l + 1
    BY <2>2, <2>4, <2>6
  <2> QED BY <1>1, <1>4, <2>1, <2>3, <2>4, <2>5, <2>6 DEF LogInv
<1> QED BY <1>2, <1>3, <1>4, LogMoved

\* The question of a message that is dealt with is not stored any more.
LEMMA StoredBefore ==
  ASSUME TypeOK, [Next]_vars, NEW n \in DOMAIN sends, Finished(n), Stored("user", n)'
  PROVE  Stored("user", n)
<1>0. \E c \in DOMAIN log' : \E k \in DOMAIN log'[c] : log'[c][k] = Question(n)
  BY DEF Stored, Question
<1>1. PICK c \in DOMAIN log' : \E k \in DOMAIN log'[c] : log'[c][k] = Question(n)
  BY <1>0
<1>2. PICK k \in DOMAIN log'[c] : log'[c][k] = Question(n)
  BY <1>1
<1>5. CASE c \in DOMAIN log /\ k \in DOMAIN log[c] /\ log'[c][k] = log[c][k]
  BY <1>2, <1>5 DEF Stored, Question
<1>3. ASSUME NEW m, m \in {Question(i) : i \in DOMAIN sends \ {n}}
                       \union {BotMessage(i) : i \in DOMAIN sends},
             NEW d, Wrote(d, m)
      PROVE  c \in DOMAIN log /\ k \in DOMAIN log[c] /\ log'[c][k] = log[c][k]
  <2>1. m # Question(n)
    BY <1>3 DEF Question, BotMessage
  <2> QED BY <1>2, <1>3, <2>1 DEF Wrote
<1>4. ~LogQuestion(n)
  BY DEF LogQuestion, Finished
<1> QED BY <1>2, <1>3, <1>4, <1>5, LogMoved

--------------------------------------------------------------------------------
(* Tabs and messages.                                                      *)

\* At first no tab has a conversation.
LEMMA ThreadInit == Init => ThreadInv
BY DEF Init, ThreadInv, Conversations

\* Only an answer changes what a tab has saved.
LEMMA SavedMoved ==
  ASSUME TypeOK, [Next]_vars, NEW t \in Tabs
  PROVE  \/ saved'[t] = saved[t]
         \/ \E n \in DOMAIN sends : /\ ReceiveAnswer(n) /\ sends[n].tab = t
                                    /\ saved'[t] = sends[n].conv
<1>1. ASSUME NEW n \in DOMAIN sends, ReceiveAnswer(n)
      PROVE  \/ saved'[t] = saved[t]
             \/ sends[n].tab = t /\ saved'[t] = sends[n].conv
  BY <1>1 DEF ReceiveAnswer, TypeOK
<1>2. CASE \E n \in DOMAIN sends : ReceiveAnswer(n)
  BY <1>1, <1>2
<1>3. CASE saved' = saved
  BY <1>3
<1> QED BY <1>2, <1>3 DEF Next, vars, browser, Visit, LoadPage, Navigate, Unload, Toggle,
           SendMessage, ClickApply, Handle, GiveUp, Resolve, LogQuestion, Answer, Reply,
           ReceiveError, Refuse, TimeOut, Disconnect, HandleCall, ReadHistory, CheckCoupon,
           AddCoupon, Receive, DisconnectCall, FillCart, EndConversation

\* A tab that has a stored conversation keeps it.
LEMMA SavedStays ==
  ASSUME TypeOK, ThreadInv, [Next]_vars, NEW t \in Tabs, saved[t] \in DOMAIN log
  PROVE  saved'[t] = saved[t]
<1>1. ASSUME NEW n \in DOMAIN sends, ReceiveAnswer(n), sends[n].tab = t
      PROVE  sends[n].conv = saved[t]
  <2>1. sends[n].core = "answered" /\ sends[n].asked = saved[t]
    BY <1>1 DEF ThreadInv, ReceiveAnswer
  <2> QED BY <2>1 DEF ThreadInv
<1> QED BY <1>1, SavedMoved

\* The core answers in the conversation that it was asked for, if it has it.
LEMMA HandledThread ==
  ASSUME TypeOK, ThreadInv, [Next]_vars, NEW n \in DOMAIN sends, Handle(n) \/ GiveUp(n)
  PROVE  /\ sends'[n].conv \in Conversations \union Conversations'
         /\ sends'[n].core \notin {"sent", "over"} /\ sends[n].asked \in DOMAIN log =>
              sends'[n].conv = sends[n].asked
         /\ sends'[n].shop = "ok" => sends'[n].core = "answered"
<1>0. sends[n] \in Send
  BY SendType
<1>1. CASE Resolve(n)
  <2>1. /\ sends'[n].conv = ConversationFor(sends[n].asked) /\ sends'[n].shop = sends[n].shop
        /\ sends[n].core = "sent"
    BY <1>0, <1>1 DEF Resolve, Advance, Send
  <2> QED BY <2>1, NewestType DEF ConversationFor, Conversations, ThreadInv
<1>2. CASE LogQuestion(n)
  <2>1. ASSUME NEW c, Advance(n, [sends[n] EXCEPT !.core = "answer", !.conv = c])
        PROVE  sends'[n].conv = c /\ sends'[n].shop = sends[n].shop
    BY <1>0, <2>1 DEF Advance, Send
  <2>2. /\ sends[n].core = "log" /\ sends[n].shop # "ok"
        /\ sends[n].asked \in DOMAIN log =>
             sends[n].conv = sends[n].asked /\ sends[n].asked # NoConversation
    BY <1>2, NewestType DEF LogQuestion, ThreadInv, NoConversation
  <2>3. \/ sends'[n].conv = sends[n].conv /\ sends[n].conv # NoConversation
        \/ /\ sends[n].conv = NoConversation /\ sends'[n].conv = Len(log) + 1
           /\ log' = Append(log, <<[role |-> "user", of |-> n]>>)
        \/ sends'[n].conv = IF sends[n].asked # NoConversation THEN sends[n].asked ELSE Unsaved
    BY <1>2, <2>1 DEF LogQuestion
  <2>4. sends'[n].shop = sends[n].shop
    BY <1>2, <2>1 DEF LogQuestion
  <2>5. log' = Append(log, <<[role |-> "user", of |-> n]>>) => Len(log) + 1 \in DOMAIN log'
    <3>1. <<[role |-> "user", of |-> n]>> \in Seq(Message)
      BY SendType DEF Message
    <3> QED BY <3>1, NewestType, AppendProperties DEF TypeOK
  <2>6. sends'[n].conv \in Conversations \union Conversations'
    BY <2>3, <2>5 DEF ThreadInv, Conversations
  <2> QED BY <2>2, <2>3, <2>4, <2>6
<1>3. CASE Answer(n)
  <2>1. /\ sends'[n].conv = sends[n].conv /\ sends'[n].core = "answered"
        /\ sends[n].core = "answer"
    BY <1>0, <1>3 DEF Answer, Advance, Send
  <2> QED BY <2>1 DEF ThreadInv
<1>4. CASE Reply(n)
  <2>1. /\ sends'[n].conv = sends[n].conv /\ sends'[n].core = "answered"
        /\ sends[n].core = "answered"
    BY <1>0, <1>4 DEF Reply, Advance, Send
  <2> QED BY <2>1 DEF ThreadInv
<1>5. CASE ReceiveAnswer(n) \/ ReceiveError(n)
  <2>1. /\ sends'[n].conv = sends[n].conv /\ sends'[n].core = sends[n].core
        /\ sends'[n].shop = sends[n].shop
    BY <1>0, <1>5 DEF ReceiveAnswer, ReceiveError, Advance, Send
  <2> QED BY <2>1 DEF ThreadInv
<1>6. CASE Refuse(n) \/ TimeOut(n)
  <2>1. /\ sends'[n].conv = sends[n].conv /\ sends'[n].core \in {sends[n].core, "over"}
        /\ sends'[n].shop = "failed"
    <3>1. CASE Refuse(n)
      BY <1>0, <3>1 DEF Refuse, Advance, Send
    <3>2. CASE TimeOut(n)
      <4>1. PICK s \in {sends[n], [sends[n] EXCEPT !.core = "over"]} :
              Advance(n, [s EXCEPT !.shop = "failed"])
        BY <3>2 DEF TimeOut, MaybeLost
      <4>2. s \in Send /\ s.conv = sends[n].conv /\ s.core \in {sends[n].core, "over"}
        BY <1>0, <4>1 DEF Send
      <4> QED BY <4>1, <4>2 DEF Advance, Send
    <3> QED BY <1>6, <3>1, <3>2
  <2> QED BY <2>1 DEF ThreadInv
<1>7. CASE Disconnect(n)
  <2>1. /\ sends'[n].conv = sends[n].conv /\ sends'[n].shop = sends[n].shop
        /\ \/ sends'[n].core = sends[n].core
           \/ sends'[n].core = "over" /\ sends[n].shop = "waiting"
    BY <1>0, <1>7 DEF Disconnect, MaybeLost, Advance, Send
  <2> QED BY <2>1 DEF ThreadInv
<1> QED BY <1>1, <1>2, <1>3, <1>4, <1>5, <1>6, <1>7 DEF Handle, GiveUp

\* Every step keeps the tabs in their conversations.
LEMMA ThreadStep ==
  ASSUME TypeOK, TypeOK', BusyWhileWaiting, ThreadInv, [Next]_vars
  PROVE  ThreadInv'
<1>1. ASSUME NEW t \in Tabs PROVE saved'[t] \in Conversations'
  BY <1>1, SavedMoved, ConversationsStay DEF ThreadInv
<1>2. ASSUME NEW n \in DOMAIN sends, sends'[n].tab # None
      PROVE  sends'[n].asked = saved'[sends'[n].tab]
  <2>1. /\ sends'[n].tab = sends[n].tab /\ sends'[n].asked = sends[n].asked
        /\ sends[n].tab \in Tabs
    BY <1>2, Progress, SendType DEF Send
  <2>2. ASSUME NEW m \in DOMAIN sends, ReceiveAnswer(m), sends[m].tab = sends[n].tab
        PROVE  FALSE
    <3>1. m = n
      BY <2>1, <2>2 DEF BusyWhileWaiting
    <3>2. sends'[n].tab = None
      BY <2>2, <3>1, SendType DEF ReceiveAnswer, Advance, Send
    <3> QED BY <1>2, <3>2
  <2>3. saved'[sends[n].tab] = saved[sends[n].tab]
    BY <2>1, <2>2, SavedMoved
  <2> QED BY <1>2, <2>1, <2>3 DEF ThreadInv
<1>3. ASSUME NEW n \in DOMAIN sends'
      PROVE  /\ sends'[n].asked \in Conversations' /\ sends'[n].conv \in Conversations'
             /\ sends'[n].core \notin {"sent", "over"} /\ sends'[n].asked \in DOMAIN log' =>
                  sends'[n].conv = sends'[n].asked
             /\ sends'[n].shop = "ok" => sends'[n].core = "answered"
             /\ sends'[n].tab # None => sends'[n].asked = saved'[sends'[n].tab]
  <2>1. ASSUME NEW t \in Tabs, SendMessage(t),
               sends'[n] = [tab |-> t, asked |-> NamedConversation(t), shop |-> "waiting",
                            core |-> "sent", conv |-> NoConversation, redeemable |-> FALSE]
        PROVE  /\ sends'[n].asked = saved[t] /\ sends'[n].conv = NoConversation
               /\ sends'[n].core = "sent" /\ sends'[n].shop = "waiting" /\ sends'[n].tab = t
               /\ saved' = saved
    BY <2>1 DEF NamedConversation, SendMessage
  <2>2. CASE n \notin DOMAIN sends
    <3>1. PICK t \in Tabs :
            /\ sends'[n].asked = saved[t] /\ sends'[n].conv = NoConversation
            /\ sends'[n].core = "sent" /\ sends'[n].shop = "waiting" /\ sends'[n].tab = t
            /\ saved' = saved
      BY <2>1, <2>2, SendStep
    <3> QED BY <1>1, <3>1 DEF Conversations
  <2>3. CASE n \in DOMAIN sends
    <3>1. /\ sends'[n].asked = sends[n].asked /\ sends[n].asked \in Conversations
          /\ sends[n].asked \in DOMAIN log' => sends[n].asked \in DOMAIN log
      BY <2>3, Progress, ConversationsStay DEF ThreadInv
    <3>2. /\ sends'[n].conv \in Conversations \union Conversations'
          /\ sends'[n].core \notin {"sent", "over"} /\ sends[n].asked \in DOMAIN log =>
               sends'[n].conv = sends[n].asked
          /\ sends'[n].shop = "ok" => sends'[n].core = "answered"
      <4>1. CASE Handle(n) \/ GiveUp(n)
        BY <2>3, <4>1, HandledThread
      <4>2. CASE sends'[n] = sends[n] \/ sends'[n] = [sends[n] EXCEPT !.tab = None]
        <5>1. /\ sends'[n].conv = sends[n].conv /\ sends'[n].core = sends[n].core
              /\ sends'[n].shop = sends[n].shop
          BY <2>3, <4>2, SendType DEF Send
        <5> QED BY <2>3, <5>1 DEF ThreadInv
      <4> QED BY <2>3, <4>1, <4>2, SendStep
    <3> QED BY <1>2, <2>3, <3>1, <3>2, ConversationsStay
  <2> QED BY <2>2, <2>3
<1> QED BY <1>1, <1>3 DEF ThreadInv

--------------------------------------------------------------------------------
(* Reads of the history.                                                   *)

\* Nothing is read at first.
LEMMA ReadInit == Init => ReadInv
BY DEF Init, ReadInv

\* What a step does to a read of the history.
LEMMA ReadMoved ==
  ASSUME TypeOK, ClickInv, [Next]_vars, NEW c \in Calls, call'[c] # None,
         call'[c].kind = "history"
  PROVE  \/ \E t \in Tabs : Toggle(t) /\ call'[c] = ReadRequest(t)
         \/ /\ call[c] \in Call /\ call[c] # None /\ call[c].kind = "history"
            /\ call'[c].conv = call[c].conv /\ call'[c].tab \in {call[c].tab, None}
            /\ \/ call'[c].replay = call[c].replay
               \/ /\ call[c].conv \in DOMAIN log /\ UNCHANGED log
                  /\ call'[c].replay = Oldest(log[call[c].conv])
<1>1. CASE call'[c] = call[c]
  BY <1>1 DEF TypeOK
<1>2. CASE call[c] # None /\ call'[c] = [call[c] EXCEPT !.tab = None]
  <2>1. call[c] \in Call
    BY <1>2 DEF TypeOK
  <2> QED BY <1>2, <2>1 DEF Call
<1>3. ASSUME NEW t \in Tabs, Visit(t)
      PROVE  \/ call'[c] = call[c]
             \/ call[c] # None /\ call'[c] = [call[c] EXCEPT !.tab = None]
             \/ Toggle(t) /\ call'[c] = ReadRequest(t)
  <2>1. CASE Unload(t)
    BY <2>1 DEF Unload
  <2>2. CASE Toggle(t)
    BY <2>2 DEF Toggle, Issue, TypeOK
  <2>3. CASE ClickApply(t)
    <3>1. PICK i \in DOMAIN page[t].shown, d \in CallsOf[t] : Issue(d, ApplyRequest(t, i))
      BY <2>3 DEF ClickApply
    <3>2. ApplyRequest(t, i).kind = "apply"
      BY DEF ApplyRequest
    <3> QED BY <3>1, <3>2 DEF Issue, TypeOK
  <2>4. CASE SendMessage(t)
    BY <2>4 DEF SendMessage
  <2> QED BY <1>3, <2>1, <2>2, <2>3, <2>4 DEF Visit, LoadPage, Navigate
<1>4. ASSUME NEW d \in Calls, call[d] # None, HandleCall(d) \/ DisconnectCall(d), d # c
      PROVE  call'[c] = call[c]
  <2>1. \E r : Issue(d, r)
    BY <1>4 DEF HandleCall, ReadHistory, CheckCoupon, AddCoupon, Receive, DisconnectCall, Respond
  <2> QED BY <1>4, <2>1 DEF Issue, TypeOK
<1>5. ASSUME call[c] # None, HandleCall(c) \/ DisconnectCall(c)
      PROVE  /\ call[c] \in Call /\ call[c].kind = "history"
             /\ call'[c].conv = call[c].conv /\ call'[c].tab \in {call[c].tab, None}
             /\ \/ call'[c].replay = call[c].replay
                \/ /\ call[c].conv \in DOMAIN log /\ UNCHANGED log
                   /\ call'[c].replay = Oldest(log[call[c].conv])
  <2>0. call[c] \in Call
    BY <1>5 DEF TypeOK
  <2>1. ASSUME NEW r, Issue(c, r) PROVE call'[c] = r
    BY <2>1 DEF Issue, TypeOK
  <2>2. CASE ReadHistory(c)
    <3>1. \/ Respond(c, call[c])
          \/ /\ call[c].conv \in DOMAIN log
             /\ Respond(c, [call[c] EXCEPT !.replay = Oldest(log[call[c].conv])])
      BY <2>2 DEF ReadHistory
    <3>2. CASE Respond(c, call[c])
      <4>1. call'[c] = [call[c] EXCEPT !.stage = "done"]
        BY <2>1, <3>2 DEF Respond
      <4> QED BY <2>0, <2>2, <4>1 DEF Call, ReadHistory
    <3>3. CASE /\ call[c].conv \in DOMAIN log
               /\ Respond(c, [call[c] EXCEPT !.replay = Oldest(log[call[c].conv])])
      <4> DEFINE r == [call[c] EXCEPT !.replay = Oldest(log[call[c].conv])]
      <4>0. Oldest(log[call[c].conv]) \in Seq(Message)
        BY <3>3, OldestType, ElementOfSeq, LenProperties DEF TypeOK
      <4>1. /\ r \in Call /\ r.conv = call[c].conv /\ r.tab = call[c].tab
            /\ r.replay = Oldest(log[call[c].conv])
        BY <2>0, <4>0 DEF Call
      <4> HIDE DEF r
      <4>2. call'[c] = [r EXCEPT !.stage = "done"]
        BY <2>1, <3>3 DEF Respond, r
      <4>3. log' = log /\ call[c].kind = "history"
        BY <2>2 DEF ReadHistory, core
      <4> QED BY <2>0, <3>3, <4>1, <4>2, <4>3 DEF Call
    <3> QED BY <3>1, <3>2, <3>3
  <2>3. CASE CheckCoupon(c) \/ AddCoupon(c)
    <3>1. /\ call[c].kind = "apply"
          /\ \/ \E b \in BOOLEAN : Respond(c, [call[c] EXCEPT !.ok = b])
             \/ Issue(c, [call[c] EXCEPT !.stage = "add"])
      BY <2>3 DEF CheckCoupon, AddCoupon
    <3>2. \A b \in BOOLEAN : /\ [call[c] EXCEPT !.ok = b] \in Call
                             /\ [call[c] EXCEPT !.ok = b].kind = "apply"
      BY <2>0, <3>1 DEF Call
    <3>3. \E r \in Call : r.kind = "apply" /\ call'[c] \in {r, [r EXCEPT !.stage = "done"],
                                                           [r EXCEPT !.stage = "add"]}
      BY <2>0, <2>1, <3>1, <3>2 DEF Respond
    <3>4. call'[c].kind = "apply"
      BY <3>3 DEF Call
    <3> QED BY <3>4
  <2>4. CASE Receive(c)
    BY <2>1, <2>4 DEF Receive
  <2>5. CASE DisconnectCall(c)
    <3>1. call'[c] = [call[c] EXCEPT !.tab = None]
      BY <2>1, <2>5 DEF DisconnectCall
    <3> QED BY <2>0, <3>1 DEF Call
  <2> QED BY <1>5, <2>2, <2>3, <2>4, <2>5 DEF HandleCall
<1>6. CASE \E t \in Tabs : Visit(t)
  BY <1>1, <1>2, <1>3, <1>6
<1>7. CASE \E d \in Calls : call[d] # None /\ (HandleCall(d) \/ DisconnectCall(d))
  BY <1>1, <1>4, <1>5, <1>7
<1>8. CASE call' = call
  BY <1>1, <1>8
<1> QED BY <1>6, <1>7, <1>8 DEF Next, vars, Handle, GiveUp, Resolve, LogQuestion, Answer, Reply,
           ReceiveAnswer, ReceiveError, Refuse, TimeOut, Disconnect, FillCart, EndConversation

\* A history is the beginning of the conversation that its tab has, also when it
\* comes late.
LEMMA ReadStep ==
  ASSUME TypeOK, TypeOK', ClickInv, ThreadInv, ReadInv, [Next]_vars
  PROVE  ReadInv'
<1> SUFFICES ASSUME NEW c \in Calls, call'[c] # None, call'[c].kind = "history"
             PROVE  /\ call'[c].conv \in Conversations'
                    /\ call'[c].tab # None /\ call'[c].conv \in DOMAIN log' =>
                         saved'[call'[c].tab] = call'[c].conv
                    /\ \A j \in DOMAIN call'[c].replay :
                         /\ call'[c].conv \in DOMAIN log' /\ j \in DOMAIN log'[call'[c].conv]
                         /\ call'[c].replay[j] = log'[call'[c].conv][j]
  BY DEF ReadInv
<1>1. ASSUME NEW t \in Tabs, Toggle(t), call'[c] = ReadRequest(t)
      PROVE  /\ call'[c].conv = saved[t] /\ call'[c].tab = t /\ call'[c].replay = <<>>
             /\ saved' = saved /\ saved[t] \in Conversations
  BY <1>1 DEF Toggle, ReadRequest, ThreadInv
<1>2. CASE \E t \in Tabs : Toggle(t) /\ call'[c] = ReadRequest(t)
  BY <1>1, <1>2, ConversationsStay
<1>3. ASSUME call[c] \in Call, call[c] # None, call[c].kind = "history",
             call'[c].conv = call[c].conv, call'[c].tab \in {call[c].tab, None}
      PROVE  /\ call'[c].conv \in Conversations'
             /\ call'[c].tab # None /\ call'[c].conv \in DOMAIN log' =>
                  saved'[call'[c].tab] = call'[c].conv
  <2>1. call[c].conv \in Conversations
    BY <1>3 DEF ReadInv
  <2>2. ASSUME call'[c].tab # None, call'[c].conv \in DOMAIN log'
        PROVE  saved'[call'[c].tab] = call'[c].conv
    <3>1. call[c].conv \in DOMAIN log /\ call'[c].tab = call[c].tab /\ call[c].tab \in Tabs
      BY <1>3, <2>1, <2>2, ConversationsStay DEF Call
    <3>2. saved[call[c].tab] = call[c].conv
      BY <1>3, <2>2, <3>1 DEF ReadInv
    <3> QED BY <1>3, <3>1, <3>2, SavedStays
  <2> QED BY <1>3, <2>1, <2>2, ConversationsStay
<1>4. ASSUME call[c] # None, call[c].kind = "history", call'[c].conv = call[c].conv,
             \/ call'[c].replay = call[c].replay
             \/ /\ call[c].conv \in DOMAIN log /\ UNCHANGED log
                /\ call'[c].replay = Oldest(log[call[c].conv]),
             NEW j \in DOMAIN call'[c].replay
      PROVE  /\ call'[c].conv \in DOMAIN log' /\ j \in DOMAIN log'[call'[c].conv]
             /\ call'[c].replay[j] = log'[call'[c].conv][j]
  <2>1. CASE call'[c].replay = call[c].replay
    BY <1>4, <2>1, LogGrows DEF ReadInv
  <2>2. CASE /\ call[c].conv \in DOMAIN log /\ UNCHANGED log
             /\ call'[c].replay = Oldest(log[call[c].conv])
    <3>1. log[call[c].conv] \in Seq(Message)
      BY <2>2, ElementOfSeq, LenProperties DEF TypeOK
    <3> QED BY <1>4, <2>2, <3>1, OldestType
  <2> QED BY <1>4, <2>1, <2>2
<1> QED BY <1>2, <1>3, <1>4, ReadMoved

--------------------------------------------------------------------------------
(* Pages.                                                                  *)

\* Messages that a page shows stay where they are; buttons stay buttons.
Keeps(t) ==
  \A i \in DOMAIN page[t].shown :
    /\ i \in DOMAIN page'[t].shown
    /\ \/ page'[t].shown[i] = page[t].shown[i]
       \/ page[t].shown[i].kind \in Buttons /\ page'[t].shown[i].kind \in Buttons

\* At first a page shows nothing.
LEMMA PageInit == Init => PageInv
<1> SUFFICES ASSUME Init PROVE PageInv
  OBVIOUS
<1>1. DOMAIN sends = {} /\ \A t \in Tabs : DOMAIN page[t].shown = {}
  BY DEF Init, FreshPage
<1> QED BY <1>1 DEF PageInv, AnsweredInPlace

\* The outcome of a click changes a button.
LEMMA OutcomeKeeps ==
  ASSUME TypeOK, ClickInv, NEW c \in Clicks, call[c].tab # None,
         NEW k \in {"offer", "applied"}, NEW e \in {"note", "error"}, ButtonOf(c, k, e),
         NEW t \in Tabs
  PROVE  Keeps(t)
<1>1. ButtonOfClick(c)
  BY DEF ClickInv
<1>2. \A x \in Buttons : About(x, call[c].code).kind \in Buttons
  BY DEF About, Buttons
<1> QED BY <1>1, <1>2, OutcomeShows, WidgetAssumption DEF Keeps, ButtonOfClick, Buttons

\* A page keeps its messages until it is left; then it waits for none.
LEMMA PageMoved ==
  ASSUME TypeOK, ClickInv, [Next]_vars, NEW t \in Tabs
  PROVE  \/ Keeps(t)
         \/ page'[t].shown = <<>> /\ \A n \in DOMAIN sends' : sends'[n].tab # t
<1>1. page'[t] = page[t] \/ Grows(t) => Keeps(t)
  BY DEF Keeps, Grows
<1>2. ASSUME NEW u \in Tabs, Visit(u)
      PROVE  \/ Keeps(t)
             \/ page'[t].shown = <<>> /\ \A n \in DOMAIN sends' : sends'[n].tab # t
  <2>1. CASE Unload(u)
    <3>1. CASE u # t
      BY <1>1, <2>1, <3>1 DEF Unload, TypeOK
    <3>2. CASE u = t
      <4>1. page'[t].shown = <<>>
        BY <2>1, <3>2 DEF Unload, FreshPage, TypeOK
      <4>2. ASSUME NEW n \in DOMAIN sends' PROVE sends'[n].tab # t
        <5>1. /\ n \in DOMAIN sends
              /\ sends'[n] = IF sends[n].tab = t THEN [sends[n] EXCEPT !.tab = None]
                                                 ELSE sends[n]
          BY <2>1, <3>2 DEF Unload
        <5>2. [sends[n] EXCEPT !.tab = None].tab = None
          BY <5>1, SendType DEF Send
        <5> QED BY <5>1, <5>2, WidgetAssumption
      <4> QED BY <4>1, <4>2
    <3> QED BY <3>1, <3>2
  <2>2. CASE Toggle(u)
    BY <1>1, <2>2, ToggleShows
  <2>3. CASE SendMessage(u)
    BY <1>1, <2>3, SendMessageShows
  <2>4. CASE ClickApply(u)
    <3>1. PICK i \in DOMAIN page[u].shown :
            /\ page[u].shown[i].kind = "offer"
            /\ DOMAIN page'[t].shown = DOMAIN page[t].shown
            /\ \A j \in DOMAIN page[t].shown :
                 page'[t].shown[j] = IF t = u /\ j = i THEN About("applying", page[u].shown[i].of)
                                                      ELSE page[t].shown[j]
      BY <2>4, ClickApplyShows
    <3>2. About("applying", page[u].shown[i].of).kind \in Buttons /\ "offer" \in Buttons
      BY DEF About, Buttons
    <3> QED BY <3>1, <3>2 DEF Keeps
  <2> QED BY <1>2, <2>1, <2>2, <2>3, <2>4 DEF Visit, LoadPage, Navigate
<1>3. ASSUME NEW n \in DOMAIN sends, Handle(n) \/ GiveUp(n) PROVE Keeps(t)
  <2>1. CASE ReceiveAnswer(n)
    BY <1>1, <2>1, ReceiveAnswerShows
  <2>2. CASE ReceiveError(n) \/ Disconnect(n)
    BY <1>1, <2>2, FailureShows DEF ReceiveError, Disconnect
  <2>3. CASE page' = page
    BY <1>1, <2>3
  <2> QED BY <1>3, <2>1, <2>2, <2>3 DEF Handle, GiveUp, Resolve, LogQuestion, Answer, Reply, Refuse,
             TimeOut, browser
<1>4. ASSUME NEW c \in Calls, call[c] # None, HandleCall(c) \/ DisconnectCall(c) PROVE Keeps(t)
  <2>1. call[c] \in Call
    BY <1>4 DEF TypeOK
  <2>2. CASE ReadHistory(c) \/ CheckCoupon(c) \/ AddCoupon(c)
    BY <1>1, <2>2 DEF ReadHistory, CheckCoupon, AddCoupon, browser
  <2>3. CASE Receive(c) \/ DisconnectCall(c)
    <3>1. call[c].tab # None /\ call[c].tab \in Tabs
      <4>1. call[c].tab # None
        BY <1>4, <2>3 DEF Receive, DisconnectCall, ClickInv
      <4> QED BY <2>1, <4>1 DEF Call
    <3>2. CASE call[c].kind = "history"
      <4>1. PICK m \in {call[c].replay, <<>>} : ShowHistory(c, m)
        BY <2>3, <3>2 DEF Receive, DisconnectCall
      <4>2. m \in Seq(Message)
        BY <2>1, <4>1, EmptySeq DEF Call
      <4> QED BY <1>1, <3>1, <4>1, <4>2, HistoryShows
    <3>3. CASE call[c].kind # "history"
      <4>1. c \in Clicks
        BY <1>4, <2>1, <3>3 DEF Clicks, Call
      <4>2. ButtonOf(c, "applied", "note") \/ ButtonOf(c, "offer", "error")
        BY <2>3, <3>3 DEF Receive, DisconnectCall, ShowOutcome
      <4> QED BY <3>1, <4>1, <4>2, OutcomeKeeps
    <3> QED BY <3>2, <3>3
  <2> QED BY <1>4, <2>2, <2>3 DEF HandleCall
<1>5. CASE UNCHANGED vars \/ FillCart \/ EndConversation
  BY <1>1, <1>5 DEF vars, FillCart, EndConversation, browser
<1> QED BY <1>2, <1>3, <1>4, <1>5 DEF Next

\* Below the first l entries a page shows the history m.
IsReplay(t, l, m) ==
  \A j \in DOMAIN m : /\ l + j \in DOMAIN page'[t].shown
                      /\ page'[t].shown[l + j] = About(m[j].role, m[j].of)

\* Entries of a history come in its order, below what was there.
LEMMA ReplayPlace ==
  ASSUME TypeOK, NEW c \in Calls, NEW t \in Tabs, call[c].tab = t, NEW m \in Seq(Message),
         ShowHistory(c, m), NEW i \in DOMAIN page'[t].shown,
         page'[t].shown[i].kind = "bot",
         i \notin DOMAIN page[t].shown
  PROVE  \E l \in Nat : i - l \in DOMAIN m /\ IsReplay(t, l, m)
<1> DEFINE old == page[t].shown
           e == Entries(m)
<1>1. page'[t].shown = Replayed(old, m)
  <2>1. page' = [page EXCEPT ![t] = [page[t] EXCEPT !.shown = Replayed(old, m)]]
    BY ShowHistoryType
  <2> QED BY <2>1 DEF TypeOK, Page
<1>2. old \in Seq(Entry) /\ e \in Seq(Entry)
  BY EntriesType DEF TypeOK, Page
<1>3. old \o e # <<>>
  <2>1. Text("welcome").kind # "bot"
    BY DEF Text
  <2>2. \A j \in DOMAIN <<Text("welcome")>> : <<Text("welcome")>>[j] = Text("welcome")
    OBVIOUS
  <2> QED BY <1>1, <2>1, <2>2 DEF Replayed
<1>4. page'[t].shown = old \o e
  BY <1>1, <1>3 DEF Replayed
<1>5. PICK l \in Nat : l = Len(old) /\ DOMAIN old = 1 .. l
  BY <1>2, LenProperties
<1>6. PICK k \in Nat : k = Len(e) /\ DOMAIN e = 1 .. k
  BY <1>2, LenProperties
<1>7. /\ Len(old \o e) = l + k /\ old \o e \in Seq(Entry)
      /\ \A j \in 1 .. k : (old \o e)[l + j] = e[j]
  BY <1>2, <1>5, <1>6, ConcatProperties
<1>8. DOMAIN (old \o e) = 1 .. (l + k)
  BY <1>5, <1>6, <1>7, LenProperties
<1>9. DOMAIN e = DOMAIN m /\ \A j \in DOMAIN m : e[j] = About(m[j].role, m[j].of)
  BY EntriesType
<1> HIDE DEF old, e
<1>10. IsReplay(t, l, m)
  BY <1>4, <1>5, <1>6, <1>7, <1>8, <1>9 DEF IsReplay
<1>11. i \in 1 .. (l + k) /\ i \notin 1 .. l
  BY <1>4, <1>5, <1>8 DEF old
<1>12. i - l \in DOMAIN m
  BY <1>5, <1>6, <1>9, <1>11
<1> QED BY <1>10, <1>12

\* Where an answer that appears on a page comes from.
LEMMA BotOrigins ==
  ASSUME TypeOK, ClickInv, [Next]_vars, NEW t \in Tabs, NEW i \in DOMAIN page'[t].shown,
         page'[t].shown[i].kind = "bot"
  PROVE  \/ i \in DOMAIN page[t].shown /\ page[t].shown[i] = page'[t].shown[i]
         \/ /\ i \notin DOMAIN page[t].shown
            /\ \/ \E n \in DOMAIN sends : /\ ReceiveAnswer(n) /\ sends[n].tab = t
                                          /\ page'[t].shown[i] = About("bot", n)
               \/ \E c \in Calls :
                    /\ Receive(c) /\ call[c] # None /\ call[c] \in Call /\ call[c].tab = t
                    /\ call[c].kind = "history" /\ ShowHistory(c, call[c].replay)
<1>1. CASE i \in DOMAIN page[t].shown
  <2>1. page'[t].shown # <<>>
    OBVIOUS
  <2>2. Keeps(t)
    BY <2>1, PageMoved
  <2> QED BY <1>1, <2>2 DEF Keeps, Buttons
<1>2. CASE i \notin DOMAIN page[t].shown
  <2>0. \A k \in {"welcome", "note", "error"} : Text(k).kind # "bot"
    BY DEF Text
  <2>1. ASSUME NEW u \in Tabs, Visit(u) PROVE FALSE
    <3>1. CASE Unload(u)
      BY <1>2, <3>1 DEF Unload, FreshPage, TypeOK
    <3>2. CASE Toggle(u)
      BY <1>2, <2>0, <3>2, ToggleShows
    <3>3. CASE SendMessage(u)
      BY <1>2, <3>3, SendMessageShows DEF About
    <3>4. CASE ClickApply(u)
      BY <1>2, <3>4, ClickApplyShows
    <3> QED BY <2>1, <3>1, <3>2, <3>3, <3>4 DEF Visit, LoadPage, Navigate
  <2>2. ASSUME NEW n \in DOMAIN sends, Handle(n) \/ GiveUp(n)
        PROVE  /\ ReceiveAnswer(n) /\ sends[n].tab = t
               /\ page'[t].shown[i] = About("bot", n)
    <3>1. CASE ReceiveAnswer(n)
      <4>1. /\ t = sends[n].tab
            /\ page'[t].shown[i] \in {About("bot", n), About("offer", n), Text("note")}
        BY <1>2, <3>1, ReceiveAnswerShows
      <4>2. About("offer", n).kind # "bot"
        BY DEF About
      <4> QED BY <2>0, <3>1, <4>1, <4>2
    <3>2. CASE ReceiveError(n) \/ Disconnect(n)
      BY <1>2, <2>0, <3>2, FailureShows DEF ReceiveError, Disconnect
    <3>3. CASE page' = page
      BY <1>2, <3>3
    <3> QED BY <2>2, <3>1, <3>2, <3>3 DEF Handle, GiveUp, Resolve, LogQuestion, Answer, Reply, Refuse,
               TimeOut, browser
  <2>3. ASSUME NEW c \in Calls, call[c] # None, HandleCall(c) \/ DisconnectCall(c)
        PROVE  /\ Receive(c) /\ call[c] \in Call /\ call[c].tab = t
               /\ call[c].kind = "history" /\ ShowHistory(c, call[c].replay)
    <3>1. call[c] \in Call
      BY <2>3 DEF TypeOK
    <3>2. CASE ReadHistory(c) \/ CheckCoupon(c) \/ AddCoupon(c)
      BY <1>2, <3>2 DEF ReadHistory, CheckCoupon, AddCoupon, browser
    <3>3. CASE Receive(c) \/ DisconnectCall(c)
      <4>1. call[c].tab # None /\ call[c].tab \in Tabs
        <5>1. call[c].tab # None
          BY <2>3, <3>3 DEF Receive, DisconnectCall, ClickInv
        <5> QED BY <3>1, <5>1 DEF Call
      <4>2. CASE call[c].kind = "history"
        <5>1. PICK m \in {call[c].replay, <<>>} :
                /\ ShowHistory(c, m)
                /\ Receive(c) => m = call[c].replay
                /\ Receive(c) \/ m = <<>>
          BY <3>3, <4>2 DEF Receive, DisconnectCall
        <5>2. m \in Seq(Message)
          BY <3>1, <5>1, EmptySeq DEF Call
        <5>3. /\ t = call[c].tab
              /\ \/ page'[t].shown[i] = Text("welcome")
                 \/ \E j \in DOMAIN m : page'[t].shown[i] = About(m[j].role, m[j].of)
          BY <1>2, <4>1, <5>1, <5>2, HistoryShows
        <5>4. m # <<>>
          BY <2>0, <5>3
        <5> QED BY <3>1, <4>2, <5>1, <5>3, <5>4
      <4>3. CASE call[c].kind # "history"
        <5>1. c \in Clicks /\ ButtonOfClick(c)
          BY <2>3, <3>1, <4>3 DEF Clicks, Call, ClickInv
        <5>2. ButtonOf(c, "applied", "note") \/ ButtonOf(c, "offer", "error")
          BY <3>3, <4>3 DEF Receive, DisconnectCall, ShowOutcome
        <5> QED BY <1>2, <2>0, <4>1, <5>1, <5>2, OutcomeShows
      <4> QED BY <4>2, <4>3
    <3> QED BY <2>3, <3>2, <3>3 DEF HandleCall
  <2>4. CASE UNCHANGED vars \/ FillCart \/ EndConversation
    BY <1>2, <2>4 DEF vars, FillCart, EndConversation, browser
  <2> QED BY <1>2, <2>1, <2>2, <2>3, <2>4 DEF Next
<1> QED BY <1>1, <1>2

\* What a page waits for is on it.
LEMMA WaitShown ==
  ASSUME TypeOK, ClickInv, PageInv, [Next]_vars, NEW n \in DOMAIN sends', sends'[n].tab # None
  PROVE  \E i \in DOMAIN page'[sends'[n].tab].shown :
           page'[sends'[n].tab].shown[i] = About("user", n)
<1>1. CASE n \in DOMAIN sends
  <2>1. sends'[n].tab = sends[n].tab /\ sends[n].tab \in Tabs
    BY <1>1, Progress, SendType DEF Send
  <2>2. PICK t \in Tabs : t = sends[n].tab
    BY <2>1
  <2>3. PICK i \in DOMAIN page[t].shown : page[t].shown[i] = About("user", n)
    BY <1>1, <2>1, <2>2 DEF PageInv
  <2>4. Keeps(t)
    BY <2>1, <2>2, PageMoved
  <2> QED BY <2>1, <2>2, <2>3, <2>4 DEF Keeps, About, Buttons
<1>2. CASE n \notin DOMAIN sends
  <2>1. PICK t \in Tabs :
          /\ SendMessage(t) /\ n = Len(sends) + 1
          /\ sends'[n] = [tab |-> t, asked |-> NamedConversation(t), shop |-> "waiting",
                          core |-> "sent", conv |-> NoConversation, redeemable |-> FALSE]
    BY <1>2, SendStep
  <2>2. sends'[n].tab = t
    BY <2>1
  <2>3. /\ page'[t].shown = Append(page[t].shown, About("user", n))
        /\ page[t].shown \in Seq(Entry)
    BY <2>1 DEF SendMessage, TypeOK, Page
  <2>4. About("user", n) \in Entry
    BY <2>1, LenProperties, EntryTypes, WidgetAssumption DEF SendMessage, TypeOK, Messages
  <2>5. /\ Len(page'[t].shown) = Len(page[t].shown) + 1 /\ page'[t].shown \in Seq(Entry)
        /\ page'[t].shown[Len(page[t].shown) + 1] = About("user", n)
    BY <2>3, <2>4, AppendProperties
  <2>6. Len(page[t].shown) + 1 \in DOMAIN page'[t].shown
    BY <2>3, <2>5, LenProperties
  <2> QED BY <2>2, <2>5, <2>6
<1> QED BY <1>1, <1>2

\* An answer that a page shows is one of its tab's conversation.
LEMMA BotThread ==
  ASSUME TypeOK, TypeOK', ClickInv, LogInv, ThreadInv, ReadInv, PageInv, [Next]_vars,
         NEW t \in Tabs, NEW i \in DOMAIN page'[t].shown, page'[t].shown[i].kind = "bot"
  PROVE  /\ page'[t].shown[i].of \in DOMAIN sends /\ Finished(page'[t].shown[i].of)
         /\ sends[page'[t].shown[i].of].conv \in DOMAIN log' =>
              saved'[t] = sends[page'[t].shown[i].of].conv
<1> DEFINE e == page'[t].shown[i]
<1>0. ASSUME NEW n \in DOMAIN sends, sends[n].conv \in DOMAIN log => saved[t] = sends[n].conv,
             sends[n].conv \in DOMAIN log'
      PROVE  saved'[t] = sends[n].conv
  <2>1. sends[n].conv \in DOMAIN log
    BY <1>0, ConversationsStay DEF ThreadInv
  <2> QED BY <1>0, <2>1, SavedStays
<1>1. CASE i \in DOMAIN page[t].shown /\ page[t].shown[i] = e
  <2>1. /\ e.of \in DOMAIN sends /\ Finished(e.of)
        /\ sends[e.of].conv \in DOMAIN log => saved[t] = sends[e.of].conv
    BY <1>1 DEF PageInv
  <2> HIDE DEF e
  <2> QED BY <1>0, <2>1 DEF e
<1>2. ASSUME NEW n \in DOMAIN sends, ReceiveAnswer(n), sends[n].tab = t, e = About("bot", n)
      PROVE  e.of \in DOMAIN sends /\ Finished(e.of) /\ saved'[t] = sends[e.of].conv
  <2>1. e.of = n
    BY <1>2 DEF About
  <2>2. sends[n].core = "answered" /\ saved'[t] = sends[n].conv
    BY <1>2 DEF ReceiveAnswer, ThreadInv, TypeOK
  <2> HIDE DEF e
  <2> QED BY <2>1, <2>2 DEF Finished
<1>3. ASSUME NEW c \in Calls, call[c] # None, call[c] \in Call, call[c].tab = t,
             call[c].kind = "history", ShowHistory(c, call[c].replay),
             i \notin DOMAIN page[t].shown
      PROVE  /\ e.of \in DOMAIN sends /\ Finished(e.of)
             /\ sends[e.of].conv \in DOMAIN log => saved[t] = sends[e.of].conv
  <2>1. PICK m \in Seq(Message) : m = call[c].replay
    BY <1>3 DEF Call
  <2>2. PICK j \in DOMAIN m : e = About(m[j].role, m[j].of)
    <3>1. ShowHistory(c, m)
      BY <1>3, <2>1
    <3>2. PICK l \in Nat : i - l \in DOMAIN m /\ IsReplay(t, l, m)
      BY <1>3, <3>1, ReplayPlace
    <3>3. i = l + (i - l)
      BY EntryType, LenProperties DEF TypeOK, Page
    <3> QED BY <3>2, <3>3 DEF IsReplay
  <2>3. /\ call[c].conv \in DOMAIN log /\ j \in DOMAIN log[call[c].conv]
        /\ m[j] = log[call[c].conv][j] /\ saved[t] = call[c].conv
    BY <1>3, <2>1, <2>2, WidgetAssumption DEF ReadInv
  <2>4. e.of = m[j].of /\ m[j].role = "bot"
    BY <2>2 DEF About
  <2> HIDE DEF e
  <2> QED BY <2>3, <2>4 DEF LogInv
<1> HIDE DEF e
<1> QED BY <1>0, <1>1, <1>2, <1>3, BotOrigins DEF e

\* Whether it was sent, answered or replayed, the question is above its answer.
LEMMA BotPlace ==
  ASSUME TypeOK, TypeOK', ClickInv, LogInv, ThreadInv, ReadInv, PageInv, [Next]_vars,
         NEW t \in Tabs, NEW i \in DOMAIN page'[t].shown, page'[t].shown[i].kind = "bot",
         NEW n, n = page'[t].shown[i].of, Stored("user", n)'
  PROVE  \E j \in 1 .. i : page'[t].shown[j] = About("user", n)
<1>0. n \in DOMAIN sends /\ Finished(n)
  BY BotThread
<1>1. Stored("user", n)
  BY <1>0, StoredBefore
<1>2. page[t].shown \in Seq(Entry) /\ page'[t].shown \in Seq(Entry)
  BY DEF TypeOK, Page
<1>3. PICK l \in Nat : DOMAIN page[t].shown = 1 .. l
  BY <1>2, LenProperties
<1>4. PICK k \in Nat : DOMAIN page'[t].shown = 1 .. k
  BY <1>2, LenProperties
<1>5. Keeps(t)
  <2>1. page'[t].shown # <<>>
    OBVIOUS
  <2> QED BY <2>1, PageMoved
<1>6. ASSUME NEW j \in DOMAIN page[t].shown, page[t].shown[j] = About("user", n)
      PROVE  page'[t].shown[j] = About("user", n)
  BY <1>5, <1>6 DEF Keeps, About, Buttons
<1>7. CASE i \in DOMAIN page[t].shown /\ page[t].shown[i] = page'[t].shown[i]
  <2>1. PICK j \in 1 .. i : page[t].shown[j] = About("user", n)
    BY <1>1, <1>7 DEF PageInv, AnsweredInPlace
  <2> QED BY <1>3, <1>6, <1>7, <2>1
<1>8. ASSUME i \notin DOMAIN page[t].shown, NEW m \in DOMAIN sends, ReceiveAnswer(m),
             sends[m].tab = t, page'[t].shown[i] = About("bot", m)
      PROVE  \E j \in 1 .. i : page'[t].shown[j] = About("user", n)
  <2>1. n = m
    BY <1>8 DEF About
  <2>2. PICK j \in DOMAIN page[t].shown : page[t].shown[j] = About("user", n)
    BY <1>8, <2>1, WidgetAssumption DEF PageInv
  <2> QED BY <1>3, <1>4, <1>6, <1>8, <2>2
<1>9. ASSUME i \notin DOMAIN page[t].shown, NEW c \in Calls, call[c] # None, call[c] \in Call,
             call[c].tab = t, call[c].kind = "history", ShowHistory(c, call[c].replay)
      PROVE  \E j \in 1 .. i : page'[t].shown[j] = About("user", n)
  <2>1. PICK m \in Seq(Message) : m = call[c].replay
    BY <1>9 DEF Call
  <2>2. PICK p \in Nat : i - p \in DOMAIN m /\ IsReplay(t, p, m)
    <3>1. ShowHistory(c, m)
      BY <1>9, <2>1
    <3> QED BY <1>9, <3>1, ReplayPlace
  <2>3. m[i - p].role = "bot" /\ m[i - p].of = n
    <3>1. i = p + (i - p)
      BY <1>4
    <3>2. page'[t].shown[i] = About(m[i - p].role, m[i - p].of)
      BY <2>2, <3>1 DEF IsReplay
    <3> QED BY <3>2 DEF About
  <2>4. PICK d \in DOMAIN log : /\ d = call[c].conv
                                /\ \A j \in DOMAIN m : j \in DOMAIN log[d] /\ m[j] = log[d][j]
    BY <1>9, <2>1, <2>2 DEF ReadInv
  <2>5. /\ sends[n].conv = d
        /\ \A j \in DOMAIN log[d] : log[d][j] = Question(n) => j < i - p
    <3>1. /\ i - p \in DOMAIN log[d]
          /\ log[d][i - p].of = n /\ log[d][i - p].role = "bot"
      BY <2>2, <2>3, <2>4
    <3> QED BY <3>1 DEF LogInv
  <2>6. PICK j \in DOMAIN log[d] : log[d][j] = Question(n)
    <3>1. PICK x \in DOMAIN log : \E j \in DOMAIN log[x] : log[x][j] = Question(n)
      BY <1>1 DEF Stored, Question
    <3>2. sends[n].conv = x
      BY <3>1 DEF LogInv, Question
    <3> QED BY <2>5, <3>1, <3>2
  <2>7. DOMAIN log[d] = 1 .. Len(log[d]) /\ DOMAIN m = 1 .. Len(m) /\ Len(m) \in Nat
    BY <2>4, LenProperties, ElementOfSeq DEF TypeOK
  <2>8. j \in DOMAIN m /\ j < i - p /\ j \in Nat
    BY <2>2, <2>5, <2>6, <2>7
  <2>9. page'[t].shown[p + j] = About("user", n) /\ p + j \in 1 .. k
    BY <1>4, <2>2, <2>4, <2>6, <2>8 DEF Question, IsReplay
  <2> QED BY <1>4, <2>8, <2>9
<1> QED BY <1>7, <1>8, <1>9, BotOrigins

\* Every step keeps the answers of a page in one conversation.
LEMMA PageStep ==
  ASSUME TypeOK, TypeOK', ClickInv, LogInv, ThreadInv, ReadInv, PageInv, [Next]_vars
  PROVE  PageInv'
<1>1. ASSUME NEW t \in Tabs, NEW i \in DOMAIN page'[t].shown, page'[t].shown[i].kind = "bot",
             NEW n, n = page'[t].shown[i].of
      PROVE  /\ n \in DOMAIN sends' /\ Finished(n)'
             /\ sends'[n].conv \in DOMAIN log' => saved'[t] = sends'[n].conv
  <2>1. /\ n \in DOMAIN sends /\ Finished(n)
        /\ sends[n].conv \in DOMAIN log' => saved'[t] = sends[n].conv
    BY <1>1, BotThread
  <2>2. Asked(n)
    BY <2>1 DEF Asked, Finished
  <2> QED BY <2>1, <2>2, Progress
<1>2. AnsweredInPlace'
  BY BotPlace DEF AnsweredInPlace
<1> QED BY <1>1, <1>2, WaitShown DEF PageInv

\* The tabs, messages, reads and pages of a visitor keep to their conversations.
LEMMA ThreadsCorrect == Spec => [](LogInv /\ ThreadInv /\ ReadInv /\ PageInv)
<1> DEFINE Inv == LogInv /\ ThreadInv /\ ReadInv /\ PageInv
<1>1. Init => Inv
  BY LogInit, ThreadInit, ReadInit, PageInit
<1>2. TypeOK /\ TypeOK' /\ ClickInv /\ BusyWhileWaiting /\ Inv /\ [Next]_vars => Inv'
  BY LogStep, ThreadStep, ReadStep, PageStep
<1> QED BY <1>1, <1>2, TypeCorrect, ClicksCorrect, InputBlockedWhileWaiting, PTL DEF Spec

\* Every answer that a page shows and the core has stored is in the conversation
\* with which the tab goes on, whatever the other tabs have started or ended.
THEOREM PagesKeepTheirThread == Spec => []OneThreadPerPage
<1>1. LogInv /\ PageInv => OneThreadPerPage
  <2> SUFFICES ASSUME LogInv, PageInv, NEW t \in Tabs, NEW i \in DOMAIN page[t].shown,
                      NEW c \in DOMAIN log, page[t].shown[i].kind = "bot",
                      NEW j \in DOMAIN log[c],
                      log[c][j] = [role |-> "bot", of |-> page[t].shown[i].of]
               PROVE  saved[t] = c
    BY DEF OneThreadPerPage
  <2>1. log[c][j].of = page[t].shown[i].of
    OBVIOUS
  <2>2. sends[page[t].shown[i].of].conv = c
    BY <2>1 DEF LogInv
  <2> QED BY <2>2 DEF PageInv
<1> QED BY <1>1, ThreadsCorrect, PTL

\* An answer is shown below its question, replayed or not, unless the core could
\* not store the question.
THEOREM AnswersInPlace == Spec => []AnsweredInPlace
<1>1. PageInv => AnsweredInPlace
  BY DEF PageInv
<1> QED BY <1>1, ThreadsCorrect, PTL
================================================================================
