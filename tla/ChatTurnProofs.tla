----------------------------- MODULE ChatTurnProofs -----------------------------
(***************************************************************************)
(* Theorems about ChatTurn, for any attempts, turns, visitors, rules and   *)
(* bounds, and for any transactions that fail.                             *)
(***************************************************************************)
EXTENDS ChatTurn, NaturalExtrema, SequenceTheorems, FiniteSetTheorems, TLAPS

--------------------------------------------------------------------------------
(* The tables.                                                             *)

\* What an INSERT leaves and adds.
LEMMA Added ==
  ASSUME NEW S, NEW s \in Seq(S), NEW e \in S
  PROVE  /\ Append(s, e) \in Seq(S)
         /\ DOMAIN Append(s, e) = DOMAIN s \union {Len(s) + 1}
         /\ Len(s) + 1 \notin DOMAIN s
         /\ \A i \in DOMAIN s : Append(s, e)[i] = s[i] /\ i < Len(s) + 1
         /\ Append(s, e)[Len(s) + 1] = e
         /\ Len(s) + 1 \in Nat \ {0}
         /\ Len(Append(s, e)) = Len(s) + 1
<1>1. DOMAIN s = 1 .. Len(s) /\ Len(s) \in Nat
  BY LenProperties
<1>2. /\ Append(s, e) \in Seq(S) /\ Len(Append(s, e)) = Len(s) + 1
      /\ \A i \in 1 .. Len(s) : Append(s, e)[i] = s[i]
      /\ Append(s, e)[Len(s) + 1] = e
  BY <1>1, AppendProperties
<1>3. DOMAIN Append(s, e) = 1 .. Len(s) + 1
  BY <1>2, LenProperties
<1> QED BY <1>1, <1>2, <1>3

\* An INSERT adds one row.
LEMMA Appended ==
  ASSUME NEW S, NEW s \in Seq(S), NEW e
  PROVE  Len(Append(s, e)) = Len(s) + 1
<1>1. s \in Seq(S \union {e}) /\ e \in S \union {e}
  <2>1. s \in [1 .. Len(s) -> S \union {e}] /\ Len(s) \in Nat
    BY LenProperties
  <2> QED BY <2>1, SeqDef
<1> QED BY <1>1, AppendProperties

\* A set that grew has at least one element more.
LEMMA OneMore ==
  ASSUME NEW S, NEW T, IsFiniteSet(T), S \subseteq T, NEW e \in T, e \notin S
  PROVE  Cardinality(S) + 1 <= Cardinality(T)
<1>1. IsFiniteSet(S) /\ S \union {e} \subseteq T
  BY FS_Subset
<1>2. Cardinality(S \union {e}) = Cardinality(S) + 1
  BY <1>1, FS_AddElement
<1>3. Cardinality(S \union {e}) <= Cardinality(T)
  BY <1>1, FS_Subset
<1> QED BY <1>2, <1>3

\* The rows have the types of their tables.
LEMMA Rows ==
  ASSUME TypeOK
  PROVE  /\ \A i \in DOMAIN messages : messages[i] \in Message /\ i \in Nat
         /\ \A n \in DOMAIN coupons : coupons[n] \in Coupon /\ n \in Nat \ {0}
<1>1. /\ DOMAIN messages = 1 .. Len(messages) /\ DOMAIN coupons = 1 .. Len(coupons)
      /\ Len(messages) \in Nat /\ Len(coupons) \in Nat
  BY LenProperties DEF TypeOK
<1>2. \A i \in DOMAIN messages : messages[i] \in Message
  BY <1>1, ElementOfSeq DEF TypeOK
<1>3. \A n \in DOMAIN coupons : coupons[n] \in Coupon
  BY <1>1, ElementOfSeq DEF TypeOK
<1> QED BY <1>1, <1>2, <1>3

\* The positions of the coupons.
LEMMA CouponRows ==
  ASSUME TypeOK
  PROVE  /\ IsFiniteSet(DOMAIN coupons) /\ Len(coupons) \in Nat
         /\ \A n \in DOMAIN coupons : n < Len(coupons) + 1
<1>1. DOMAIN coupons = 1 .. Len(coupons) /\ Len(coupons) \in Nat
  BY LenProperties DEF TypeOK
<1> QED BY <1>1, FS_Interval

\* The positions of the rules are numbers, and each is a rule.
LEMMA RuleFacts ==
  /\ Rules \subseteq Nat \ {0}
  /\ \A i \in Rules : RuleTable[i] \in Rule /\ i \in Nat
<1>1. DOMAIN RuleTable = 1 .. Len(RuleTable) /\ Len(RuleTable) \in Nat
  BY ChatAssumption, LenProperties
<1>2. \A i \in Rules : RuleTable[i] \in Rule
  BY <1>1, ChatAssumption, ElementOfSeq DEF Rules
<1> QED BY <1>1, <1>2 DEF Rules

--------------------------------------------------------------------------------
(* Types.  An attempt that is about to issue a coupon or to count a rule   *)
(* has one.                                                                *)

OfRule == {"check", "issue", "read_usage", "count"}

TypeInv ==
  /\ TypeOK
  /\ \A r \in Attempts : pc[r] \in OfRule => at[r].rule \in Rules

\* At first nothing is stored and no attempt was made.
LEMMA TypeInit == Init => TypeInv
<1> SUFFICES ASSUME Init PROVE TypeInv
  OBVIOUS
<1>1. conversations \in Seq(Conversation) /\ messages \in Seq(Message) /\ coupons \in Seq(Coupon)
  BY EmptySeq DEF Init
<1> QED BY <1>1 DEF Init, TypeInv, TypeOK, OfRule, Labels, Idle

\* What an attempt in flight has in memory.
LEMMA InMemory ==
  ASSUME TypeInv, NEW r \in Attempts, pc[r] # "idle"
  PROVE  at[r] \in Memory /\ sent[at[r].turn] \in Nat
<1>1. at[r] \in Memory /\ sent[at[r].turn] # None
  BY DEF TypeInv, TypeOK
<1>2. at[r].turn \in Turns
  BY <1>1 DEF Memory
<1> QED BY <1>1, <1>2 DEF TypeInv, TypeOK

\* What an attempt and its question have to be after a step.
AttemptsTyped ==
  /\ pc \in [Attempts -> Labels]
  /\ at \in [Attempts -> Memory \union {None}]
  /\ \A r \in Attempts : pc[r] # "idle" => at[r] # None /\ sent[at[r].turn] # None
  /\ \A r \in Attempts : pc[r] \in OfRule => at[r].rule \in Rules

\* An attempt goes on.
LEMMA KeepTypes ==
  ASSUME TypeInv, NEW r \in Attempts, pc[r] # "idle", NEW m \in Memory, m.turn = at[r].turn,
         NEW l \in Labels, Keep(r, m, l), l \in OfRule => m.rule \in Rules, UNCHANGED sent
  PROVE  AttemptsTyped'
<1>1. at[r] # None /\ sent[at[r].turn] # None
  BY DEF TypeInv, TypeOK
<1>2. /\ pc' \in [Attempts -> Labels] /\ at' \in [Attempts -> Memory \union {None}]
      /\ at'[r] = m /\ pc'[r] = l /\ m # None
      /\ \A q \in Attempts \ {r} : at'[q] = at[q] /\ pc'[q] = pc[q]
  BY NoneAssumption DEF Keep, Goto, TypeInv, TypeOK
<1>3. ASSUME NEW q \in Attempts, pc'[q] # "idle"
      PROVE  at'[q] # None /\ sent'[at'[q].turn] # None
  BY <1>1, <1>2, <1>3 DEF TypeInv, TypeOK
<1>4. ASSUME NEW q \in Attempts, pc'[q] \in OfRule PROVE at'[q].rule \in Rules
  BY <1>2, <1>4 DEF TypeInv
<1> QED BY <1>2, <1>3, <1>4 DEF AttemptsTyped

\* An attempt goes on with what it has.
LEMMA GotoTypes ==
  ASSUME TypeInv, NEW r \in Attempts, pc[r] # "idle", NEW l \in Labels, Goto(r, l), UNCHANGED at,
         l \in OfRule => at[r].rule \in Rules, UNCHANGED sent
  PROVE  AttemptsTyped'
<1>1. at' = [at EXCEPT ![r] = at[r]]
  BY DEF TypeInv, TypeOK
<1>2. Keep(r, at[r], l) /\ at[r] \in Memory
  BY <1>1, InMemory DEF Keep
<1> QED BY <1>2, KeepTypes

\* The newest conversation of a user, or none.
LEMMA NewestType ==
  ASSUME TypeOK, NEW user
  PROVE  NewestActive(user) \in Nat
<1> DEFINE mine == {c \in DOMAIN conversations :
                      conversations[c].user = user /\ conversations[c].active}
<1>1. DOMAIN conversations = 1 .. Len(conversations) /\ Len(conversations) \in Nat
  BY LenProperties DEF TypeOK
<1>2. CASE mine = {}
  BY <1>2 DEF NewestActive
<1>3. CASE mine # {}
  <2>1. mine \in SUBSET (1 .. Len(conversations))
    BY <1>1
  <2>2. \E c \in mine : \A d \in mine : d <= c
    <3> HIDE DEF mine
    <3> QED BY <1>1, <1>3, <2>1, MaxExists
  <2>3. (CHOOSE c \in mine : \A d \in mine : d <= c) \in mine
    BY <2>2
  <2>4. NewestActive(user) = CHOOSE c \in mine : \A d \in mine : d <= c
    BY <1>3 DEF NewestActive
  <2> QED BY <1>1, <2>1, <2>3, <2>4
<1> QED BY <1>2, <1>3

\* The rule of a question, or none.
LEMMA EvaluatedType ==
  ASSUME NEW m \in Memory
  PROVE  Evaluated(m) \in Rules \union {0}
<1> DEFINE matching == {i \in m.kept : Matches(i, m.turn, m.first)}
<1>1. CASE matching = {}
  BY <1>1 DEF Evaluated
<1>2. CASE matching # {}
  <2>1. matching \subseteq Rules /\ Rules \subseteq Nat
    BY RuleFacts DEF Memory
  <2>2. \E i \in matching : \A n \in matching : i <= n
    <3> HIDE DEF matching
    <3>1. matching \in SUBSET Nat
      BY <2>1
    <3> QED BY <1>2, <3>1, MinExists
  <2>3. (CHOOSE i \in matching : \A n \in matching : i <= n) \in matching
    BY <2>2
  <2>4. Evaluated(m) = CHOOSE i \in matching : \A n \in matching : i <= n
    BY <1>2 DEF Evaluated
  <2> QED BY <2>1, <2>3, <2>4
<1> QED BY <1>1, <1>2

\* A message that is inserted has the type of the table.
LEMMA InsertedType ==
  ASSUME TypeOK, NEW msg \in Message
  PROVE  Inserted(msg) \in Seq(Message)
BY Added DEF Inserted, TypeOK

\* A conversation of a stored message, or the one that is given.
LEMMA ConversationOfType ==
  ASSUME TypeOK, NEW conv \in Nat \ {0}, NEW k, NEW role
  PROVE  ConversationOf(conv, Stored(k, role)) \in Nat \ {0}
<1> DEFINE s == Stored(k, role)
<1>1. CASE s = {}
  BY <1>1 DEF ConversationOf
<1>2. CASE s # {}
  <2>1. (CHOOSE i \in s : TRUE) \in s
    BY <1>2
  <2>2. (CHOOSE i \in s : TRUE) \in DOMAIN messages
    BY <2>1 DEF Stored
  <2>3. messages[CHOOSE i \in s : TRUE].conv \in Nat \ {0}
    BY <2>2, Rows DEF Message
  <2> QED BY <1>2, <2>3 DEF ConversationOf
<1> QED BY <1>1, <1>2

\* Every step keeps the types.
LEMMA TypeStep == TypeInv /\ [Next]_vars => TypeInv'
<1> SUFFICES ASSUME TypeInv, [Next]_vars PROVE TypeInv'
  OBVIOUS
<1>0. TypeOK /\ AttemptsTyped
  BY DEF TypeInv, TypeOK, AttemptsTyped
<1>1. ASSUME UNCHANGED <<tables, now, client, calls>>, AttemptsTyped' PROVE TypeInv'
  BY <1>0, <1>1 DEF TypeInv, TypeOK, AttemptsTyped, tables, client
<1>2. ASSUME NEW r \in Attempts, NEW k \in Turns, Send(r, k) PROVE TypeInv'
  <2>1. Fresh(k) \in Memory /\ Fresh(k).turn = k
    BY DEF Fresh, Memory
  <2>2. /\ sent' \in [Turns -> Nat \union {None}] /\ sent'[k] # None
        /\ \A q \in Turns : sent[q] # None => sent'[q] # None
    <3>1. CASE sent[k] = None
      <4>1. PICK c \in Known(VisitorOf[k]) \union {0} : sent' = [sent EXCEPT ![k] = c]
        BY <1>2, <3>1 DEF Send
      <4>2. Known(VisitorOf[k]) \subseteq Nat
        BY <1>0 DEF Known, TypeOK, Reply
      <4>3. c \in Nat /\ c # None
        BY <4>1, <4>2, NoneAssumption
      <4> QED BY <1>0, <4>1, <4>3 DEF TypeOK
    <3>2. CASE sent[k] # None
      BY <1>0, <1>2, <3>2 DEF Send, TypeOK
    <3> QED BY <3>1, <3>2
  <2>3. /\ at' \in [Attempts -> Memory \union {None}] /\ pc' \in [Attempts -> Labels]
        /\ at'[r] = Fresh(k) /\ pc'[r] = "resolve" /\ Fresh(k) # None
        /\ \A q \in Attempts \ {r} : at'[q] = at[q] /\ pc'[q] = pc[q]
    BY <1>0, <1>2, <2>1, NoneAssumption DEF Send, Keep, Goto, TypeOK, Labels
  <2>4. ASSUME NEW q \in Attempts, pc'[q] # "idle" PROVE at'[q] # None /\ sent'[at'[q].turn] # None
    <3>1. CASE q = r
      BY <2>1, <2>2, <2>3, <3>1
    <3>2. CASE q # r
      <4>1. pc[q] # "idle" /\ at'[q] = at[q]
        BY <2>3, <2>4, <3>2
      <4>2. at[q] \in Memory /\ at[q] # None /\ sent[at[q].turn] # None
        BY <1>0, <4>1, InMemory DEF TypeOK
      <4> QED BY <2>2, <4>1, <4>2 DEF Memory
    <3> QED BY <3>1, <3>2
  <2>5. \A q \in Attempts : pc'[q] \in OfRule => at'[q].rule \in Rules
    BY <2>3 DEF TypeInv, OfRule
  <2>6. UNCHANGED <<tables, now, reply, calls>>
    BY <1>2 DEF Send
  <2> QED BY <1>0, <2>2, <2>3, <2>4, <2>5, <2>6 DEF TypeInv, TypeOK, tables
<1>3. ASSUME NEW r \in Attempts, Resolve(r) PROVE TypeInv'
  <2> DEFINE conv == IF sent[at[r].turn] # 0 THEN sent[at[r].turn] ELSE NewestActive(Identifier(r))
             m == [at[r] EXCEPT !.conv = conv]
  <2>1. pc[r] # "idle" /\ Keep(r, m, "log") /\ UNCHANGED <<tables, now, client, calls>>
    BY <1>3 DEF Resolve
  <2>2. at[r] \in Memory /\ conv \in Nat
    BY <1>0, <2>1, InMemory, NewestType
  <2> HIDE DEF conv
  <2>3. m \in Memory /\ m.turn = at[r].turn
    BY <2>2 DEF Memory
  <2> HIDE DEF m
  <2> QED BY <1>1, <2>1, <2>3, KeepTypes DEF Labels, OfRule, client
<1>4. ASSUME NEW r \in Attempts, LogQuestion(r) PROVE TypeInv'
  <2> DEFINE stored == Stored(at[r].turn, "user")
             conv == IF at[r].conv = 0 THEN Len(conversations) + 1 ELSE at[r].conv
             msg == [conv |-> conv, role |-> "user", key |-> at[r].turn, of |-> at[r].turn,
                     coupon |-> 0]
             m == [at[r] EXCEPT !.conv = ConversationOf(conv, stored),
                                !.logged = TRUE, !.created = stored = {}]
             l == IF stored = {} THEN "filter" ELSE "find"
             f == [at[r] EXCEPT !.conv = sent[at[r].turn]]
  <2>1. /\ pc[r] # "idle" /\ messages' = Inserted(msg)
        /\ Keep(r, m, l) \/ Keep(r, f, "filter")
        /\ conversations' = IF at[r].conv = 0
                              THEN Append(conversations, [user |-> Identifier(r), active |-> TRUE])
                              ELSE conversations
        /\ UNCHANGED <<coupons, usage, events, now, client, calls>>
    BY <1>4 DEF LogQuestion, Fallback
  <2>2. /\ at[r] \in Memory /\ at[r].turn \in Turns /\ at[r].conv \in Nat
        /\ sent[at[r].turn] \in Nat
    BY <2>1, InMemory DEF Memory
  <2>3. conv \in Nat \ {0}
    <3>1. Len(conversations) \in Nat
      BY <1>0, LenProperties DEF TypeOK
    <3> QED BY <2>2, <3>1
  <2> HIDE DEF conv
  <2>4. ConversationOf(conv, stored) \in Nat
    BY <1>0, <2>3, ConversationOfType
  <2>5. m \in Memory /\ m.turn = at[r].turn /\ f \in Memory /\ f.turn = at[r].turn
    BY <2>2, <2>4 DEF Memory
  <2>6. messages' \in Seq(Message)
    <3>1. msg \in Message
      BY <2>2, <2>3 DEF Message
    <3> HIDE DEF msg
    <3> QED BY <1>0, <2>1, <3>1, InsertedType
  <2>7. conversations' \in Seq(Conversation)
    <3> DEFINE c == [user |-> Identifier(r), active |-> TRUE]
    <3>1. Customer(r) \in Customers \union {None}
      BY <2>2, ChatAssumption DEF Customer
    <3>2. c \in Conversation
      BY <3>1 DEF Conversation, Identifier
    <3> HIDE DEF c
    <3>3. Append(conversations, c) \in Seq(Conversation)
      BY <1>0, <3>2, Added DEF TypeOK
    <3> QED BY <1>0, <2>1, <3>3 DEF TypeOK, c
  <2> HIDE DEF m, f, stored, msg
  <2>8. AttemptsTyped'
    BY <2>1, <2>5, KeepTypes DEF Labels, OfRule, client
  <2> QED BY <1>0, <2>1, <2>6, <2>7, <2>8 DEF TypeInv, TypeOK, AttemptsTyped, client
<1>5. ASSUME NEW r \in Attempts, LogFails(r) PROVE TypeInv'
  <2> DEFINE m == [at[r] EXCEPT !.conv = sent[at[r].turn]]
  <2>1. pc[r] # "idle" /\ Keep(r, m, "filter") /\ UNCHANGED <<tables, now, client, calls>>
    BY <1>5 DEF LogFails, Fallback
  <2>2. at[r] \in Memory /\ sent[at[r].turn] \in Nat
    BY <2>1, InMemory
  <2>3. m \in Memory /\ m.turn = at[r].turn
    BY <2>2 DEF Memory
  <2> HIDE DEF m
  <2> QED BY <1>1, <2>1, <2>3, KeepTypes DEF Labels, OfRule, client
<1>6. ASSUME NEW r \in Attempts, NEW of \in Turns, NEW coupon \in Nat, NEW cached \in BOOLEAN,
             pc[r] # "idle", Answer(r, of, coupon, cached), messages' \in Seq(Message),
             UNCHANGED <<conversations, coupons, usage, events, now, at, sent, calls>>
      PROVE  TypeInv'
  <2>1. AttemptsTyped'
    BY <1>6, GotoTypes DEF Answer, Labels, Idle, OfRule
  <2>2. reply' \in [Attempts -> Reply \union {None}]
    <3>1. at[r].conv \in Nat
      BY <1>6, InMemory DEF Memory
    <3>2. [of |-> of, coupon |-> coupon, conv |-> at[r].conv, cached |-> cached] \in Reply
      BY <1>6, <3>1 DEF Reply
    <3> QED BY <1>0, <1>6, <3>2 DEF Answer, TypeOK
  <2> QED BY <1>0, <1>6, <2>1, <2>2 DEF TypeInv, TypeOK, AttemptsTyped
<1>7. ASSUME NEW r \in Attempts, FindAnswer(r) PROVE TypeInv'
  <2>1. CASE Goto(r, "filter") /\ UNCHANGED reply
    <3>1. AttemptsTyped'
      BY <1>7, <2>1, GotoTypes DEF FindAnswer, Labels, OfRule
    <3> QED BY <1>1, <1>7, <2>1, <3>1 DEF FindAnswer, client
  <2>2. CASE ~(Goto(r, "filter") /\ UNCHANGED reply)
    <3>1. PICK i \in DOMAIN messages : Answer(r, messages[i].of, messages[i].coupon, TRUE)
      BY <1>7, <2>2 DEF FindAnswer, AnswersAfter, FirstOf, Of
    <3>2. messages[i].of \in Turns /\ messages[i].coupon \in Nat
      BY <1>0, Rows DEF Message
    <3> QED BY <1>0, <1>6, <1>7, <3>1, <3>2 DEF FindAnswer, tables, TypeOK
  <2> QED BY <2>1, <2>2
<1>8. ASSUME NEW r \in Attempts, FilterRules(r) PROVE TypeInv'
  <2>1. PICK kept \in SUBSET Rules : Keep(r, [at[r] EXCEPT !.kept = kept], "history")
    BY <1>8 DEF FilterRules
  <2>2. pc[r] # "idle" /\ UNCHANGED <<tables, now, client, calls>>
    BY <1>8 DEF FilterRules
  <2> DEFINE m == [at[r] EXCEPT !.kept = kept]
  <2>3. at[r] \in Memory
    BY <2>2, InMemory
  <2>4. m \in Memory /\ m.turn = at[r].turn
    BY <2>3 DEF Memory
  <2> HIDE DEF m
  <2>5. Keep(r, m, "history")
    BY <2>1 DEF m
  <2> QED BY <1>1, <2>2, <2>4, <2>5, KeepTypes DEF Labels, OfRule, client
<1>9. ASSUME NEW r \in Attempts, LoadHistory(r) PROVE TypeInv'
  <2>1. PICK first \in BOOLEAN : Keep(r, [at[r] EXCEPT !.first = first], "decide")
    BY <1>9 DEF LoadHistory
  <2>2. pc[r] # "idle" /\ UNCHANGED <<tables, now, client, calls>>
    BY <1>9 DEF LoadHistory
  <2> DEFINE m == [at[r] EXCEPT !.first = first]
  <2>3. at[r] \in Memory
    BY <2>2, InMemory
  <2>4. m \in Memory /\ m.turn = at[r].turn
    BY <2>3 DEF Memory
  <2> HIDE DEF m
  <2>5. Keep(r, m, "decide")
    BY <2>1 DEF m
  <2> QED BY <1>1, <2>2, <2>4, <2>5, KeepTypes DEF Labels, OfRule, client
<1>10. ASSUME NEW r \in Attempts, Block(r) PROVE TypeInv'
  <2>1. AttemptsTyped'
    BY <1>10, GotoTypes DEF Block, Labels, OfRule, client
  <2> QED BY <1>1, <1>10, <2>1 DEF Block
<1>11. ASSUME NEW r \in Attempts, Decide(r) PROVE TypeInv'
  <2> DEFINE i == Evaluated(at[r])
             m == [at[r] EXCEPT !.rule = i]
  <2>1. pc[r] # "idle" /\ UNCHANGED <<tables, now, client>>
    BY <1>11 DEF Decide
  <2>2. at[r] \in Memory /\ i \in Rules \union {0}
    BY <2>1, InMemory, EvaluatedType
  <2>3. \/ Goto(r, "store") /\ UNCHANGED at
        \/ \E l \in {"read_usage", "check"} : Keep(r, m, l) /\ i # 0
        \/ Keep(r, m, "store")
    BY <1>11 DEF Decide, TypeOf
  <2> HIDE DEF i
  <2>4. m \in Memory /\ m.turn = at[r].turn /\ (i # 0 => m.rule \in Rules)
    BY <2>2 DEF Memory
  <2> HIDE DEF m
  <2>5. AttemptsTyped'
    <3>1. CASE Goto(r, "store") /\ UNCHANGED at
      BY <2>1, <3>1, GotoTypes DEF Labels, OfRule, client
    <3>2. CASE \E l \in {"read_usage", "check"} : Keep(r, m, l) /\ i # 0
      BY <2>1, <2>4, <3>2, KeepTypes DEF Labels, OfRule, client
    <3>3. CASE Keep(r, m, "store")
      BY <2>1, <2>4, <3>3, KeepTypes DEF Labels, OfRule, client
    <3> QED BY <2>3, <3>1, <3>2, <3>3
  <2>6. calls' \in [Turns -> Nat]
    <3>1. calls' = calls \/ calls' = [calls EXCEPT ![at[r].turn] = @ + 1]
      BY <1>11 DEF Decide
    <3>2. at[r].turn \in Turns /\ calls \in [Turns -> Nat]
      BY <1>0, <2>2 DEF TypeOK, Memory
    <3> QED BY <3>1, <3>2
  <2> QED BY <1>0, <2>1, <2>5, <2>6 DEF TypeInv, TypeOK, AttemptsTyped, tables, client
<1>12. ASSUME NEW r \in Attempts, CheckCoupon(r) PROVE TypeInv'
  <2> DEFINE m == [at[r] EXCEPT !.checked = now]
  <2>1. /\ pc[r] = "check" /\ UNCHANGED <<tables, now, client, calls>>
        /\ Keep(r, m, "issue") \/ (Goto(r, "read_usage") /\ UNCHANGED at)
    BY <1>12 DEF CheckCoupon
  <2>2. at[r] \in Memory /\ at[r].rule \in Rules
    BY <2>1, InMemory DEF TypeInv, OfRule
  <2>3. m \in Memory /\ m.turn = at[r].turn /\ m.rule \in Rules
    BY <1>0, <2>2 DEF Memory, TypeOK
  <2> HIDE DEF m
  <2>4. AttemptsTyped'
    BY <2>1, <2>2, <2>3, KeepTypes, GotoTypes DEF Labels, OfRule, client
  <2> QED BY <1>1, <2>1, <2>4
<1>13. ASSUME NEW r \in Attempts, IssueCoupon(r) PROVE TypeInv'
  <2> DEFINE m == [at[r] EXCEPT !.coupon = Len(coupons) + 1]
  <2>1. /\ pc[r] = "issue"
        /\ UNCHANGED <<conversations, messages, usage, events, now, client, calls>>
        /\ \/ coupons' = coupons
           \/ \E known \in BOOLEAN : coupons' = Append(coupons, CouponOf(r, known))
        /\ Keep(r, m, "read_usage") \/ (Goto(r, "read_usage") /\ UNCHANGED at)
    BY <1>13 DEF IssueCoupon
  <2>2. at[r] \in Memory /\ at[r].rule \in Rules
    BY <2>1, InMemory DEF TypeInv, OfRule
  <2>3. m \in Memory /\ m.turn = at[r].turn /\ m.rule \in Rules
    <3>1. Len(coupons) \in Nat
      BY <1>0, LenProperties DEF TypeOK
    <3> QED BY <2>2, <3>1 DEF Memory
  <2>4. \A known \in BOOLEAN : CouponOf(r, known) \in Coupon
    <3>1. Customer(r) \in Customers \union {None}
      BY <2>2, ChatAssumption DEF Customer, Memory
    <3> QED BY <2>2, <3>1 DEF CouponOf, Coupon, Memory
  <2> HIDE DEF m
  <2>5. coupons' \in Seq(Coupon)
    <3>1. coupons \in Seq(Coupon)
      BY <1>0 DEF TypeOK
    <3>2. ASSUME NEW known \in BOOLEAN PROVE Append(coupons, CouponOf(r, known)) \in Seq(Coupon)
      <4>1. PICK c \in Coupon : c = CouponOf(r, known)
        BY <2>4, <3>2
      <4> QED BY <3>1, <4>1, Added
    <3> QED BY <2>1, <3>1, <3>2
  <2>6. AttemptsTyped'
    BY <2>1, <2>2, <2>3, KeepTypes, GotoTypes DEF Labels, OfRule, client
  <2> QED BY <1>0, <2>1, <2>5, <2>6 DEF TypeInv, TypeOK, AttemptsTyped, client
<1>14. ASSUME NEW r \in Attempts, ReadUsage(r) PROVE TypeInv'
  <2> DEFINE m == [at[r] EXCEPT !.seen = usage[at[r].rule]]
  <2>1. pc[r] = "read_usage" /\ Keep(r, m, "count") /\ UNCHANGED <<tables, now, client, calls>>
    BY <1>14 DEF ReadUsage
  <2>2. at[r] \in Memory /\ at[r].rule \in Rules
    BY <2>1, InMemory DEF TypeInv, OfRule
  <2>3. m \in Memory /\ m.turn = at[r].turn /\ m.rule \in Rules
    BY <1>0, <2>2 DEF Memory, TypeOK
  <2> HIDE DEF m
  <2>4. AttemptsTyped'
    BY <2>1, <2>3, KeepTypes DEF Labels, OfRule, client
  <2> QED BY <1>1, <2>1, <2>4
<1>15. ASSUME NEW r \in Attempts, CountRule(r) PROVE TypeInv'
  <2>1. /\ pc[r] = "count" /\ Goto(r, "store") /\ UNCHANGED at
        /\ UNCHANGED <<conversations, messages, coupons, now, client, calls>>
    BY <1>15 DEF CountRule
  <2>2. at[r] \in Memory /\ at[r].rule \in Rules
    BY <2>1, InMemory DEF TypeInv, OfRule
  <2>3. usage' \in [Rules -> Nat] /\ events' \in [Rules -> Nat]
    BY <1>0, <1>15, <2>2 DEF CountRule, TypeOK, Memory
  <2>4. AttemptsTyped'
    BY <2>1, GotoTypes DEF Labels, OfRule, client
  <2> QED BY <1>0, <2>1, <2>3, <2>4 DEF TypeInv, TypeOK, AttemptsTyped, client
<1>16. ASSUME NEW r \in Attempts, CountFails(r) \/ Crash(r) PROVE TypeInv'
  <2>1. /\ pc[r] # "idle" /\ UNCHANGED <<tables, now, at, client, calls>>
        /\ \E l \in {"store", "dead"} : Goto(r, l)
    BY <1>16 DEF CountFails, Crash, InFlight, Idle
  <2>2. AttemptsTyped'
    BY <2>1, GotoTypes DEF Labels, Idle, OfRule, client
  <2> QED BY <1>1, <2>1, <2>2
<1>17. ASSUME NEW r \in Attempts, StoreAnswer(r) PROVE TypeInv'
  <2> DEFINE msg == [conv |-> at[r].conv, role |-> "assistant", of |-> at[r].turn,
                     coupon |-> CouponOfText(at[r]),
                     key |-> IF at[r].logged THEN at[r].turn ELSE None]
  <2>1. /\ pc[r] = "store" /\ Answer(r, at[r].turn, CouponOfText(at[r]), FALSE)
        /\ (Exists(at[r].conv) /\ messages' = Inserted(msg)) \/ UNCHANGED messages
        /\ UNCHANGED <<conversations, coupons, usage, events, now, at, sent, calls>>
    BY <1>17 DEF StoreAnswer
  <2>2. /\ at[r] \in Memory /\ at[r].turn \in Turns /\ CouponOfText(at[r]) \in Nat
        /\ at[r].conv \in Nat
    BY <2>1, InMemory DEF Memory, CouponOfText
  <2>3. messages' \in Seq(Message)
    <3>1. CASE Exists(at[r].conv) /\ messages' = Inserted(msg)
      <4>1. msg \in Message
        BY <2>2, <3>1 DEF Message, Exists
      <4> HIDE DEF msg
      <4> QED BY <1>0, <3>1, <4>1, InsertedType
    <3> QED BY <1>0, <2>1, <3>1 DEF TypeOK
  <2> HIDE DEF msg
  <2> QED BY <1>6, <2>1, <2>2, <2>3
<1>18. CASE EndConversation
  <2>1. PICK c \in DOMAIN conversations :
          conversations' = [conversations EXCEPT ![c].active = FALSE]
    BY <1>18 DEF EndConversation
  <2>2. \A n \in DOMAIN conversations : conversations[n] \in Conversation
    BY <1>0, ElementOfSeq, LenProperties DEF TypeOK
  <2>3. conversations' \in [DOMAIN conversations -> Conversation]
    BY <2>1, <2>2 DEF Conversation
  <2>4. DOMAIN conversations = 1 .. Len(conversations) /\ Len(conversations) \in Nat
    BY <1>0, LenProperties DEF TypeOK
  <2>5. conversations' \in Seq(Conversation)
    BY <2>3, <2>4, SeqDef
  <2> QED BY <1>0, <1>18, <2>5 DEF EndConversation, TypeInv, TypeOK, AttemptsTyped, client
<1>19. CASE Tick
  BY <1>0, <1>19 DEF Tick, TypeInv, TypeOK, tables, client
<1>20. CASE UNCHANGED vars
  BY <1>0, <1>20 DEF vars, TypeInv, TypeOK, tables, client
<1> QED BY <1>2, <1>3, <1>4, <1>5, <1>7, <1>8, <1>9, <1>10, <1>11, <1>12, <1>13, <1>14, <1>15,
           <1>16, <1>17, <1>18, <1>19, <1>20 DEF Next, Handle

\* An attempt that is about to issue a coupon or to count a rule has one, and
\* every variable keeps its type.
LEMMA TypeInvariant == Spec => []TypeInv
<1> QED BY TypeInit, TypeStep, PTL DEF Spec

\* Every variable keeps its type: the rows of the tables and what an attempt has
\* in memory.
THEOREM TypeCorrect == Spec => []TypeOK
<1>1. TypeInv => TypeOK
  BY DEF TypeInv
<1> QED BY <1>1, TypeInvariant, PTL

--------------------------------------------------------------------------------
(* What Next does to an attempt and to the tables.                         *)

\* An attempt is where its own last step left it.
LEMMA OwnSteps ==
  ASSUME TypeOK, [Next]_vars, NEW r \in Attempts
  PROVE  \/ at'[r] = at[r] /\ pc'[r] = pc[r] /\ reply'[r] = reply[r]
         \/ \E k \in Turns : Send(r, k)
         \/ Handle(r)
         \/ Crash(r)
<1> DEFINE Stays == at'[r] = at[r] /\ pc'[r] = pc[r] /\ reply'[r] = reply[r]
<1>1. ASSUME NEW q \in Attempts \ {r}, NEW k \in Turns, Send(q, k) PROVE Stays
  BY <1>1 DEF Send, Keep, Goto, TypeOK
<1>2. ASSUME NEW q \in Attempts \ {r}, Crash(q) PROVE Stays
  BY <1>2 DEF Crash, Goto, TypeOK, client
<1>3. ASSUME NEW q \in Attempts \ {r}, Handle(q) PROVE Stays
  <2>1. ASSUME NEW m, NEW l, Keep(q, m, l), UNCHANGED reply PROVE Stays
    BY <2>1 DEF Keep, Goto, TypeOK
  <2>2. ASSUME NEW l, Goto(q, l), UNCHANGED <<at, reply>> PROVE Stays
    BY <2>2 DEF Goto, TypeOK
  <2>3. ASSUME NEW of, NEW coupon, NEW cached, Answer(q, of, coupon, cached), UNCHANGED at
        PROVE  Stays
    BY <2>3 DEF Answer, Goto, TypeOK
  <2>4. CASE Resolve(q) \/ LogQuestion(q) \/ LogFails(q) \/ LoadHistory(q) \/ ReadUsage(q)
    BY <2>1, <2>4 DEF Resolve, LogQuestion, LogFails, Fallback, LoadHistory, ReadUsage, client
  <2>5. CASE Block(q) \/ CountRule(q) \/ CountFails(q)
    BY <2>2, <2>5 DEF Block, CountRule, CountFails, client
  <2>6. CASE FindAnswer(q)
    BY <2>2, <2>3, <2>6 DEF FindAnswer
  <2>7. CASE FilterRules(q)
    BY <2>1, <2>7 DEF FilterRules, client
  <2>8. CASE Decide(q)
    BY <2>1, <2>2, <2>8 DEF Decide, client
  <2>9. CASE CheckCoupon(q)
    BY <2>1, <2>2, <2>9 DEF CheckCoupon, client
  <2>10. CASE IssueCoupon(q)
    BY <2>1, <2>2, <2>10 DEF IssueCoupon, client
  <2>11. CASE StoreAnswer(q)
    BY <2>3, <2>11 DEF StoreAnswer
  <2> QED BY <1>3, <2>4, <2>5, <2>6, <2>7, <2>8, <2>9, <2>10, <2>11 DEF Handle
<1>4. CASE EndConversation \/ Tick \/ UNCHANGED vars
  BY <1>4 DEF EndConversation, Tick, vars, client
<1> QED BY <1>1, <1>2, <1>3, <1>4 DEF Next

\* An attempt starts with its question and nothing else.
LEMMA Starts ==
  ASSUME TypeOK, [Next]_vars, NEW r \in Attempts, pc[r] = "idle", pc'[r] # "idle"
  PROVE  \E k \in Turns : Send(r, k) /\ at'[r] = Fresh(k) /\ pc'[r] = "resolve"
<1>1. ~Handle(r) /\ ~Crash(r)
  BY DEF Handle, Resolve, LogQuestion, LogFails, FindAnswer, FilterRules, LoadHistory, Block,
     Decide, CheckCoupon, IssueCoupon, ReadUsage, CountRule, CountFails, StoreAnswer, Crash,
     InFlight, Idle
<1>2. PICK k \in Turns : Send(r, k)
  BY <1>1, OwnSteps
<1>3. at'[r] = Fresh(k) /\ pc'[r] = "resolve"
  BY <1>2 DEF Send, Keep, Goto, TypeOK
<1> QED BY <1>2, <1>3

\* An attempt that has ended stays so.
LEMMA Ended ==
  ASSUME TypeOK, [Next]_vars, NEW r \in Attempts, pc[r] \in {"done", "dead"}
  PROVE  at'[r] = at[r] /\ pc'[r] = pc[r] /\ reply'[r] = reply[r]
<1>1. ~Handle(r) /\ ~Crash(r) /\ \A k \in Turns : ~Send(r, k)
  BY DEF Handle, Resolve, LogQuestion, LogFails, FindAnswer, FilterRules, LoadHistory, Block,
     Decide, CheckCoupon, IssueCoupon, ReadUsage, CountRule, CountFails, StoreAnswer, Crash,
     InFlight, Idle, Send
<1> QED BY <1>1, OwnSteps

\* Where an attempt is, and what it has, tells its step.
LEMMA Reached ==
  ASSUME TypeInv, [Next]_vars, NEW r \in Attempts, pc'[r] # pc[r] \/ at'[r] # at[r]
  PROVE  /\ pc'[r] = "find" => LogQuestion(r)
         /\ pc'[r] = "filter" => LogQuestion(r) \/ LogFails(r) \/ FindAnswer(r)
         /\ pc'[r] = "history" => pc[r] = "filter"
         /\ pc'[r] = "decide" => pc[r] = "history"
         /\ pc'[r] = "issue" => CheckCoupon(r)
         /\ pc'[r] = "count" => ReadUsage(r)
<1>0. TypeOK
  BY DEF TypeInv
<1>1. ASSUME NEW k \in Turns, Send(r, k) PROVE pc'[r] = "resolve"
  BY <1>0, <1>1 DEF Send, Keep, Goto, TypeOK
<1>2. CASE Resolve(r) \/ LogQuestion(r) \/ LogFails(r) \/ FilterRules(r) \/ LoadHistory(r)
           \/ CheckCoupon(r) \/ IssueCoupon(r) \/ ReadUsage(r)
  BY <1>0, <1>2 DEF Resolve, LogQuestion, LogFails, Fallback, FilterRules, LoadHistory,
     CheckCoupon, IssueCoupon, ReadUsage, Keep, Goto, TypeOK
<1>3. CASE Block(r) \/ CountRule(r) \/ CountFails(r) \/ FindAnswer(r) \/ StoreAnswer(r) \/ Crash(r)
  BY <1>0, <1>3 DEF Block, CountRule, CountFails, FindAnswer, StoreAnswer, Answer, Crash, Goto,
     TypeOK
<1>4. CASE Decide(r)
  <2>1. pc'[r] \in {"check", "store", "read_usage"}
    BY <1>0, <1>4 DEF Decide, Keep, Goto, TypeOK
  <2> QED BY <2>1
<1> QED BY <1>0, <1>1, <1>2, <1>3, <1>4, OwnSteps DEF Handle

\* The question that an attempt stores and the answer that it stores.
QuestionOf(r) ==
  [conv |-> IF at[r].conv = 0 THEN Len(conversations) + 1 ELSE at[r].conv, role |-> "user",
   key |-> at[r].turn, of |-> at[r].turn, coupon |-> 0]
AnswerOf(r) ==
  [conv |-> at[r].conv, role |-> "assistant", of |-> at[r].turn, coupon |-> at[r].coupon,
   key |-> IF at[r].logged THEN at[r].turn ELSE None]

\* The messages change when a question or an answer is inserted.
LEMMA MessageSteps ==
  ASSUME [Next]_vars
  PROVE  \/ UNCHANGED messages
         \/ \E r \in Attempts : LogQuestion(r) /\ messages' = Inserted(QuestionOf(r))
         \/ \E r \in Attempts :
              StoreAnswer(r) /\ at[r].conv # 0 /\ messages' = Inserted(AnswerOf(r))
<1>1. ASSUME NEW r \in Attempts, LogQuestion(r) PROVE messages' = Inserted(QuestionOf(r))
  BY <1>1 DEF LogQuestion, QuestionOf
<1>2. ASSUME NEW r \in Attempts, StoreAnswer(r), ~UNCHANGED messages
      PROVE  at[r].conv # 0 /\ messages' = Inserted(AnswerOf(r))
  BY <1>2 DEF StoreAnswer, AnswerOf, Exists, CouponOfText
<1> QED BY <1>1, <1>2 DEF Next, vars, tables, Send, Handle, Resolve, LogFails, FindAnswer,
        FilterRules, LoadHistory, Block, Decide, CheckCoupon, IssueCoupon, ReadUsage, CountRule,
        CountFails, Crash, EndConversation, Tick

\* What is stored stays, and what is inserted is a question or an answer.
LEMMA MessagesGrow ==
  ASSUME TypeInv, [Next]_vars
  PROVE  /\ DOMAIN messages \subseteq DOMAIN messages'
         /\ \A i \in DOMAIN messages : messages'[i] = messages[i]
         /\ \A n \in DOMAIN messages' \ DOMAIN messages :
              /\ \A i \in DOMAIN messages : i < n
              /\ DOMAIN messages' = DOMAIN messages \union {n}
              /\ Len(messages') = Len(messages) + 1
              /\ \/ \E r \in Attempts :
                      /\ LogQuestion(r) /\ messages'[n] = QuestionOf(r)
                      /\ Stored(at[r].turn, "user") = {}
                 \/ \E r \in Attempts :
                      /\ StoreAnswer(r) /\ messages'[n] = AnswerOf(r)
                      /\ at[r].logged => Stored(at[r].turn, "assistant") = {}
<1>0. TypeOK /\ messages \in Seq(Message)
  BY DEF TypeInv, TypeOK
<1>1. CASE UNCHANGED messages
  BY <1>1
<1>2. ASSUME NEW r \in Attempts, LogQuestion(r), messages' = Inserted(QuestionOf(r))
      PROVE  /\ QuestionOf(r) \in Message /\ QuestionOf(r).key = at[r].turn /\ at[r].turn # None
             /\ QuestionOf(r).role = "user"
  <2>1. at[r] \in Memory
    BY <1>2, InMemory DEF LogQuestion
  <2>2. Len(conversations) \in Nat
    BY <1>0, LenProperties DEF TypeOK
  <2> QED BY <2>1, <2>2, ChatAssumption DEF QuestionOf, Memory, Message
<1>3. ASSUME NEW r \in Attempts, StoreAnswer(r), at[r].conv # 0
      PROVE  /\ AnswerOf(r) \in Message /\ AnswerOf(r).role = "assistant"
             /\ at[r].logged => AnswerOf(r).key = at[r].turn /\ at[r].turn # None
  <2>1. at[r] \in Memory
    BY <1>3, InMemory DEF StoreAnswer
  <2> QED BY <1>3, <2>1, ChatAssumption DEF AnswerOf, Memory, Message
<1>4. ASSUME NEW msg \in Message, messages' = Append(messages, msg)
      PROVE  /\ DOMAIN messages \subseteq DOMAIN messages'
             /\ \A i \in DOMAIN messages : messages'[i] = messages[i]
             /\ \A n \in DOMAIN messages' \ DOMAIN messages :
                  /\ \A i \in DOMAIN messages : i < n
                  /\ DOMAIN messages' = DOMAIN messages \union {n}
                  /\ Len(messages') = Len(messages) + 1
                  /\ messages'[n] = msg
  BY <1>0, <1>4, Added
<1>5. ASSUME NEW r \in Attempts, LogQuestion(r), messages' = Inserted(QuestionOf(r)),
             ~UNCHANGED messages
      PROVE  messages' = Append(messages, QuestionOf(r)) /\ Stored(at[r].turn, "user") = {}
  BY <1>2, <1>5 DEF Inserted
<1>6. ASSUME NEW r \in Attempts, StoreAnswer(r), at[r].conv # 0, messages' = Inserted(AnswerOf(r)),
             ~UNCHANGED messages
      PROVE  /\ messages' = Append(messages, AnswerOf(r))
             /\ at[r].logged => Stored(at[r].turn, "assistant") = {}
  BY <1>3, <1>6 DEF Inserted
<1>7. CASE \E r \in Attempts : LogQuestion(r) /\ messages' = Inserted(QuestionOf(r))
  <2>1. PICK r \in Attempts : LogQuestion(r) /\ messages' = Inserted(QuestionOf(r))
    BY <1>7
  <2>2. CASE ~UNCHANGED messages
    <3>1. PICK msg \in Message : msg = QuestionOf(r)
      BY <1>2, <2>1
    <3>2. messages' = Append(messages, msg) /\ Stored(at[r].turn, "user") = {}
      BY <1>5, <2>1, <2>2, <3>1
    <3> QED BY <1>4, <2>1, <3>1, <3>2
  <2> QED BY <1>1, <2>2
<1>8. CASE \E r \in Attempts : StoreAnswer(r) /\ at[r].conv # 0 /\ messages' = Inserted(AnswerOf(r))
  <2>1. PICK r \in Attempts : StoreAnswer(r) /\ at[r].conv # 0 /\ messages' = Inserted(AnswerOf(r))
    BY <1>8
  <2>2. CASE ~UNCHANGED messages
    <3>1. PICK msg \in Message : msg = AnswerOf(r)
      BY <1>3, <2>1
    <3>2. /\ messages' = Append(messages, msg)
          /\ at[r].logged => Stored(at[r].turn, "assistant") = {}
      BY <1>6, <2>1, <2>2, <3>1
    <3> QED BY <1>4, <2>1, <3>1, <3>2
  <2> QED BY <1>1, <2>2
<1> QED BY <1>1, <1>7, <1>8, MessageSteps

\* Coupons stay, and the attempt that issues one has it in memory if it learnt it.
LEMMA CouponsGrow ==
  ASSUME TypeInv, [Next]_vars
  PROVE  \/ UNCHANGED coupons /\ \A r \in Attempts : ~IssueCoupon(r) \/ at'[r].coupon = at[r].coupon
         \/ \E r \in Attempts, known \in BOOLEAN :
              /\ IssueCoupon(r) /\ pc[r] = "issue" /\ pc'[r] = "read_usage"
              /\ CouponOf(r, known) \in Coupon /\ coupons' = Append(coupons, CouponOf(r, known))
              /\ known => at'[r] = [at[r] EXCEPT !.coupon = Len(coupons) + 1]
              /\ ~known => at'[r] = at[r]
              /\ DOMAIN coupons' = DOMAIN coupons \union {Len(coupons) + 1}
              /\ Len(coupons) + 1 \notin DOMAIN coupons
              /\ \A n \in DOMAIN coupons : coupons'[n] = coupons[n]
              /\ coupons'[Len(coupons) + 1] = CouponOf(r, known)
<1>0. TypeOK /\ coupons \in Seq(Coupon)
  BY DEF TypeInv, TypeOK
<1>1. ASSUME NEW r \in Attempts, IssueCoupon(r), NEW known \in BOOLEAN,
             coupons' = Append(coupons, CouponOf(r, known))
      PROVE  /\ CouponOf(r, known) \in Coupon
             /\ DOMAIN coupons' = DOMAIN coupons \union {Len(coupons) + 1}
             /\ Len(coupons) + 1 \notin DOMAIN coupons
             /\ \A n \in DOMAIN coupons : coupons'[n] = coupons[n]
             /\ coupons'[Len(coupons) + 1] = CouponOf(r, known)
  <2>1. at[r] \in Memory /\ at[r].rule \in Rules
    BY <1>1, InMemory DEF IssueCoupon, TypeInv, OfRule
  <2>2. Customer(r) \in Customers \union {None}
    BY <2>1, ChatAssumption DEF Customer, Memory
  <2>3. CouponOf(r, known) \in Coupon
    BY <2>1, <2>2 DEF CouponOf, Coupon, Memory
  <2>4. PICK c \in Coupon : c = CouponOf(r, known)
    BY <2>3
  <2> QED BY <1>0, <1>1, <2>3, <2>4, Added
<1>2. ASSUME NEW r \in Attempts, IssueCoupon(r)
      PROVE  /\ pc[r] = "issue" /\ pc'[r] = "read_usage"
             /\ \/ /\ coupons' = Append(coupons, CouponOf(r, TRUE))
                   /\ at'[r] = [at[r] EXCEPT !.coupon = Len(coupons) + 1]
                \/ coupons' = Append(coupons, CouponOf(r, FALSE)) /\ UNCHANGED at
                \/ UNCHANGED <<coupons, at>>
  BY <1>0, <1>2 DEF IssueCoupon, Keep, Goto, TypeOK
<1>3. CASE \E r \in Attempts : IssueCoupon(r)
  <2>1. PICK r \in Attempts : IssueCoupon(r)
    BY <1>3
  <2>2. CASE UNCHANGED <<coupons, at>>
    BY <2>2
  <2>3. CASE /\ coupons' = Append(coupons, CouponOf(r, TRUE))
             /\ at'[r] = [at[r] EXCEPT !.coupon = Len(coupons) + 1]
    BY <1>1, <1>2, <2>1, <2>3
  <2>4. CASE coupons' = Append(coupons, CouponOf(r, FALSE)) /\ UNCHANGED at
    BY <1>1, <1>2, <2>1, <2>4
  <2> QED BY <1>2, <2>1, <2>2, <2>3, <2>4
<1>4. CASE ~\E r \in Attempts : IssueCoupon(r)
  <2>1. UNCHANGED coupons
    BY <1>4 DEF Next, vars, tables, Send, Handle, Resolve, LogQuestion, LogFails, FindAnswer,
       FilterRules, LoadHistory, Block, Decide, CheckCoupon, ReadUsage, CountRule,
       CountFails, StoreAnswer, Crash, EndConversation, Tick
  <2> QED BY <1>4, <2>1
<1> QED BY <1>3, <1>4

\* An attempt keeps its question, and its coupon but for the step that issues it.
LEMMA Remembers ==
  ASSUME TypeInv, [Next]_vars, NEW r \in Attempts, pc[r] # "idle"
  PROVE  /\ pc'[r] # "idle" /\ at'[r].turn = at[r].turn
         /\ at'[r].coupon = at[r].coupon \/ IssueCoupon(r)
<1>0. TypeOK /\ at[r] \in Memory
  BY InMemory DEF TypeInv
<1>1. ASSUME NEW m \in Memory, NEW l \in Labels \ {"idle"}, Keep(r, m, l), m.turn = at[r].turn
      PROVE  pc'[r] # "idle" /\ at'[r] = m
  BY <1>0, <1>1 DEF Keep, Goto, TypeOK
<1>2. ASSUME NEW l \in Labels \ {"idle"}, Goto(r, l) PROVE pc'[r] # "idle"
  BY <1>0, <1>2 DEF Goto, TypeOK
<1>3. pc'[r] # "idle"
  <2>1. CASE Handle(r)
    <3>1. CASE Resolve(r) \/ LogQuestion(r) \/ LogFails(r) \/ FilterRules(r) \/ LoadHistory(r)
               \/ CheckCoupon(r) \/ IssueCoupon(r) \/ ReadUsage(r)
      BY <1>0, <3>1 DEF Resolve, LogQuestion, LogFails, Fallback, FilterRules, LoadHistory,
         CheckCoupon, IssueCoupon, ReadUsage, Keep, Goto, TypeOK
    <3>2. CASE Block(r) \/ CountRule(r) \/ CountFails(r) \/ FindAnswer(r) \/ StoreAnswer(r)
      BY <1>0, <3>2 DEF Block, CountRule, CountFails, FindAnswer, StoreAnswer, Answer, Goto, TypeOK
    <3>3. CASE Decide(r)
      BY <1>0, <3>3 DEF Decide, Keep, Goto, TypeOK
    <3> QED BY <2>1, <3>1, <3>2, <3>3 DEF Handle
  <2>2. CASE Crash(r)
    BY <1>0, <2>2 DEF Crash, Goto, TypeOK
  <2>3. \A k : ~Send(r, k)
    BY DEF Send
  <2> QED BY <1>0, <2>1, <2>2, <2>3, OwnSteps
<1>4. \/ at'[r] = at[r]
      \/ \E conv : at'[r] = [at[r] EXCEPT !.conv = conv]
      \/ \E conv, created :
           at'[r] = [at[r] EXCEPT !.conv = conv, !.logged = TRUE, !.created = created]
      \/ \E kept : at'[r] = [at[r] EXCEPT !.kept = kept]
      \/ \E first : at'[r] = [at[r] EXCEPT !.first = first]
      \/ \E rule : at'[r] = [at[r] EXCEPT !.rule = rule]
      \/ \E checked : at'[r] = [at[r] EXCEPT !.checked = checked]
      \/ \E coupon : IssueCoupon(r) /\ at'[r] = [at[r] EXCEPT !.coupon = coupon]
      \/ \E seen : at'[r] = [at[r] EXCEPT !.seen = seen]
  <2>0. ASSUME NEW m, NEW l, Keep(r, m, l) PROVE at'[r] = m
    BY <1>0, <2>0 DEF Keep, TypeOK
  <2>1. CASE Resolve(r) \/ LogFails(r)
    BY <2>0, <2>1 DEF Resolve, LogFails, Fallback
  <2>2. CASE LogQuestion(r)
    <3>1. CASE Fallback(r)
      BY <2>0, <3>1 DEF Fallback
    <3>2. CASE ~Fallback(r)
      <4>1. PICK conv, created, l :
              Keep(r, [at[r] EXCEPT !.conv = conv, !.logged = TRUE, !.created = created], l)
        BY <2>2, <3>2, Zenon DEF LogQuestion
      <4> QED BY <2>0, <4>1
    <3> QED BY <3>1, <3>2
  <2>3. CASE FilterRules(r)
    BY <2>0, <2>3 DEF FilterRules
  <2>4. CASE LoadHistory(r)
    BY <2>0, <2>4 DEF LoadHistory
  <2>5. CASE Decide(r)
    BY <2>0, <2>5 DEF Decide
  <2>6. CASE CheckCoupon(r)
    BY <2>0, <2>6 DEF CheckCoupon
  <2>7. CASE IssueCoupon(r)
    BY <2>0, <2>7 DEF IssueCoupon
  <2>8. CASE ReadUsage(r)
    BY <2>0, <2>8 DEF ReadUsage
  <2>9. CASE Block(r) \/ CountRule(r) \/ CountFails(r) \/ FindAnswer(r) \/ StoreAnswer(r)
             \/ Crash(r)
    BY <2>9 DEF Block, CountRule, CountFails, FindAnswer, StoreAnswer, Crash
  <2>10. \A k : ~Send(r, k)
    BY DEF Send
  <2> QED BY <1>0, <2>1, <2>2, <2>3, <2>4, <2>5, <2>6, <2>7, <2>8, <2>9, <2>10, OwnSteps DEF Handle
<1>5. at'[r].turn = at[r].turn /\ (at'[r].coupon = at[r].coupon \/ IssueCoupon(r))
  BY <1>0, <1>4 DEF Memory
<1> QED BY <1>3, <1>5

--------------------------------------------------------------------------------
(* Coupons.  A coupon is in the memory of the attempt that learnt that it  *)
(* issued it, and nowhere else; whoever issued one has only to count its   *)
(* rule and to answer.                                                     *)

Late == {"read_usage", "count", "store", "done", "dead"}

CouponInv ==
  /\ \A n \in DOMAIN coupons :
       LET r == coupons[n].by
       IN /\ pc[r] \in Late
          /\ coupons[n].known =>
               at[r].coupon = n /\ (pc[r] = "done" => reply[r].coupon = n)
  /\ \A r \in Attempts : pc[r] # "idle" /\ at[r].coupon # 0 =>
       at[r].coupon \in DOMAIN coupons /\ coupons[at[r].coupon].by = r
  /\ \A i \in DOMAIN messages :
       LET n == messages[i].coupon
       IN n # 0 => n \in DOMAIN coupons /\ at[coupons[n].by].turn = messages[i].of

\* There is no coupon at first.
LEMMA CouponInit == Init => CouponInv
BY DEF Init, CouponInv

\* An attempt that is done with the coupon of its rule counts it and answers.
LEMMA LateSteps ==
  ASSUME TypeInv, [Next]_vars, NEW r \in Attempts, pc[r] \in Late
  PROVE  /\ pc'[r] \in Late /\ at'[r].coupon = at[r].coupon
         /\ pc'[r] = "done" =>
              \/ pc[r] = "done" /\ reply'[r] = reply[r]
              \/ reply'[r].coupon = at[r].coupon
<1>0. TypeOK /\ at[r] \in Memory /\ pc[r] # "idle"
  BY InMemory DEF TypeInv, Late
<1>1. at'[r].coupon = at[r].coupon
  BY <1>0, Remembers DEF IssueCoupon, Late
<1>2. CASE ReadUsage(r) \/ CountRule(r) \/ CountFails(r) \/ Crash(r)
  BY <1>0, <1>1, <1>2 DEF ReadUsage, CountRule, CountFails, Crash, Keep, Goto, Late, TypeOK
<1>3. CASE StoreAnswer(r)
  BY <1>0, <1>1, <1>3 DEF StoreAnswer, CouponOfText, Answer, Goto, Late, TypeOK
<1>4. CASE at'[r] = at[r] /\ pc'[r] = pc[r] /\ reply'[r] = reply[r]
  BY <1>1, <1>4
<1>5. /\ \A k : ~Send(r, k)
      /\ ~Resolve(r) /\ ~LogQuestion(r) /\ ~LogFails(r) /\ ~FindAnswer(r) /\ ~FilterRules(r)
      /\ ~LoadHistory(r) /\ ~Block(r) /\ ~Decide(r) /\ ~CheckCoupon(r) /\ ~IssueCoupon(r)
  BY DEF Send, Resolve, LogQuestion, LogFails, FindAnswer, FilterRules, LoadHistory, Block, Decide,
     CheckCoupon, IssueCoupon, Late
<1> QED BY <1>0, <1>2, <1>3, <1>4, <1>5, OwnSteps DEF Handle

\* Every step keeps the coupons with those that issued them.
LEMMA CouponStep == TypeInv /\ CouponInv /\ [Next]_vars => CouponInv'
<1> SUFFICES ASSUME TypeInv, CouponInv, [Next]_vars PROVE CouponInv'
  OBVIOUS
<1>0. TypeOK /\ TypeOK' /\ TypeInv'
  BY TypeStep DEF TypeInv
<1>1. /\ DOMAIN coupons \subseteq DOMAIN coupons'
      /\ \A n \in DOMAIN coupons : coupons'[n] = coupons[n]
  BY CouponsGrow
<1>2. \A n \in DOMAIN coupons : coupons[n].by \in Attempts /\ n \in Nat \ {0}
  BY <1>0, Rows DEF Coupon
<1>3. ASSUME NEW n \in DOMAIN coupons'
      PROVE  LET r == coupons'[n].by
             IN /\ pc'[r] \in Late
                /\ coupons'[n].known =>
                     at'[r].coupon = n /\ (pc'[r] = "done" => reply'[r].coupon = n)
  <2>1. CASE n \in DOMAIN coupons
    <3>1. PICK r \in Attempts : r = coupons[n].by
      BY <1>2, <2>1
    <3>2. /\ pc[r] \in Late
          /\ coupons[n].known => at[r].coupon = n /\ (pc[r] = "done" => reply[r].coupon = n)
      BY <2>1, <3>1 DEF CouponInv
    <3>3. /\ pc'[r] \in Late
          /\ coupons[n].known => at'[r].coupon = n /\ (pc'[r] = "done" => reply'[r].coupon = n)
      BY <3>2, LateSteps
    <3> QED BY <1>1, <2>1, <3>1, <3>3
  <2>2. CASE n \notin DOMAIN coupons
    <3>1. PICK r \in Attempts, known \in BOOLEAN :
            /\ pc[r] = "issue" /\ pc'[r] = "read_usage"
            /\ known => at'[r] = [at[r] EXCEPT !.coupon = Len(coupons) + 1]
            /\ DOMAIN coupons' = DOMAIN coupons \union {Len(coupons) + 1}
            /\ coupons'[Len(coupons) + 1] = CouponOf(r, known)
      BY <2>2, CouponsGrow
    <3>2. n = Len(coupons) + 1 /\ coupons'[n].by = r /\ coupons'[n].known = known
      BY <2>2, <3>1 DEF CouponOf
    <3>3. at[r] \in Memory
      BY <3>1, InMemory
    <3>4. known => at'[r].coupon = n
      BY <3>1, <3>2, <3>3 DEF Memory
    <3> QED BY <3>1, <3>2, <3>4 DEF Late
  <2> QED BY <2>1, <2>2
<1>4. ASSUME NEW r \in Attempts, pc'[r] # "idle", at'[r].coupon # 0
      PROVE  at'[r].coupon \in DOMAIN coupons' /\ coupons'[at'[r].coupon].by = r
  <2>1. CASE pc[r] # "idle" /\ at'[r].coupon = at[r].coupon
    BY <1>1, <1>4, <2>1 DEF CouponInv
  <2>2. CASE pc[r] # "idle" /\ at'[r].coupon # at[r].coupon
    <3>1. IssueCoupon(r)
      BY <2>2, Remembers
    <3>2. PICK q \in Attempts, known \in BOOLEAN :
            /\ IssueCoupon(q) /\ pc[q] = "issue" /\ pc'[q] = "read_usage"
            /\ known => at'[q] = [at[q] EXCEPT !.coupon = Len(coupons) + 1]
            /\ ~known => at'[q] = at[q]
            /\ DOMAIN coupons' = DOMAIN coupons \union {Len(coupons) + 1}
            /\ coupons'[Len(coupons) + 1] = CouponOf(q, known)
      BY <2>2, <3>1, CouponsGrow
    <3>3. q = r
      BY <1>0, <3>1, <3>2 DEF IssueCoupon, Keep, Goto, TypeOK
    <3>4. at[r] \in Memory
      BY <2>2, InMemory
    <3>5. at'[r].coupon = Len(coupons) + 1
      BY <2>2, <3>2, <3>3, <3>4 DEF Memory
    <3> QED BY <3>2, <3>3, <3>5 DEF CouponOf
  <2>3. CASE pc[r] = "idle"
    <3>1. \E k : at'[r] = Fresh(k)
      BY <1>0, <1>4, <2>3, Starts
    <3> QED BY <1>4, <3>1 DEF Fresh
  <2> QED BY <2>1, <2>2, <2>3
<1>5. ASSUME NEW i \in DOMAIN messages', messages'[i].coupon # 0
      PROVE  LET n == messages'[i].coupon
             IN n \in DOMAIN coupons' /\ at'[coupons'[n].by].turn = messages'[i].of
  <2>1. CASE i \in DOMAIN messages
    <3>1. PICK n : n = messages[i].coupon
      OBVIOUS
    <3>2. messages'[i] = messages[i]
      BY <2>1, MessagesGrow
    <3>3. n \in DOMAIN coupons /\ at[coupons[n].by].turn = messages[i].of
      BY <1>5, <2>1, <3>1, <3>2 DEF CouponInv
    <3>4. PICK r \in Attempts : r = coupons[n].by /\ pc[r] # "idle"
      BY <1>2, <3>3 DEF CouponInv, Late
    <3>5. at'[r].turn = at[r].turn
      BY <3>4, Remembers
    <3> QED BY <1>1, <3>1, <3>2, <3>3, <3>4, <3>5
  <2>2. CASE i \notin DOMAIN messages
    <3>1. PICK r \in Attempts : StoreAnswer(r) /\ messages'[i] = AnswerOf(r)
      <4>1. \A r : QuestionOf(r).coupon = 0
        BY DEF QuestionOf
      <4> QED BY <1>5, <2>2, <4>1, MessagesGrow
    <3>2. messages'[i].coupon = at[r].coupon /\ messages'[i].of = at[r].turn /\ pc[r] = "store"
      BY <3>1 DEF AnswerOf, StoreAnswer
    <3>3. at[r].coupon \in DOMAIN coupons /\ coupons[at[r].coupon].by = r
      BY <1>5, <3>2 DEF CouponInv
    <3>4. at'[r].turn = at[r].turn
      BY <3>2, Remembers
    <3> QED BY <1>1, <3>2, <3>3, <3>4
  <2> QED BY <2>1, <2>2
<1> QED BY <1>3, <1>4, <1>5 DEF CouponInv

\* No coupon is lost on the way to the visitor or shown to another one: an
\* attempt that learnt that it issued one and was answered shows it, and the coupon in
\* a stored answer was issued at that turn, however attempts interleave, fail and die.
THEOREM CouponsShown == Spec => []CouponShown
<1>1. CouponInv => CouponShown
  BY DEF CouponInv, CouponShown
<1> QED BY <1>1, CouponInit, CouponStep, TypeInvariant, PTL DEF Spec

--------------------------------------------------------------------------------
(* Turns.  The question of a turn is stored once, its answer at most once, *)
(* afterwards and in the same conversation: an attempt that logged the     *)
(* question goes on in the conversation of the stored one, even if it made *)
(* another before.                                                         *)

TurnInv ==
  /\ \A k \in Turns, role \in {"user", "assistant"} : \A i, n \in Stored(k, role) : i = n
  /\ \A k \in Turns : \A i \in Stored(k, "assistant") :
       \E n \in Stored(k, "user") : n < i /\ messages[n].conv = messages[i].conv
  /\ \A r \in Attempts : pc[r] # "idle" /\ at[r].logged =>
       \E n \in Stored(at[r].turn, "user") : messages[n].conv = at[r].conv
  /\ \A r \in Attempts : pc[r] \in {"resolve", "log"} => ~at[r].logged

\* There is no message at first.
LEMMA TurnInit == Init => TurnInv
BY DEF Init, TurnInv, Stored

\* The messages of a turn after a step.
LEMMA StoredGrows ==
  ASSUME TypeInv, [Next]_vars, NEW k \in Turns, NEW role
  PROVE  /\ Stored(k, role) \subseteq Stored(k, role)'
         /\ \A i \in Stored(k, role) : messages'[i] = messages[i]
         /\ \A n \in Stored(k, role)' \ Stored(k, role) :
              /\ n \in DOMAIN messages' \ DOMAIN messages
              /\ messages'[n].key = k /\ messages'[n].role = role
BY MessagesGrow DEF Stored

\* The first steps of an attempt: until the question is stored, or not.
LEMMA FirstSteps ==
  ASSUME TypeInv, [Next]_vars, NEW r \in Attempts, pc[r] \in {"resolve", "log"}
  PROVE  \/ LogQuestion(r) /\ pc'[r] \in {"filter", "find"}
         \/ at'[r].logged = at[r].logged
<1>0. TypeOK /\ at[r] \in Memory
  BY InMemory DEF TypeInv
<1>1. CASE LogQuestion(r)
  <2>1. \E l \in {"filter", "find"} : Goto(r, l)
    BY <1>1 DEF LogQuestion, Fallback, Keep
  <2> QED BY <1>0, <1>1, <2>1 DEF Goto, TypeOK
<1>2. CASE Resolve(r)
  <2>1. \E conv : at'[r] = [at[r] EXCEPT !.conv = conv]
    BY <1>0, <1>2 DEF Resolve, Keep, TypeOK
  <2> QED BY <1>0, <2>1 DEF Memory
<1>3. CASE LogFails(r)
  <2>1. \E conv : at'[r] = [at[r] EXCEPT !.conv = conv]
    BY <1>0, <1>3 DEF LogFails, Fallback, Keep, TypeOK
  <2> QED BY <1>0, <2>1 DEF Memory
<1>4. CASE Crash(r)
  BY <1>4 DEF Crash
<1>5. /\ \A k : ~Send(r, k)
      /\ ~FindAnswer(r) /\ ~FilterRules(r) /\ ~LoadHistory(r) /\ ~Block(r) /\ ~Decide(r)
      /\ ~CheckCoupon(r) /\ ~IssueCoupon(r) /\ ~ReadUsage(r) /\ ~CountRule(r) /\ ~CountFails(r)
      /\ ~StoreAnswer(r)
  BY DEF Send, FindAnswer, FilterRules, LoadHistory, Block, Decide, CheckCoupon, IssueCoupon,
     ReadUsage, CountRule, CountFails, StoreAnswer
<1> QED BY <1>0, <1>1, <1>2, <1>3, <1>4, <1>5, OwnSteps DEF Handle

\* From then on it stays in its conversation.
LEMMA Continues ==
  ASSUME TypeInv, [Next]_vars, NEW r \in Attempts, pc[r] \notin {"idle", "resolve", "log"}
  PROVE  /\ pc'[r] \notin {"idle", "resolve", "log"}
         /\ at'[r].conv = at[r].conv /\ at'[r].logged = at[r].logged
<1>0. TypeOK /\ at[r] \in Memory
  BY InMemory DEF TypeInv
<1>1. ASSUME NEW m, NEW l, Keep(r, m, l) PROVE at'[r] = m /\ pc'[r] = l
  BY <1>0, <1>1 DEF Keep, Goto, TypeOK
<1>2. ASSUME NEW l, Goto(r, l) PROVE pc'[r] = l
  BY <1>0, <1>2 DEF Goto, TypeOK
<1>3. CASE FilterRules(r)
  <2>1. \E kept : at'[r] = [at[r] EXCEPT !.kept = kept] /\ pc'[r] = "history"
    BY <1>1, <1>3 DEF FilterRules
  <2> QED BY <1>0, <2>1 DEF Memory
<1>4. CASE LoadHistory(r)
  <2>1. \E first : at'[r] = [at[r] EXCEPT !.first = first] /\ pc'[r] = "decide"
    BY <1>1, <1>4 DEF LoadHistory
  <2> QED BY <1>0, <2>1 DEF Memory
<1>5. CASE Decide(r)
  <2>1. \/ \E rule : /\ at'[r] = [at[r] EXCEPT !.rule = rule]
                     /\ pc'[r] \in {"read_usage", "check", "store"}
        \/ UNCHANGED at /\ pc'[r] = "store"
    <3>1. CASE TypeOf(Evaluated(at[r])) = "canned_response"
      BY <1>1, <1>5, <3>1 DEF Decide
    <3>2. CASE TypeOf(Evaluated(at[r])) # "canned_response"
      <4>1. CASE Goto(r, "store") /\ UNCHANGED at
        BY <1>2, <4>1
      <4>2. CASE ~(Goto(r, "store") /\ UNCHANGED at)
        <5>1. \E l \in {"check", "store", "read_usage"} :
                Keep(r, [at[r] EXCEPT !.rule = Evaluated(at[r])], l)
          BY <1>5, <3>2, <4>2 DEF Decide
        <5> QED BY <1>1, <5>1
      <4> QED BY <4>1, <4>2
    <3> QED BY <3>1, <3>2
  <2> QED BY <1>0, <2>1 DEF Memory
<1>6. CASE CheckCoupon(r)
  <2>1. \/ \E c : at'[r] = [at[r] EXCEPT !.checked = c] /\ pc'[r] = "issue"
        \/ UNCHANGED at /\ pc'[r] = "read_usage"
    BY <1>1, <1>2, <1>6 DEF CheckCoupon
  <2> QED BY <1>0, <2>1 DEF Memory
<1>7. CASE IssueCoupon(r)
  <2>1. \/ \E c : at'[r] = [at[r] EXCEPT !.coupon = c] /\ pc'[r] = "read_usage"
        \/ UNCHANGED at /\ pc'[r] = "read_usage"
    BY <1>1, <1>2, <1>7 DEF IssueCoupon
  <2> QED BY <1>0, <2>1 DEF Memory
<1>8. CASE ReadUsage(r)
  <2>1. \E c : at'[r] = [at[r] EXCEPT !.seen = c] /\ pc'[r] = "count"
    BY <1>1, <1>8 DEF ReadUsage
  <2> QED BY <1>0, <2>1 DEF Memory
<1>9. CASE Block(r) \/ CountRule(r) \/ CountFails(r) \/ StoreAnswer(r) \/ Crash(r)
  BY <1>2, <1>9 DEF Block, CountRule, CountFails, StoreAnswer, Answer, Crash
<1>10. CASE FindAnswer(r)
  BY <1>2, <1>10 DEF FindAnswer, Answer
<1>11. /\ \A k : ~Send(r, k)
       /\ ~Resolve(r) /\ ~LogQuestion(r) /\ ~LogFails(r)
  BY DEF Send, Resolve, LogQuestion, LogFails
<1> QED BY <1>0, <1>3, <1>4, <1>5, <1>6, <1>7, <1>8, <1>9, <1>10, <1>11, OwnSteps DEF Handle

\* The attempt that finds or stores the question, and learns it, goes on in its
\* conversation.
LEMMA LogsQuestion ==
  ASSUME TypeInv, TurnInv, [Next]_vars, NEW r \in Attempts, LogQuestion(r), at'[r].logged
  PROVE  /\ at'[r].turn = at[r].turn
         /\ \E n \in Stored(at[r].turn, "user")' : messages'[n].conv = at'[r].conv
<1> DEFINE k == at[r].turn
           stored == Stored(k, "user")
           conv == QuestionOf(r).conv
<1>0. TypeOK /\ at[r] \in Memory /\ k \in Turns /\ pc[r] = "log"
  BY InMemory DEF TypeInv, LogQuestion, Memory
<1>1. at'[r].turn = k
  BY <1>0, Remembers
<1>2. at'[r].conv = ConversationOf(conv, stored)
  <2>1. PICK c, created, l :
          /\ c = ConversationOf(conv, stored)
          /\ Keep(r, [at[r] EXCEPT !.conv = c, !.logged = TRUE, !.created = created], l)
    <3>1. ASSUME Fallback(r) PROVE FALSE
      <4>1. at'[r] = [at[r] EXCEPT !.conv = sent[at[r].turn]] /\ ~at[r].logged
        BY <1>0, <3>1 DEF Fallback, Keep, TurnInv, TypeOK
      <4> QED BY <1>0, <4>1 DEF Memory
    <3> QED BY <3>1 DEF LogQuestion, QuestionOf
  <2>2. at'[r] = [at[r] EXCEPT !.conv = c, !.logged = TRUE, !.created = created]
    BY <1>0, <2>1 DEF Keep, TypeOK
  <2> QED BY <1>0, <2>1, <2>2 DEF Memory
<1>3. CASE stored # {}
  <2>1. (CHOOSE i \in stored : TRUE) \in stored
    BY <1>3
  <2>2. at'[r].conv = messages[CHOOSE i \in stored : TRUE].conv
    BY <1>2, <1>3 DEF ConversationOf
  <2>3. PICK n : n = CHOOSE i \in stored : TRUE
    OBVIOUS
  <2>4. n \in Stored(k, "user") /\ messages[n].conv = at'[r].conv
    BY <2>1, <2>2, <2>3
  <2> QED BY <1>0, <1>1, <2>4, StoredGrows
<1>4. CASE stored = {}
  <2>1. at'[r].conv = conv
    BY <1>2, <1>4 DEF ConversationOf
  <2>2. messages' = Append(messages, QuestionOf(r))
    BY <1>4 DEF LogQuestion, QuestionOf, Inserted
  <2>3. QuestionOf(r) \in Message
    <3>1. Len(conversations) \in Nat
      BY <1>0, LenProperties DEF TypeOK
    <3> QED BY <1>0, <3>1 DEF QuestionOf, Memory, Message
  <2>4. /\ Len(messages) + 1 \in DOMAIN messages'
        /\ messages'[Len(messages) + 1] = QuestionOf(r)
    BY <1>0, <2>2, <2>3, Added DEF TypeOK
  <2>5. QuestionOf(r).key = k /\ QuestionOf(r).role = "user"
    BY DEF QuestionOf
  <2> HIDE DEF conv
  <2>6. \A q \in Turns : q = k => Len(messages) + 1 \in Stored(q, "user")'
    BY <2>4, <2>5 DEF Stored
  <2>7. messages'[Len(messages) + 1].conv = at'[r].conv
    BY <2>1, <2>4 DEF conv
  <2> QED BY <1>0, <1>1, <2>6, <2>7
<1> QED BY <1>1, <1>3, <1>4

\* A message of a turn is inserted by an attempt at this turn, when there is none
\* of its role.
LEMMA TurnGrows ==
  ASSUME TypeInv, [Next]_vars, NEW k \in Turns, NEW role \in {"user", "assistant"},
         NEW n \in Stored(k, role)' \ Stored(k, role)
  PROVE  /\ n \in DOMAIN messages' \ DOMAIN messages
         /\ Stored(k, role) = {} /\ \A i \in Stored(k, role)' : i = n
         /\ \/ /\ role = "user"
               /\ \E r \in Attempts :
                    /\ LogQuestion(r) /\ messages'[n] = QuestionOf(r) /\ at[r].turn = k
            \/ /\ role = "assistant"
               /\ \E r \in Attempts :
                    /\ StoreAnswer(r) /\ messages'[n] = AnswerOf(r) /\ at[r].turn = k
                    /\ at[r].logged
<1>1. /\ n \in DOMAIN messages' \ DOMAIN messages
      /\ messages'[n].key = k /\ messages'[n].role = role
  BY StoredGrows
<1>2. DOMAIN messages' = DOMAIN messages \union {n}
  BY <1>1, MessagesGrow
<1>3. \A i \in Stored(k, role)' : i \in Stored(k, role) \/ i = n
  <2>1. ASSUME NEW i \in Stored(k, role)', i # n PROVE i \in Stored(k, role)
    <3>1. i \in DOMAIN messages /\ messages'[i].key = k /\ messages'[i].role = role
      BY <1>2, <2>1 DEF Stored
    <3>2. messages'[i] = messages[i]
      BY <3>1, MessagesGrow
    <3> QED BY <3>1, <3>2 DEF Stored
  <2> QED BY <2>1
<1>4. ASSUME NEW r \in Attempts, LogQuestion(r), messages'[n] = QuestionOf(r),
             Stored(at[r].turn, "user") = {}
      PROVE  at[r].turn = k /\ role = "user" /\ Stored(k, role) = {}
  BY <1>1, <1>4 DEF QuestionOf
<1>5. ASSUME NEW r \in Attempts, StoreAnswer(r), messages'[n] = AnswerOf(r),
             at[r].logged => Stored(at[r].turn, "assistant") = {}
      PROVE  at[r].logged /\ at[r].turn = k /\ role = "assistant" /\ Stored(k, role) = {}
  BY <1>1, <1>5, ChatAssumption DEF AnswerOf
<1>6. \/ \E r \in Attempts : /\ LogQuestion(r) /\ messages'[n] = QuestionOf(r)
                             /\ Stored(at[r].turn, "user") = {}
      \/ \E r \in Attempts : /\ StoreAnswer(r) /\ messages'[n] = AnswerOf(r)
                             /\ at[r].logged => Stored(at[r].turn, "assistant") = {}
  BY <1>1, MessagesGrow
<1> QED BY <1>1, <1>3, <1>4, <1>5, <1>6

\* Every step keeps the messages of a turn single and together.
LEMMA TurnStep == TypeInv /\ TurnInv /\ [Next]_vars => TurnInv'
<1> SUFFICES ASSUME TypeInv, TurnInv, [Next]_vars PROVE TurnInv'
  OBVIOUS
<1>0. TypeOK /\ TypeOK' /\ TypeInv'
  BY TypeStep DEF TypeInv
<1>1. ASSUME NEW k \in Turns, NEW role \in {"user", "assistant"},
             NEW i \in Stored(k, role)', NEW n \in Stored(k, role)'
      PROVE  i = n
  <2>1. CASE i \in Stored(k, role) /\ n \in Stored(k, role)
    BY <2>1 DEF TurnInv
  <2>2. CASE i \notin Stored(k, role) \/ n \notin Stored(k, role)
    BY <2>2, TurnGrows
  <2> QED BY <2>1, <2>2
<1>2. ASSUME NEW k \in Turns, NEW i \in Stored(k, "assistant")'
      PROVE  \E n \in Stored(k, "user")' : n < i /\ messages'[n].conv = messages'[i].conv
  <2>1. CASE i \in Stored(k, "assistant")
    <3>1. PICK n \in Stored(k, "user") : n < i /\ messages[n].conv = messages[i].conv
      BY <2>1 DEF TurnInv
    <3>2. n \in Stored(k, "user")' /\ messages'[n] = messages[n] /\ messages'[i] = messages[i]
      BY <2>1, <3>1, StoredGrows
    <3> QED BY <3>1, <3>2
  <2>2. CASE i \notin Stored(k, "assistant")
    <3>1. i \in DOMAIN messages' \ DOMAIN messages
      BY <2>2, TurnGrows
    <3>2. PICK r \in Attempts :
            /\ StoreAnswer(r) /\ messages'[i] = AnswerOf(r) /\ at[r].turn = k /\ at[r].logged
      BY <2>2, TurnGrows
    <3>3. pc[r] # "idle"
      BY <3>2 DEF StoreAnswer
    <3>4. PICK n \in Stored(k, "user") : messages[n].conv = at[r].conv
      BY <3>2, <3>3 DEF TurnInv
    <3>5. n \in Stored(k, "user")' /\ messages'[n] = messages[n] /\ n \in DOMAIN messages
      BY <3>4, StoredGrows DEF Stored
    <3>6. n < i
      BY <3>1, <3>5, MessagesGrow
    <3>7. messages'[i].conv = at[r].conv
      BY <3>2 DEF AnswerOf
    <3> QED BY <3>4, <3>5, <3>6, <3>7
  <2> QED BY <2>1, <2>2
<1>3. ASSUME NEW r \in Attempts, pc'[r] # "idle", at'[r].logged
      PROVE  \E n \in Stored(at[r].turn, "user")' : messages'[n].conv = at'[r].conv
  <2>0. at'[r].turn \in Turns
    <3>1. at'[r] \in Memory
      BY <1>0, <1>3 DEF TypeInv, TypeOK, Memory
    <3> QED BY <3>1 DEF Memory
  <2>1. ASSUME pc[r] # "idle", at[r].logged, at'[r].conv = at[r].conv
        PROVE  \E n \in Stored(at[r].turn, "user")' : messages'[n].conv = at'[r].conv
    <3>1. at'[r].turn = at[r].turn
      BY <2>1, Remembers
    <3>2. PICK k \in Turns : k = at[r].turn
      BY <2>0, <3>1
    <3>3. PICK n \in Stored(k, "user") : messages[n].conv = at[r].conv
      BY <2>1, <3>2 DEF TurnInv
    <3>4. n \in Stored(k, "user")' /\ messages'[n] = messages[n]
      BY <3>3, StoredGrows
    <3> QED BY <2>1, <3>1, <3>2, <3>3, <3>4
  <2>2. CASE pc[r] \notin {"idle", "resolve", "log"}
    BY <1>3, <2>1, <2>2, Continues
  <2>3. CASE pc[r] \in {"resolve", "log"}
    <3>1. CASE LogQuestion(r)
      BY <1>3, <3>1, LogsQuestion
    <3>2. CASE at'[r].logged = at[r].logged
      BY <1>3, <2>3, <3>2 DEF TurnInv
    <3> QED BY <2>3, <3>1, <3>2, FirstSteps
  <2>4. CASE pc[r] = "idle"
    <3>1. \E k : at'[r] = Fresh(k)
      BY <1>0, <1>3, <2>4, Starts
    <3> QED BY <1>3, <3>1 DEF Fresh
  <2> QED BY <2>2, <2>3, <2>4
<1>4. ASSUME NEW r \in Attempts, pc'[r] \in {"resolve", "log"}
      PROVE  ~at'[r].logged
  <2>1. CASE pc[r] = "idle"
    <3>1. \E k : at'[r] = Fresh(k)
      BY <1>0, <1>4, <2>1, Starts
    <3> QED BY <3>1 DEF Fresh
  <2>2. CASE pc[r] \in {"resolve", "log"}
    <3>1. at'[r].logged = at[r].logged
      BY <1>4, <2>2, FirstSteps
    <3> QED BY <2>2, <3>1 DEF TurnInv
  <2>3. CASE pc[r] \notin {"idle", "resolve", "log"}
    BY <1>4, <2>3, Continues
  <2> QED BY <2>1, <2>2, <2>3
<1> QED BY <1>1, <1>2, <1>3, <1>4 DEF TurnInv

\* However attempts interleave, fail and die.
LEMMA TurnInvariant == Spec => []TurnInv
<1> QED BY TurnInit, TurnStep, TypeInvariant, PTL DEF Spec

\* What the abstract specification sees.
Asked == [k \in Turns |-> ConversationOfTurn(k, "user")]
Answers == [k \in Turns |-> ConversationOfTurn(k, "assistant")]

\* The only element of a set is the one that is chosen.
LEMMA OnlyOne ==
  ASSUME NEW S, NEW i \in S, \A n \in S : n = i
  PROVE  (CHOOSE n \in S : TRUE) = i
OBVIOUS

\* The conversation of a turn's stored message.
LEMMA StoredConversation ==
  ASSUME TypeInv, TurnInv, NEW k \in Turns, NEW role \in {"user", "assistant"},
         NEW i \in Stored(k, role)
  PROVE  ConversationOfTurn(k, role) = messages[i].conv /\ messages[i].conv \in Nat \ {0}
<1>1. (CHOOSE n \in Stored(k, role) : TRUE) = i
  BY OnlyOne DEF TurnInv
<1>2. messages[i] \in Message
  BY Rows DEF Stored, TypeInv
<1> QED BY <1>1, <1>2 DEF ConversationOfTurn, Message

\* A conversation of a turn does not change; it appears with the message.
LEMMA ConversationSteps ==
  ASSUME TypeInv, TurnInv, [Next]_vars, NEW k \in Turns, NEW role \in {"user", "assistant"}
  PROVE  /\ \A i \in Stored(k, role)' : ConversationOfTurn(k, role)' = messages'[i].conv
         /\ Stored(k, role)' \subseteq Stored(k, role) =>
              ConversationOfTurn(k, role)' = ConversationOfTurn(k, role)
<1>0. TypeInv' /\ TurnInv'
  BY TypeStep, TurnStep
<1>1. ASSUME NEW i \in Stored(k, role)' PROVE ConversationOfTurn(k, role)' = messages'[i].conv
  <2>1. (CHOOSE n \in Stored(k, role)' : TRUE) = i
    <3>1. \A n \in Stored(k, role)' : n = i
      BY <1>0 DEF TurnInv
    <3> QED BY <3>1, OnlyOne
  <2>2. ConversationOfTurn(k, role)' = messages'[CHOOSE n \in Stored(k, role)' : TRUE].conv
    BY DEF ConversationOfTurn
  <2> QED BY <2>1, <2>2
<1>2. CASE Stored(k, role) = {}
  BY <1>1, <1>2 DEF ConversationOfTurn
<1>3. CASE Stored(k, role) # {}
  <2>1. PICK i \in Stored(k, role) : TRUE
    BY <1>3
  <2>2. i \in Stored(k, role)' /\ messages'[i] = messages[i]
    BY <2>1, StoredGrows
  <2>3. ConversationOfTurn(k, role)' = messages'[i].conv
    BY <1>1, <2>2
  <2>4. ConversationOfTurn(k, role) = messages[i].conv
    BY StoredConversation
  <2> QED BY <1>1, <2>2, <2>3, <2>4
<1> QED BY <1>1, <1>2, <1>3

\* Every step asks or answers one turn, or none.
LEMMA TurnLogStep == TypeInv /\ TurnInv /\ [Next]_vars => [Log!Next]_<<Asked, Answers>>
<1> SUFFICES ASSUME TypeInv, TurnInv, [Next]_vars PROVE [Log!Next]_<<Asked, Answers>>
  OBVIOUS
<1>1. CASE \A k \in Turns, role \in {"user", "assistant"} :
             Stored(k, role)' \subseteq Stored(k, role)
  <2>1. \A k \in Turns, role \in {"user", "assistant"} :
          ConversationOfTurn(k, role)' = ConversationOfTurn(k, role)
    BY <1>1, ConversationSteps
  <2> QED BY <2>1 DEF Asked, Answers
<1>2. ASSUME NEW k \in Turns, NEW role \in {"user", "assistant"},
             NEW n \in Stored(k, role)' \ Stored(k, role)
      PROVE  Log!Ask(k) \/ Log!Answer(k)
  <2>1. /\ n \in DOMAIN messages' \ DOMAIN messages /\ Stored(k, role) = {}
        /\ messages'[n].key = k /\ messages'[n].role = role
    BY TurnGrows, StoredGrows
  <2>2. /\ ConversationOfTurn(k, role)' = messages'[n].conv
        /\ ConversationOfTurn(k, role) = None
    <3>1. ConversationOfTurn(k, role)' = messages'[n].conv
      BY ConversationSteps
    <3>2. ConversationOfTurn(k, role) = None
      BY <2>1 DEF ConversationOfTurn
    <3> QED BY <3>1, <3>2
  <2>3. ASSUME NEW j \in Turns, NEW o \in {"user", "assistant"}, j # k \/ o # role
        PROVE  ConversationOfTurn(j, o)' = ConversationOfTurn(j, o)
    <3>1. ASSUME NEW i \in Stored(j, o)', i \notin Stored(j, o) PROVE FALSE
      <4>1. /\ i \in DOMAIN messages' \ DOMAIN messages
            /\ messages'[i].key = j /\ messages'[i].role = o
        BY <3>1, StoredGrows
      <4>2. DOMAIN messages' = DOMAIN messages \union {n}
        BY <2>1, MessagesGrow
      <4>3. i = n
        BY <4>1, <4>2
      <4> QED BY <2>1, <2>3, <4>1, <4>3
    <3> QED BY <3>1, ConversationSteps
  <2>4. CASE role = "user"
    <3>1. /\ Asked[k] = None /\ Asked'[k] = messages'[n].conv
          /\ \A j \in Turns \ {k} : Asked'[j] = Asked[j]
          /\ UNCHANGED Answers
      BY <2>2, <2>3, <2>4 DEF Asked, Answers
    <3>2. messages'[n].conv \in Nat \ {0}
      <4>1. TypeOK'
        BY TypeStep DEF TypeInv
      <4>2. messages' \in Seq(Message) /\ DOMAIN messages' = 1 .. Len(messages')
        BY <4>1, LenProperties DEF TypeOK
      <4>3. messages'[n] \in Message
        BY <2>1, <4>2, ElementOfSeq
      <4> QED BY <4>3 DEF Message
    <3>3. Asked' = [Asked EXCEPT ![k] = Asked'[k]]
      BY <3>1 DEF Asked
    <3> QED BY <3>1, <3>2, <3>3 DEF Log!Ask, Asked, Answers
  <2>5. CASE role = "assistant"
    <3>1. PICK r \in Attempts :
            /\ StoreAnswer(r) /\ messages'[n] = AnswerOf(r) /\ at[r].turn = k /\ at[r].logged
      BY <2>5, TurnGrows
    <3>2. pc[r] # "idle"
      BY <3>1 DEF StoreAnswer
    <3>3. PICK m \in Stored(k, "user") : messages[m].conv = at[r].conv
      BY <3>1, <3>2 DEF TurnInv
    <3>4. ConversationOfTurn(k, "user") = at[r].conv /\ at[r].conv \in Nat \ {0}
      BY <3>3, StoredConversation
    <3>5. messages'[n].conv = at[r].conv
      BY <3>1 DEF AnswerOf
    <3>6. /\ Asked[k] = at[r].conv /\ Asked[k] # None
          /\ Answers[k] = None /\ Answers'[k] = Asked[k]
          /\ \A j \in Turns \ {k} : Answers'[j] = Answers[j]
          /\ UNCHANGED Asked
      BY <2>2, <2>3, <2>5, <3>4, <3>5, NoneAssumption DEF Asked, Answers
    <3>7. Answers' = [Answers EXCEPT ![k] = Asked[k]]
      BY <3>6 DEF Answers
    <3> QED BY <3>6, <3>7 DEF Log!Answer, Asked, Answers
  <2> QED BY <2>4, <2>5
<1>3. CASE \E k \in Turns, role \in {"user", "assistant"} :
             ~(Stored(k, role)' \subseteq Stored(k, role))
  <2>1. PICK k \in Turns, role \in {"user", "assistant"} :
          ~(Stored(k, role)' \subseteq Stored(k, role))
    BY <1>3
  <2>2. PICK n : n \in Stored(k, role)' \ Stored(k, role)
    BY <2>1
  <2>3. Log!Ask(k) \/ Log!Answer(k)
    BY <1>2, <2>2
  <2> QED BY <2>3 DEF Log!Next
<1> QED BY <1>1, <1>3

\* However the attempts at one turn interleave and whichever of them die or
\* fail, its question and its answer are stored once, in one conversation: the
\* chat implements TurnLog.
THEOREM TurnsImplementLog == Spec => ImplementsTurnLog
<1>1. Init => Log!Init
  BY DEF Init, Log!Init, ConversationOfTurn, Stored
<1> QED BY <1>1, TurnLogStep, TypeInvariant, TurnInvariant, PTL
     DEF Spec, ImplementsTurnLog, Log!Spec, Asked, Answers

--------------------------------------------------------------------------------
(* One attempt at a time.                                                  *)

Alone == \A r, q \in Attempts : pc[r] \notin Idle /\ pc[q] \notin Idle => r = q

\* No attempt is in flight at first.
LEMMA AloneInit == Init => Alone
BY DEF Init, Alone, Idle

\* An attempt starts when none is in flight.
LEMMA AloneStep == Serial /\ TypeInv /\ Alone /\ [Next]_vars => Alone'
<1> SUFFICES ASSUME Serial, TypeInv, Alone, [Next]_vars, NEW r \in Attempts, NEW q \in Attempts,
                    pc'[r] \notin Idle, pc'[q] \notin Idle
             PROVE  r = q
  BY DEF Alone
<1>0. TypeOK
  BY DEF TypeInv
<1>1. ASSUME NEW p \in Attempts, pc'[p] \notin Idle, pc[p] \in Idle
      PROVE  InFlight = {} /\ \A o \in Attempts \ {p} : pc'[o] = pc[o]
  <2>1. pc[p] = "idle"
    <3>1. CASE pc[p] \in {"done", "dead"}
      <4>1. pc'[p] = pc[p]
        BY <1>0, <3>1, Ended
      <4> QED BY <1>1, <4>1
    <3> QED BY <1>1, <3>1 DEF Idle
  <2>2. pc'[p] # "idle"
    BY <1>1 DEF Idle
  <2>3. PICK k \in Turns : Send(p, k)
    BY <1>0, <2>1, <2>2, Starts
  <2> QED BY <1>0, <2>3 DEF Send, Keep, Goto, TypeOK
<1>2. CASE pc[r] \in Idle
  BY <1>1, <1>2 DEF InFlight
<1>3. CASE pc[q] \in Idle
  BY <1>1, <1>3 DEF InFlight
<1> QED BY <1>2, <1>3 DEF Alone

\* One attempt at a time is handled at a time.
LEMMA AloneInvariant ==
  ASSUME Serial
  PROVE  Spec => []Alone
<1>1. TypeInv /\ Alone /\ [Next]_vars => Alone'
  BY AloneStep
<1> QED BY <1>1, AloneInit, TypeInvariant, PTL DEF Spec

\* What an attempt read is still there: nobody else has counted the rule.
CountInv ==
  /\ UsageMatchesEvents
  /\ \A r \in Attempts : pc[r] = "count" => at[r].seen = usage[at[r].rule]

\* No rule is counted at first.
LEMMA CountInit == Init => CountInv
BY DEF Init, CountInv, UsageMatchesEvents

\* The counters change when a rule is counted.
LEMMA UsageSteps ==
  ASSUME [Next]_vars
  PROVE  UNCHANGED <<usage, events>> \/ \E r \in Attempts : CountRule(r)
BY DEF Next, vars, tables, Send, Handle, Resolve, LogQuestion, LogFails, FindAnswer,
   FilterRules, LoadHistory, Block, Decide, CheckCoupon, IssueCoupon, ReadUsage, StoreAnswer,
   CountFails, Crash, EndConversation, Tick

\* The one attempt that is handled counts with what it read.
LEMMA CountStep == TypeInv /\ Alone /\ CountInv /\ [Next]_vars => CountInv'
<1> SUFFICES ASSUME TypeInv, Alone, CountInv, [Next]_vars PROVE CountInv'
  OBVIOUS
<1>0. TypeOK
  BY DEF TypeInv
<1>1. CASE UNCHANGED <<usage, events>>
  <2>1. ASSUME NEW r \in Attempts, pc'[r] = "count" PROVE at'[r].seen = usage'[at'[r].rule]
    <3>1. CASE pc'[r] = pc[r] /\ at'[r] = at[r]
      BY <1>1, <2>1, <3>1 DEF CountInv
    <3>2. CASE ~(pc'[r] = pc[r] /\ at'[r] = at[r])
      <4>1. ReadUsage(r)
        BY <2>1, <3>2, Reached
      <4>2. at[r] \in Memory
        BY <4>1, InMemory DEF ReadUsage
      <4>3. at'[r] = [at[r] EXCEPT !.seen = usage[at[r].rule]]
        BY <1>0, <4>1, <4>2 DEF ReadUsage, Keep, TypeOK
      <4>4. at'[r].seen = usage[at[r].rule] /\ at'[r].rule = at[r].rule
        BY <4>2, <4>3 DEF Memory
      <4> QED BY <1>1, <4>4
    <3> QED BY <3>1, <3>2
  <2> QED BY <1>1, <2>1 DEF CountInv, UsageMatchesEvents
<1>2. ASSUME NEW r \in Attempts, CountRule(r) PROVE CountInv'
  <2>1. /\ pc[r] = "count" /\ at[r].rule \in Rules /\ at[r].seen = usage[at[r].rule]
        /\ usage = events
    BY <1>2 DEF CountRule, CountInv, TypeInv, OfRule, UsageMatchesEvents
  <2>2. UsageMatchesEvents'
    BY <1>0, <1>2, <2>1 DEF CountRule, UsageMatchesEvents, TypeOK
  <2>3. ASSUME NEW q \in Attempts PROVE pc'[q] # "count"
    <3>1. pc' = [pc EXCEPT ![r] = "store"]
      BY <1>2 DEF CountRule, Goto
    <3>2. CASE q = r
      BY <1>0, <3>1, <3>2 DEF TypeOK
    <3>3. CASE q # r
      <4>1. pc[q] = "count" => q = r
        BY <2>1 DEF Alone, Idle
      <4> QED BY <1>0, <3>1, <3>3, <4>1 DEF TypeOK
    <3> QED BY <3>2, <3>3
  <2> QED BY <2>2, <2>3 DEF CountInv
<1> QED BY <1>1, <1>2, UsageSteps

\* One attempt at a time: usage_count and the rule_triggered events agree,
\* whichever transactions fail and whoever dies.
THEOREM CountersAgree ==
  ASSUME Serial
  PROVE  Spec => []UsageMatchesEvents
<1>1. CountInv => UsageMatchesEvents
  BY DEF CountInv
<1> QED BY <1>1, CountInit, CountStep, TypeInvariant, AloneInvariant, PTL DEF Spec

--------------------------------------------------------------------------------
(* The limits of a rule's coupons.                                         *)

CooledDown(n, i, t) ==
  /\ RuleTable[i].cooldown # Forever
  /\ coupons[n].at + RuleTable[i].cooldown <= t
Within(i, t) == {n \in DOMAIN coupons : coupons[n].rule = i /\ coupons[n].at \in t - Hour .. t}

\* What the check found still holds when the coupon is issued.
LimitInv ==
  /\ OneCouponPerVisitor
  /\ \A i \in Rules, t \in Nat : Cardinality(Within(i, t)) <= RuleTable[i].cap
  /\ \A r \in Attempts : pc[r] = "issue" =>
       /\ \A n \in DOMAIN coupons :
            /\ coupons[n].rule = at[r].rule
            /\ SameVisitor(coupons[n], Customer(r), at[r].conv)
            => CooledDown(n, at[r].rule, at[r].checked)
       /\ Cardinality(Issued(at[r].rule, at[r].checked - Hour)) < RuleTable[at[r].rule].cap

\* There is no coupon at first.
LEMMA LimitInit == Init => LimitInv
<1> SUFFICES ASSUME Init PROVE LimitInv
  OBVIOUS
<1>1. ASSUME NEW i \in Rules, NEW t \in Nat PROVE Cardinality(Within(i, t)) <= RuleTable[i].cap
  <2>1. Within(i, t) = {}
    BY DEF Init, Within
  <2>2. RuleTable[i].cap \in Nat
    BY RuleFacts DEF Rule
  <2> QED BY <2>1, <2>2, FS_EmptySet
<1> QED BY <1>1 DEF Init, LimitInv, OneCouponPerVisitor

\* What an attempt that passed the check knows.
LEMMA Checked ==
  ASSUME TypeInv, [Next]_vars, NEW r \in Attempts, CheckCoupon(r), pc'[r] = "issue"
  PROVE  /\ at[r].rule \in Rules /\ ~Refused(at[r].rule, r) /\ UNCHANGED coupons
         /\ at'[r].rule = at[r].rule /\ at'[r].turn = at[r].turn /\ at'[r].conv = at[r].conv
         /\ at'[r].checked = now
<1>0. TypeOK /\ at[r] \in Memory /\ pc[r] = "check"
  BY InMemory DEF TypeInv, CheckCoupon
<1>1. ~Refused(at[r].rule, r) /\ Keep(r, [at[r] EXCEPT !.checked = now], "issue")
  BY <1>0 DEF CheckCoupon, Goto, TypeOK
<1>2. at'[r] = [at[r] EXCEPT !.checked = now]
  BY <1>0, <1>1 DEF Keep, TypeOK
<1> QED BY <1>0, <1>1, <1>2 DEF Memory, CheckCoupon, tables, TypeInv, OfRule

\* The coupons of the one attempt that is handled respect the limits.
LEMMA LimitStep == TypeInv /\ Alone /\ LimitInv /\ [Next]_vars => LimitInv'
<1> SUFFICES ASSUME TypeInv, Alone, LimitInv, [Next]_vars PROVE LimitInv'
  OBVIOUS
<1>0. TypeOK /\ \A n \in DOMAIN coupons : coupons[n] \in Coupon /\ n \in Nat \ {0}
  BY Rows DEF TypeInv
<1>1. CASE UNCHANGED coupons
  <2>1. OneCouponPerVisitor' /\ \A i \in Rules, t \in Nat : Within(i, t)' = Within(i, t)
    BY <1>1 DEF LimitInv, OneCouponPerVisitor, Within
  <2>2. ASSUME NEW r \in Attempts, pc'[r] = "issue"
        PROVE  /\ \A n \in DOMAIN coupons' :
                    /\ coupons'[n].rule = at'[r].rule
                    /\ SameVisitor(coupons'[n], Customer(r)', at'[r].conv)
                    => CooledDown(n, at[r].rule, at[r].checked)'
               /\ Cardinality(Issued(at[r].rule, at[r].checked - Hour)')
                    < RuleTable[at'[r].rule].cap
    <3>1. CASE pc'[r] = pc[r] /\ at'[r] = at[r]
      BY <1>1, <2>2, <3>1 DEF LimitInv, CooledDown, Issued, Customer
    <3>2. CASE ~(pc'[r] = pc[r] /\ at'[r] = at[r])
      <4>1. CheckCoupon(r)
        BY <2>2, <3>2, Reached
      <4>2. /\ at[r].rule \in Rules /\ ~Refused(at[r].rule, r)
            /\ at'[r].rule = at[r].rule /\ at'[r].turn = at[r].turn /\ at'[r].conv = at[r].conv
            /\ at'[r].checked = now
        BY <2>2, <4>1, Checked
      <4>3. PICK i \in Rules : i = at[r].rule
        BY <4>2
      <4>4. RuleTable[i] \in Rule /\ now \in Nat
        BY <1>0, RuleFacts DEF TypeOK
      <4>5. ASSUME NEW n \in DOMAIN coupons, coupons[n].rule = i,
                   SameVisitor(coupons[n], Customer(r), at[r].conv)
            PROVE  CooledDown(n, i, now)
        <5>1. ~(RuleTable[i].cooldown = Forever \/ coupons[n].at > now - RuleTable[i].cooldown)
          BY <4>2, <4>3, <4>5 DEF Refused, VisitorHasCoupon
        <5>2. RuleTable[i].cooldown \in Nat /\ coupons[n].at \in Nat
          BY <1>0, <4>4, <5>1 DEF Rule, Coupon
        <5> QED BY <4>4, <5>1, <5>2 DEF CooledDown
      <4>6. ~(Cardinality(Issued(i, now - Hour)) >= RuleTable[i].cap)
        BY <4>2, <4>3 DEF Refused, CapReached
      <4>7. Cardinality(Issued(i, now - Hour)) < RuleTable[i].cap
        <5>1. Cardinality(Issued(i, now - Hour)) \in Nat
          <6>1. IsFiniteSet(DOMAIN coupons) /\ Issued(i, now - Hour) \subseteq DOMAIN coupons
            BY <1>0, CouponRows DEF Issued
          <6> QED BY <6>1, FS_Subset, FS_CardinalityType
        <5>2. RuleTable[i].cap \in Nat
          BY <4>4 DEF Rule
        <5> QED BY <4>6, <5>1, <5>2
      <4>8. Customer(r)' = Customer(r)
        BY <4>2 DEF Customer
      <4>9. Issued(at[r].rule, at[r].checked - Hour)' = Issued(i, now - Hour)
        BY <1>1, <4>2, <4>3 DEF Issued
      <4>10. ASSUME NEW n \in DOMAIN coupons
             PROVE  CooledDown(n, at[r].rule, at[r].checked)' <=> CooledDown(n, i, now)
        BY <1>1, <4>2, <4>3 DEF CooledDown
      <4> QED BY <1>1, <4>2, <4>3, <4>5, <4>7, <4>8, <4>9, <4>10
    <3> QED BY <3>1, <3>2
  <2> QED BY <2>1, <2>2 DEF LimitInv
<1>2. ASSUME NEW r \in Attempts, pc[r] = "issue", pc'[r] = "read_usage", IssueCoupon(r),
             DOMAIN coupons' = DOMAIN coupons \union {Len(coupons) + 1},
             Len(coupons) + 1 \notin DOMAIN coupons, NEW known \in BOOLEAN,
             \A n \in DOMAIN coupons : coupons'[n] = coupons[n],
             coupons'[Len(coupons) + 1] = CouponOf(r, known)
      PROVE  LimitInv'
  <2>0. /\ at[r].rule \in Rules /\ at[r].checked \in Nat
        /\ \A n \in DOMAIN coupons : n < Len(coupons) + 1
    <3>1. at[r] \in Memory
      BY <1>2, InMemory
    <3> QED BY <1>2, <3>1, CouponRows, <1>0 DEF TypeInv, OfRule, Memory
  <2>1. ASSUME NEW n \in DOMAIN coupons', NEW p \in DOMAIN coupons', n < p,
               coupons'[n].rule = coupons'[p].rule,
               SameVisitor(coupons'[n], coupons'[p].customer, coupons'[p].conv)
        PROVE  /\ RuleTable[coupons'[n].rule].cooldown # Forever
               /\ coupons'[n].at + RuleTable[coupons'[n].rule].cooldown <= coupons'[p].at
    <3>1. n \in DOMAIN coupons
      BY <1>0, <1>2, <2>0, <2>1
    <3>2. CASE p \in DOMAIN coupons
      BY <1>2, <2>1, <3>1, <3>2 DEF LimitInv, OneCouponPerVisitor
    <3>3. CASE p = Len(coupons) + 1
      <4>1. /\ coupons'[p].customer = Customer(r) /\ coupons'[p].conv = at[r].conv
            /\ coupons'[p].rule = at[r].rule /\ coupons'[p].at = at[r].checked
        BY <1>2, <3>3 DEF CouponOf
      <4>2. CooledDown(n, at[r].rule, at[r].checked)
        BY <1>2, <2>1, <3>1, <4>1 DEF LimitInv
      <4> QED BY <1>2, <2>1, <3>1, <4>1, <4>2 DEF CooledDown
    <3> QED BY <1>2, <3>2, <3>3
  <2>2. ASSUME NEW i \in Rules, NEW t \in Nat
        PROVE  Cardinality(Within(i, t)') <= RuleTable[i].cap
    <3>0. /\ Cardinality(Within(i, t)) <= RuleTable[i].cap /\ IsFiniteSet(DOMAIN coupons)
          /\ RuleTable[i].cap \in Nat
      BY CouponRows, <1>0, RuleFacts DEF LimitInv, Rule
    <3>1. Within(i, t)' \subseteq Within(i, t) \union {Len(coupons) + 1}
      BY <1>2 DEF Within
    <3>2. IsFiniteSet(Within(i, t)) /\ Len(coupons) + 1 \notin Within(i, t)
      BY <1>2, <3>0, FS_Subset DEF Within
    <3>3. CASE i = at[r].rule /\ at[r].checked \in t - Hour .. t
      <4>1. Within(i, t) \subseteq Issued(i, at[r].checked - Hour)
        <5>1. ASSUME NEW n \in Within(i, t) PROVE n \in Issued(i, at[r].checked - Hour)
          <6>1. n \in DOMAIN coupons /\ coupons[n].rule = i /\ coupons[n].at \in t - Hour .. t
            BY <5>1 DEF Within
          <6>2. coupons[n].at \in Nat
            BY <1>0, <6>1 DEF Coupon
          <6>3. coupons[n].at >= at[r].checked - Hour
            BY <2>0, <3>3, <6>1, <6>2, ChatAssumption
          <6> QED BY <6>1, <6>3 DEF Issued
        <5> QED BY <5>1
      <4>2. IsFiniteSet(Issued(i, at[r].checked - Hour))
        BY <3>0, FS_Subset DEF Issued
      <4>3. Cardinality(Within(i, t)) <= Cardinality(Issued(i, at[r].checked - Hour))
        BY <4>1, <4>2, FS_Subset
      <4>4. Cardinality(Issued(i, at[r].checked - Hour)) < RuleTable[i].cap
        BY <1>2, <3>3 DEF LimitInv
      <4>5. /\ IsFiniteSet(Within(i, t) \union {Len(coupons) + 1})
            /\ Cardinality(Within(i, t) \union {Len(coupons) + 1}) = Cardinality(Within(i, t)) + 1
        BY <3>2, FS_AddElement
      <4>6. Cardinality(Within(i, t)') <= Cardinality(Within(i, t)) + 1
        BY <3>1, <4>5, FS_Subset
      <4>7. /\ Cardinality(Within(i, t)) \in Nat
            /\ Cardinality(Issued(i, at[r].checked - Hour)) \in Nat
            /\ Cardinality(Within(i, t)') \in Nat
        BY <3>1, <3>2, <4>2, <4>5, FS_CardinalityType, FS_Subset
      <4> QED BY <3>0, <4>3, <4>4, <4>6, <4>7
    <3>4. CASE ~(i = at[r].rule /\ at[r].checked \in t - Hour .. t)
      <4>1. Len(coupons) + 1 \notin Within(i, t)'
        BY <1>2, <3>4 DEF Within, CouponOf
      <4>2. Within(i, t)' \subseteq Within(i, t)
        BY <3>1, <4>1
      <4>3. Cardinality(Within(i, t)') <= Cardinality(Within(i, t))
        BY <3>2, <4>2, FS_Subset
      <4>4. Cardinality(Within(i, t)) \in Nat /\ Cardinality(Within(i, t)') \in Nat
        BY <3>2, <4>2, FS_CardinalityType, FS_Subset
      <4> QED BY <3>0, <4>3, <4>4
    <3> QED BY <3>3, <3>4
  <2>3. ASSUME NEW q \in Attempts PROVE pc'[q] # "issue"
    <3>1. CASE q = r
      BY <1>2, <3>1
    <3>2. CASE q # r
      <4>1. pc[q] # "issue"
        BY <1>2, <3>2 DEF Alone, Idle
      <4>2. pc'[q] = pc[q]
        BY <1>0, <1>2, <3>2 DEF IssueCoupon, Keep, Goto, TypeOK
      <4> QED BY <4>1, <4>2
    <3> QED BY <3>1, <3>2
  <2>4. OneCouponPerVisitor'
    BY <2>1 DEF OneCouponPerVisitor
  <2> QED BY <2>2, <2>3, <2>4 DEF LimitInv
<1> QED BY <1>1, <1>2, CouponsGrow

\* One attempt at a time, whatever fails: the same visitor gets the coupon of a
\* rule again only after its cooldown, and no hour holds more than the cap.
THEOREM LimitsRespected ==
  ASSUME Serial
  PROVE  Spec => []CouponLimits
<1>1. TypeOK /\ LimitInv => CouponLimits
  <2> SUFFICES ASSUME TypeOK, LimitInv, NEW i \in Rules, NEW t \in 0 .. now
               PROVE  Cardinality(Within(i, t)) <= RuleTable[i].cap
    BY DEF LimitInv, CouponLimits, HourlyCap, Within
  <2>1. t \in Nat
    BY DEF TypeOK
  <2> QED BY <2>1 DEF LimitInv
<1>2. TypeInv => TypeOK
  BY DEF TypeInv
<1> QED BY <1>1, <1>2, LimitInit, LimitStep, TypeInvariant, AloneInvariant, PTL DEF Spec

--------------------------------------------------------------------------------
(* A turn that was answered does not reach the LLM again, as long as the   *)
(* search for an answer reads the whole conversation.                      *)

Fits == \A conv \in Nat : Cardinality(Of(conv)) <= FirstWindow

AnswerInv ==
  /\ \A r \in Attempts : pc[r] \in {"filter", "history", "decide"} =>
       Stored(at[r].turn, "assistant") = {}
  /\ \A r \in Attempts : pc[r] = "find" => at[r].logged

\* No attempt was made at first.
LEMMA AnswerInit == Init => AnswerInv
BY DEF Init, AnswerInv

\* A conversation that fits is read to its end.
LEMMA InWindow ==
  ASSUME TypeOK, Fits, NEW conv \in Nat, NEW i \in Of(conv)
  PROVE  i \in FirstOf(conv)
<1> DEFINE earlier == {n \in Of(conv) : n < i}
<1>1. IsFiniteSet(Of(conv)) /\ i \in Nat
  <2>1. DOMAIN messages = 1 .. Len(messages) /\ Len(messages) \in Nat
    BY LenProperties DEF TypeOK
  <2>2. IsFiniteSet(DOMAIN messages)
    BY <2>1, FS_Interval
  <2> QED BY <2>1, <2>2, FS_Subset DEF Of
<1>2. earlier \subseteq Of(conv) /\ i \notin earlier /\ earlier \union {i} \subseteq Of(conv)
  BY <1>1
<1> HIDE DEF earlier
<1>3. IsFiniteSet(earlier) /\ Cardinality(earlier \union {i}) <= Cardinality(Of(conv))
  BY <1>1, <1>2, FS_Subset
<1>4. Cardinality(earlier \union {i}) = Cardinality(earlier) + 1
  BY <1>2, <1>3, FS_AddElement
<1>5. Cardinality(earlier) \in Nat /\ Cardinality(Of(conv)) \in Nat
  BY <1>1, <1>3, FS_CardinalityType
<1>6. Cardinality(earlier) < FirstWindow
  BY <1>3, <1>4, <1>5, ChatAssumption DEF Fits
<1> QED BY <1>6 DEF FirstOf, earlier

\* A retry finds an answer if the turn has one.
LEMMA AnswerFound ==
  ASSUME TypeInv, TurnInv, Fits, NEW r \in Attempts, pc[r] = "find", at[r].logged,
         Stored(at[r].turn, "assistant") # {}
  PROVE  AnswersAfter(at[r].turn, FirstOf(at[r].conv)) # {}
<1>0. TypeOK /\ at[r] \in Memory
  BY InMemory DEF TypeInv
<1>1. at[r].turn \in Turns /\ at[r].conv \in Nat
  BY <1>0 DEF Memory
<1>2. PICK k \in Turns : k = at[r].turn
  BY <1>1
<1>3. PICK i \in Stored(k, "assistant") : TRUE
  BY <1>2
<1>4. PICK n \in Stored(k, "user") : n < i /\ messages[n].conv = messages[i].conv
  BY DEF TurnInv
<1>5. PICK m \in Stored(k, "user") : messages[m].conv = at[r].conv
  BY <1>2 DEF TurnInv
<1>6. m = n
  BY DEF TurnInv
<1>7. n \in Of(at[r].conv) /\ i \in Of(at[r].conv)
  BY <1>4, <1>5, <1>6 DEF Of, Stored
<1>8. n \in FirstOf(at[r].conv) /\ i \in FirstOf(at[r].conv)
  BY <1>0, <1>1, <1>7, InWindow
<1>9. i \in AnswersAfter(k, FirstOf(at[r].conv))
  BY <1>4, <1>8 DEF AnswersAfter, Stored
<1> QED BY <1>2, <1>9

\* The one attempt that is handled decides only on a question without answer.
LEMMA AnswerStep ==
  "question" \notin Failing /\ "find" \notin Failing =>
    (TypeInv /\ TurnInv /\ Alone /\ Fits /\ AnswerInv /\ [Next]_vars => AnswerInv')
<1> SUFFICES ASSUME "question" \notin Failing, "find" \notin Failing,
                    TypeInv, TurnInv, Alone, Fits, AnswerInv, [Next]_vars
             PROVE  AnswerInv'
  OBVIOUS
<1>0. TypeOK
  BY DEF TypeInv
<1>1. ASSUME NEW r \in Attempts, pc'[r] = "find" PROVE at'[r].logged
  <2>1. CASE pc'[r] = pc[r] /\ at'[r] = at[r]
    BY <1>1, <2>1 DEF AnswerInv
  <2>2. CASE ~(pc'[r] = pc[r] /\ at'[r] = at[r])
    <3>1. LogQuestion(r)
      BY <1>1, <2>2, Reached
    <3>2. at[r] \in Memory
      BY <3>1, InMemory DEF LogQuestion
    <3>3. PICK conv, created, l :
            Keep(r, [at[r] EXCEPT !.conv = conv, !.logged = TRUE, !.created = created], l)
      BY <3>1, Zenon DEF LogQuestion, Fallback
    <3>4. at'[r] = [at[r] EXCEPT !.conv = conv, !.logged = TRUE, !.created = created]
      BY <1>0, <3>3 DEF Keep, TypeOK
    <3> QED BY <3>2, <3>4 DEF Memory
  <2> QED BY <2>1, <2>2
<1>2. ASSUME NEW r \in Attempts, pc'[r] \in {"filter", "history", "decide"}
      PROVE  Stored(at[r].turn, "assistant")' = {}
  <2>1. pc[r] \notin Idle
    <3>1. pc[r] # "idle"
      <4>1. pc'[r] # "idle" /\ pc'[r] # "resolve"
        BY <1>2
      <4> QED BY <1>0, <4>1, Starts
    <3>2. pc[r] \notin {"done", "dead"}
      <4>1. pc'[r] \notin {"done", "dead"}
        BY <1>2
      <4> QED BY <1>0, <4>1, Ended
    <3> QED BY <3>1, <3>2 DEF Idle
  <2>2. at[r] \in Memory /\ at'[r].turn = at[r].turn
    BY <2>1, InMemory, Remembers DEF Idle
  <2>3. PICK k \in Turns : k = at[r].turn
    BY <2>2 DEF Memory
  <2>4. Stored(k, "assistant") = {}
    <3>1. CASE pc'[r] = pc[r] /\ at'[r] = at[r]
      BY <1>2, <2>3, <3>1 DEF AnswerInv
    <3>2. CASE pc[r] \in {"filter", "history"}
      BY <2>3, <3>2 DEF AnswerInv
    <3>3. CASE LogQuestion(r) /\ pc'[r] = "filter"
      <4>1. Stored(k, "user") = {}
        <5>1. pc' = [pc EXCEPT ![r] = IF Stored(k, "user") = {} THEN "filter" ELSE "find"]
          BY <2>3, <3>3 DEF LogQuestion, Fallback, Keep, Goto
        <5> QED BY <1>0, <3>3, <5>1 DEF TypeOK
      <4> QED BY <4>1 DEF TurnInv
    <3>4. CASE FindAnswer(r) /\ pc'[r] = "filter"
      <4>1. pc[r] = "find" /\ at[r].logged
        BY <3>4 DEF FindAnswer, AnswerInv
      <4>2. AnswersAfter(k, FirstOf(at[r].conv)) = {}
        BY <1>0, <2>3, <3>4 DEF FindAnswer, Answer, Goto, TypeOK
      <4> QED BY <2>3, <4>1, <4>2, AnswerFound
    <3>5. ~LogFails(r)
      BY DEF LogFails, Fallback
    <3>6. \/ pc'[r] = pc[r] /\ at'[r] = at[r]
          \/ pc[r] \in {"filter", "history"}
          \/ LogQuestion(r) /\ pc'[r] = "filter"
          \/ FindAnswer(r) /\ pc'[r] = "filter"
      BY <1>2, <3>5, Reached
    <3> QED BY <3>1, <3>2, <3>3, <3>4, <3>6
  <2>5. ASSUME NEW n \in Stored(k, "assistant")' PROVE FALSE
    <3>1. PICK q \in Attempts : StoreAnswer(q)
      BY <2>4, <2>5, TurnGrows
    <3>2. q = r
      BY <2>1, <3>1 DEF StoreAnswer, Alone, Idle
    <3>3. pc'[r] = "done"
      BY <1>0, <3>1, <3>2 DEF StoreAnswer, Answer, Goto, TypeOK
    <3> QED BY <1>2, <3>3
  <2>6. Stored(k, "assistant")' = {}
    BY <2>5
  <2> QED BY <2>2, <2>3, <2>6
<1> QED BY <1>1, <1>2 DEF AnswerInv

\* The LLM is called when a question is decided.
LEMMA CallSteps ==
  ASSUME [Next]_vars
  PROVE  \/ UNCHANGED calls
         \/ \E r \in Attempts : pc[r] = "decide" /\ calls' = [calls EXCEPT ![at[r].turn] = @ + 1]
BY DEF Next, vars, client, Send, Handle, Resolve, LogQuestion, LogFails, FindAnswer, FilterRules,
   LoadHistory, Block, Decide, CheckCoupon, IssueCoupon, ReadUsage, CountRule, CountFails,
   StoreAnswer, Crash, EndConversation, Tick

\* One attempt at a time, when the transactions of the question and of the
\* search succeed and every conversation fits the messages that the search
\* reads: a turn whose answer is stored does not reach the LLM again, whatever
\* else fails and whoever dies.
THEOREM AnsweredTurnsRest ==
  ASSUME Serial, "question" \notin Failing, "find" \notin Failing
  PROVE  Spec /\ []Fits => AnsweredOnce
<1>1. TypeInv /\ TurnInv /\ Alone /\ Fits /\ AnswerInv /\ [Next]_vars => AnswerInv'
  BY AnswerStep
<1>2. TypeInv /\ AnswerInv /\ [Next]_vars =>
        [\A k \in Turns : Stored(k, "assistant") # {} => calls'[k] = calls[k]]_vars
  <2> SUFFICES ASSUME TypeInv, AnswerInv, [Next]_vars, NEW k \in Turns,
                      Stored(k, "assistant") # {}
               PROVE  calls'[k] = calls[k]
    OBVIOUS
  <2>1. ASSUME NEW r \in Attempts, pc[r] = "decide",
               calls' = [calls EXCEPT ![at[r].turn] = @ + 1]
        PROVE  calls'[k] = calls[k]
    <3>1. at[r].turn # k
      BY <2>1 DEF AnswerInv
    <3> QED BY <2>1, <3>1 DEF TypeInv, TypeOK
  <2> QED BY <2>1, CallSteps
<1> QED BY <1>1, <1>2, AnswerInit, TypeInvariant, TurnInvariant, AloneInvariant, PTL
     DEF Spec, AnsweredOnce

\* An attempt stores a message when it has logged its question, and another one
\* when it ends.
Begun == {r \in Attempts : pc[r] \notin {"idle", "resolve", "log"}}
Over == {r \in Attempts : pc[r] \in {"done", "dead"}}
SizeInv == Len(messages) <= Cardinality(Begun) + Cardinality(Over)

\* There is no message at first.
LEMMA SizeInit == Init => SizeInv
<1> SUFFICES ASSUME Init PROVE SizeInv
  OBVIOUS
<1>1. Begun = {} /\ Over = {} /\ Len(messages) = 0
  BY DEF Init, Begun, Over
<1> QED BY <1>1, FS_EmptySet DEF SizeInv

\* Every message is one of an attempt that went on.
LEMMA SizeStep == IsFiniteSet(Attempts) => (TypeInv /\ SizeInv /\ [Next]_vars => SizeInv')
<1> SUFFICES ASSUME IsFiniteSet(Attempts), TypeInv, SizeInv, [Next]_vars PROVE SizeInv'
  OBVIOUS
<1>0. TypeOK /\ Len(messages) \in Nat
  BY LenProperties DEF TypeInv, TypeOK
<1>1. Begun \subseteq Begun' /\ Over \subseteq Over'
  <2>1. ASSUME NEW r \in Begun PROVE r \in Begun'
    BY <2>1, Continues DEF Begun
  <2>2. ASSUME NEW r \in Over PROVE r \in Over'
    BY <1>0, <2>2, Ended DEF Over
  <2> QED BY <2>1, <2>2
<1>2. /\ IsFiniteSet(Begun) /\ IsFiniteSet(Begun') /\ IsFiniteSet(Over) /\ IsFiniteSet(Over')
      /\ Cardinality(Begun) \in Nat /\ Cardinality(Begun') \in Nat
      /\ Cardinality(Over) \in Nat /\ Cardinality(Over') \in Nat
  <2>1. /\ Begun \subseteq Attempts /\ Begun' \subseteq Attempts
        /\ Over \subseteq Attempts /\ Over' \subseteq Attempts
    BY DEF Begun, Over
  <2> QED BY <2>1, FS_Subset, FS_CardinalityType
<1>3. Cardinality(Begun) <= Cardinality(Begun') /\ Cardinality(Over) <= Cardinality(Over')
  BY <1>1, <1>2, FS_Subset
<1>4. CASE UNCHANGED messages
  BY <1>0, <1>2, <1>3, <1>4 DEF SizeInv
<1>5. CASE ~UNCHANGED messages
  <2>1. PICK r \in Attempts : LogQuestion(r) \/ StoreAnswer(r)
    BY <1>5, MessageSteps
  <2>2. Len(messages') = Len(messages) + 1
    <3>1. PICK msg : messages' = Append(messages, msg)
      BY <1>5, MessageSteps DEF Inserted
    <3> QED BY <1>0, <3>1, Appended DEF TypeOK
  <2>3. CASE LogQuestion(r)
    <3>1. r \notin Begun /\ r \in Begun'
      BY <1>0, <2>3 DEF LogQuestion, Fallback, Keep, Goto, TypeOK, Begun
    <3>2. Cardinality(Begun) + 1 <= Cardinality(Begun')
      BY <1>1, <1>2, <3>1, OneMore
    <3> QED BY <1>0, <1>2, <1>3, <2>2, <3>2 DEF SizeInv
  <2>4. CASE StoreAnswer(r)
    <3>1. r \notin Over /\ r \in Over'
      BY <1>0, <2>4 DEF StoreAnswer, Answer, Goto, TypeOK, Over
    <3>2. Cardinality(Over) + 1 <= Cardinality(Over')
      BY <1>1, <1>2, <3>1, OneMore
    <3> QED BY <1>0, <1>2, <1>3, <2>2, <3>2 DEF SizeInv
  <2> QED BY <2>1, <2>3, <2>4
<1> QED BY <1>4, <1>5

\* Few attempts make no conversation that the search cannot read.
LEMMA FewFit ==
  ASSUME IsFiniteSet(Attempts), 2 * Cardinality(Attempts) <= FirstWindow
  PROVE  Spec => []Fits
<1>1. TypeInv /\ SizeInv /\ [Next]_vars => SizeInv'
  BY SizeStep
<1>2. TypeInv /\ SizeInv => Fits
  <2> SUFFICES ASSUME TypeInv, SizeInv, NEW conv \in Nat
               PROVE  Cardinality(Of(conv)) <= FirstWindow
    BY DEF Fits
  <2>1. DOMAIN messages = 1 .. Len(messages) /\ Len(messages) \in Nat
    BY LenProperties DEF TypeInv, TypeOK
  <2>2. IsFiniteSet(DOMAIN messages) /\ Cardinality(DOMAIN messages) = Len(messages)
    BY <2>1, FS_Interval
  <2>3. Of(conv) \subseteq DOMAIN messages
    BY DEF Of
  <2>4. IsFiniteSet(Of(conv)) /\ Cardinality(Of(conv)) <= Len(messages)
    BY <2>2, <2>3, FS_Subset
  <2>5. Cardinality(Begun) <= Cardinality(Attempts) /\ Cardinality(Over) <= Cardinality(Attempts)
    <3>1. Begun \subseteq Attempts /\ Over \subseteq Attempts
      BY DEF Begun, Over
    <3> QED BY <3>1, FS_Subset
  <2>6. /\ Cardinality(Begun) \in Nat /\ Cardinality(Over) \in Nat
        /\ Cardinality(Attempts) \in Nat /\ Cardinality(Of(conv)) \in Nat
    <3>1. IsFiniteSet(Begun) /\ IsFiniteSet(Over)
      BY FS_Subset DEF Begun, Over
    <3> QED BY <2>4, <3>1, FS_CardinalityType
  <2> QED BY <2>1, <2>4, <2>5, <2>6, ChatAssumption DEF SizeInv
<1> QED BY <1>1, <1>2, SizeInit, TypeInvariant, PTL DEF Spec

\* The same of so few attempts that every conversation fits.
THEOREM FewAttemptsRest ==
  ASSUME Serial, "question" \notin Failing, "find" \notin Failing,
         IsFiniteSet(Attempts), 2 * Cardinality(Attempts) <= FirstWindow
  PROVE  Spec => AnsweredOnce
<1> QED BY FewFit, AnsweredTurnsRest, PTL

================================================================================
