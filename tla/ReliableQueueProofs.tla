-------------------------- MODULE ReliableQueueProofs --------------------------
(***************************************************************************)
(* Theorems about ReliableQueue, for any jobs, workers, operators and      *)
(* bounds, whatever happens to the workers and however their loops         *)
(* interleave.                                                             *)
(***************************************************************************)
EXTENDS ReliableQueue, SequenceTheorems, FiniteSetTheorems, TLAPS

--------------------------------------------------------------------------------
(* Sequences.                                                              *)

\* A function on the positions of a sequence is a sequence.
LEMMA Rewritten ==
  ASSUME NEW S, NEW T, NEW s \in Seq(S), NEW f \in [DOMAIN s -> T]
  PROVE  f \in Seq(T) /\ Len(f) = Len(s) /\ DOMAIN f = DOMAIN s
<1>1. DOMAIN s = 1 .. Len(s) /\ Len(s) \in Nat
  BY LenProperties
<1>2. f \in Seq(T)
  BY <1>1, SeqDef
<1>3. DOMAIN f = 1 .. Len(f) /\ Len(f) \in Nat
  BY <1>2, LenProperties
<1> QED BY <1>1, <1>2, <1>3

\* What an XADD leaves and adds.
LEMMA Added ==
  ASSUME NEW S, NEW s \in Seq(S), NEW e \in S
  PROVE  /\ Append(s, e) \in Seq(S)
         /\ DOMAIN Append(s, e) = DOMAIN s \union {Len(s) + 1}
         /\ Len(s) + 1 \notin DOMAIN s
         /\ \A i \in DOMAIN s : Append(s, e)[i] = s[i]
         /\ Append(s, e)[Len(s) + 1] = e
         /\ Len(s) + 1 \in Nat \ {0}
<1>1. DOMAIN s = 1 .. Len(s) /\ Len(s) \in Nat
  BY LenProperties
<1>2. /\ Append(s, e) \in Seq(S) /\ Len(Append(s, e)) = Len(s) + 1
      /\ \A i \in 1 .. Len(s) : Append(s, e)[i] = s[i]
      /\ Append(s, e)[Len(s) + 1] = e
  BY <1>1, AppendProperties
<1>3. DOMAIN Append(s, e) = 1 .. Len(s) + 1
  BY <1>2, LenProperties
<1> QED BY <1>1, <1>2, <1>3

--------------------------------------------------------------------------------
(* Types.  A loop that handles a message holds a stream id, and an         *)
(* operator that goes on holds an entry of the dead letter queue.          *)

Handling == {"handling", "ack", "count", "failing", "ack_failed"}

TypeInv ==
  /\ TypeOK
  /\ \A w \in Workers : step[w] \in Handling => cur[w] \in DOMAIN stream
  /\ \A o \in Operators : session[o].at # "idle" => session[o].entry \in DOMAIN dlq

\* At first nothing is stored and every worker is down.
LEMMA TypeInit == Init => TypeInv
<1> SUFFICES ASSUME Init PROVE TypeInv
  OBVIOUS
<1>1. stream \in Seq(Entry) /\ dlq \in Seq(DeadEntry)
  BY EmptySeq DEF Init
<1> QED BY <1>1 DEF Init, TypeInv, TypeOK, Handling, Idle

\* An entry that is made has the type of the stream.
LEMMA NewEntryType ==
  ASSUME NEW e \in Job
  PROVE  /\ NewEntry(e) \in Entry /\ NewEntry(e).state = "new"
         /\ NewEntry(e).job = e.job /\ NewEntry(e).retry = e.retry
BY DEF NewEntry, Job, Entry

\* A job that a producer makes has no retries.
LEMMA FirstTryType ==
  ASSUME NEW j \in Jobs
  PROVE  FirstTry(j) \in Job /\ FirstTry(j).job = j /\ FirstTry(j).retry = 0
BY DEF FirstTry, Job

\* What a step may do to the stream: entries are added, and those that are
\* there change their state and their consumer only.
SameJob(d, e) == e.job = d.job /\ e.retry = d.retry /\ e.error = d.error

StreamGrows ==
  /\ stream' \in Seq(Entry)
  /\ DOMAIN stream \subseteq DOMAIN stream'
  /\ \A i \in DOMAIN stream : SameJob(stream[i], stream'[i])

DeadGrow ==
  /\ dlq' \in Seq(DeadEntry)
  /\ DOMAIN dlq \subseteq DOMAIN dlq'
  /\ \A i \in DOMAIN dlq : SameJob(dlq[i], dlq'[i])

\* XADD of a job.
LEMMA EntryAdded ==
  ASSUME TypeOK, NEW e \in Job, stream' = Append(stream, NewEntry(e))
  PROVE  /\ StreamGrows
         /\ DOMAIN stream' = DOMAIN stream \union {Len(stream) + 1}
         /\ Len(stream) + 1 \notin DOMAIN stream
         /\ \A i \in DOMAIN stream : stream'[i] = stream[i]
         /\ stream'[Len(stream) + 1] = NewEntry(e)
<1>1. stream \in Seq(Entry) /\ NewEntry(e) \in Entry
  BY NewEntryType DEF TypeOK
<1>2. /\ stream' \in Seq(Entry)
      /\ DOMAIN stream' = DOMAIN stream \union {Len(stream) + 1}
      /\ Len(stream) + 1 \notin DOMAIN stream
      /\ \A i \in DOMAIN stream : stream'[i] = stream[i]
      /\ stream'[Len(stream) + 1] = NewEntry(e)
  BY <1>1, Added
<1> QED BY <1>2 DEF StreamGrows, SameJob

\* XREADGROUP, XACK and XCLAIM.
LEMMA StateChanged ==
  ASSUME TypeOK, NEW I \in SUBSET DOMAIN stream,
         NEW st \in {"new", "pending", "acked", "trimmed"}, NEW c \in Workers \union {None},
         stream' = [i \in DOMAIN stream |->
                      IF i \in I THEN [stream[i] EXCEPT !.state = st, !.consumer = c]
                                 ELSE stream[i]]
  PROVE  /\ StreamGrows /\ DOMAIN stream' = DOMAIN stream
         /\ \A i \in I : stream'[i].state = st
         /\ \A i \in DOMAIN stream \ I : stream'[i] = stream[i]
<1>1. \A i \in DOMAIN stream : stream[i] \in Entry
  BY ElementOfSeq, LenProperties DEF TypeOK
<1>2. stream' \in [DOMAIN stream -> Entry]
  BY <1>1 DEF Entry
<1>3. stream' \in Seq(Entry) /\ DOMAIN stream' = DOMAIN stream
  BY <1>2, Rewritten DEF TypeOK
<1>4. \A i \in DOMAIN stream : SameJob(stream[i], stream'[i])
  BY <1>1 DEF SameJob, Entry
<1>5. \A i \in I : stream'[i].state = st
  BY <1>1 DEF Entry
<1> QED BY <1>3, <1>4, <1>5 DEF StreamGrows

\* MAXLEN ~ drops entries that nobody read.
LEMMA TrimmedEntries ==
  ASSUME NEW s \in Seq(Entry), NEW k
  PROVE  /\ Trimmed(s, k) \in Seq(Entry)
         /\ DOMAIN Trimmed(s, k) = DOMAIN s
         /\ \A i \in DOMAIN s :
              /\ SameJob(s[i], Trimmed(s, k)[i])
              /\ \/ Trimmed(s, k)[i] = s[i]
                 \/ i <= k /\ s[i].state = "new" /\ Trimmed(s, k)[i].state = "trimmed"
<1> DEFINE f == Trimmed(s, k)
<1>1. \A i \in DOMAIN s : s[i] \in Entry
  BY ElementOfSeq, LenProperties
<1>2. f \in [DOMAIN s -> Entry]
  BY <1>1 DEF Trimmed, Entry
<1>3. f \in Seq(Entry) /\ DOMAIN f = DOMAIN s
  <2> HIDE DEF f
  <2> QED BY <1>2, Rewritten
<1>4. \A i \in DOMAIN s :
        /\ SameJob(s[i], f[i])
        /\ \/ f[i] = s[i]
           \/ i <= k /\ s[i].state = "new" /\ f[i].state = "trimmed"
  BY <1>1 DEF Trimmed, SameJob, Entry
<1> QED BY <1>3, <1>4

\* XACK, and what a claim does to an entry that stays pending.
LEMMA AckedEntry ==
  ASSUME TypeOK, NEW i \in DOMAIN stream, Acked(i)
  PROVE  /\ StreamGrows /\ DOMAIN stream' = DOMAIN stream
         /\ stream'[i].state = "acked"
         /\ \A k \in DOMAIN stream \ {i} : stream'[k] = stream[k]
<1>1. \A k \in DOMAIN stream : stream[k] \in Entry
  BY ElementOfSeq, LenProperties DEF TypeOK
<1>2. stream' = [k \in DOMAIN stream |->
                   IF k \in {i} THEN [stream[k] EXCEPT !.state = "acked", !.consumer = None]
                               ELSE stream[k]]
  BY <1>1 DEF Acked, Entry
<1> QED BY <1>2, StateChanged

\* A claim leaves the entry pending.
LEMMA ClaimedEntry ==
  ASSUME TypeOK, NEW w \in Workers, Claim(w)
  PROVE  /\ StreamGrows /\ DOMAIN stream' = DOMAIN stream
         /\ \A k \in DOMAIN stream : stream'[k].state = stream[k].state
<1>1. \A k \in DOMAIN stream : stream[k] \in Entry
  BY ElementOfSeq, LenProperties DEF TypeOK
<1>2. PICK i \in Pending : stream' = [stream EXCEPT ![i].consumer = w]
  BY DEF Claim
<1>3. i \in DOMAIN stream /\ stream[i].state = "pending"
  BY DEF Pending
<1>4. [stream[i] EXCEPT !.consumer = w] = [stream[i] EXCEPT !.state = "pending", !.consumer = w]
  BY <1>1, <1>3 DEF Entry
<1>5. stream' = [k \in DOMAIN stream |->
                   IF k \in {i} THEN [stream[k] EXCEPT !.state = "pending", !.consumer = w]
                               ELSE stream[k]]
  BY <1>2, <1>4
<1>6. {i} \in SUBSET DOMAIN stream /\ w \in Workers \union {None}
  BY <1>3
<1>7. /\ StreamGrows /\ DOMAIN stream' = DOMAIN stream
      /\ \A k \in {i} : stream'[k].state = "pending"
      /\ \A k \in DOMAIN stream \ {i} : stream'[k] = stream[k]
  BY <1>5, <1>6, StateChanged
<1> QED BY <1>3, <1>7

\* XREADGROUP of the oldest new entries.
LEMMA ReadEntries ==
  ASSUME TypeOK, NEW w \in Workers, Read(w)
  PROVE  /\ StreamGrows /\ DOMAIN stream' = DOMAIN stream
         /\ Oldest(New) \subseteq New /\ New \subseteq DOMAIN stream
         /\ \A i \in Oldest(New) : stream'[i].state = "pending"
         /\ \A i \in DOMAIN stream \ Oldest(New) : stream'[i] = stream[i]
<1>1. Oldest(New) \subseteq New /\ New \subseteq DOMAIN stream
  BY DEF Oldest, New
<1> HIDE DEF Oldest, New
<1>2. stream' = [i \in DOMAIN stream |->
                   IF i \in Oldest(New)
                     THEN [stream[i] EXCEPT !.state = "pending", !.consumer = w]
                     ELSE stream[i]]
  BY DEF Read
<1>3. Oldest(New) \in SUBSET DOMAIN stream /\ w \in Workers \union {None}
  BY <1>1
<1>4. /\ StreamGrows /\ DOMAIN stream' = DOMAIN stream
      /\ \A i \in Oldest(New) : stream'[i].state = "pending"
      /\ \A i \in DOMAIN stream \ Oldest(New) : stream'[i] = stream[i]
  BY <1>2, <1>3, StateChanged
<1> QED BY <1>1, <1>4

\* enqueue, with the trimming.
LEMMA EnqueuedEntry ==
  ASSUME TypeOK, NEW j \in Jobs, Enqueue(j)
  PROVE  /\ StreamGrows
         /\ DOMAIN stream' = DOMAIN stream \union {Len(stream) + 1}
         /\ Len(stream) + 1 \notin DOMAIN stream
         /\ stream'[Len(stream) + 1].job = j /\ stream'[Len(stream) + 1].retry = 0
         /\ stream'[Len(stream) + 1].state = "new" \/ j \in dropped'
         /\ \A i \in DOMAIN stream :
              \/ stream'[i] = stream[i]
              \/ stream[i].state = "new" /\ stream'[i].state = "trimmed"
                 /\ stream[i].job \in dropped'
         /\ dropped \subseteq dropped' /\ dropped' \subseteq Jobs
<1> DEFINE e == NewEntry(FirstTry(j))
           s == Append(stream, e)
           n == Len(stream) + 1
<1>1. PICK k \in {0} \union 1 .. (Len(s) - MaxLength) :
        /\ stream' = Trimmed(s, k)
        /\ dropped' = dropped \union {s[i].job : i \in {m \in DOMAIN s : m <= k /\ s[m].state = "new"}}
  BY DEF Enqueue
<1>2. e \in Entry /\ e.job = j /\ e.retry = 0 /\ e.state = "new"
  BY FirstTryType, NewEntryType
<1> HIDE DEF e
<1>3. /\ s \in Seq(Entry) /\ DOMAIN s = DOMAIN stream \union {n} /\ n \notin DOMAIN stream
      /\ \A i \in DOMAIN stream : s[i] = stream[i]
      /\ s[n] = e
  BY <1>2, Added DEF TypeOK
<1> HIDE DEF s, n
<1>4. /\ stream' \in Seq(Entry) /\ DOMAIN stream' = DOMAIN s
      /\ \A i \in DOMAIN s :
           /\ SameJob(s[i], stream'[i])
           /\ \/ stream'[i] = s[i]
              \/ i <= k /\ s[i].state = "new" /\ stream'[i].state = "trimmed"
  BY <1>1, <1>3, TrimmedEntries
<1>5. \A i \in DOMAIN s : s[i] \in Entry
  BY <1>3, ElementOfSeq, LenProperties
<1>6. dropped' \subseteq Jobs
  BY <1>1, <1>5 DEF TypeOK, Entry
<1>7. \A i \in DOMAIN s : i <= k /\ s[i].state = "new" => s[i].job \in dropped'
  BY <1>1
<1>8. StreamGrows
  BY <1>3, <1>4 DEF StreamGrows
<1>9. stream'[n].job = j /\ stream'[n].retry = 0
  BY <1>2, <1>3, <1>4 DEF SameJob
<1>10. stream'[n].state = "new" \/ j \in dropped'
  BY <1>2, <1>3, <1>4, <1>7
<1>11. \A i \in DOMAIN stream :
              \/ stream'[i] = stream[i]
              \/ stream[i].state = "new" /\ stream'[i].state = "trimmed"
                 /\ stream[i].job \in dropped'
  BY <1>3, <1>4, <1>7
<1> QED BY <1>1, <1>3, <1>4, <1>6, <1>8, <1>9, <1>10, <1>11 DEF n

\* An entry of the dead letter queue is deleted.
LEMMA DeletedEntry ==
  ASSUME TypeOK, NEW i \in DOMAIN dlq, Deleted(i)
  PROVE  /\ DeadGrow /\ DOMAIN dlq' = DOMAIN dlq
         /\ \A k \in DOMAIN dlq \ {i} : dlq'[k] = dlq[k]
<1>1. \A k \in DOMAIN dlq : dlq[k] \in DeadEntry
  BY ElementOfSeq, LenProperties DEF TypeOK
<1>2. dlq' \in [DOMAIN dlq -> DeadEntry]
  BY <1>1 DEF Deleted, DeadEntry
<1>3. dlq' \in Seq(DeadEntry) /\ DOMAIN dlq' = DOMAIN dlq
  BY <1>2, Rewritten DEF TypeOK
<1>4. \A k \in DOMAIN dlq : SameJob(dlq[k], dlq'[k]) /\ (k # i => dlq'[k] = dlq[k])
  BY <1>1 DEF Deleted, SameJob, DeadEntry
<1> QED BY <1>3, <1>4 DEF DeadGrow

\* A job that failed for good is added to it.
LEMMA BuriedEntry ==
  ASSUME TypeOK, NEW e \in Entry, NEW text \in Errors, dlq' = Append(dlq, Buried(Failed(e, text)))
  PROVE  /\ DeadGrow
         /\ DOMAIN dlq' = DOMAIN dlq \union {Len(dlq) + 1}
         /\ Len(dlq) + 1 \notin DOMAIN dlq
         /\ \A i \in DOMAIN dlq : dlq'[i] = dlq[i]
         /\ dlq'[Len(dlq) + 1].kept /\ dlq'[Len(dlq) + 1].job = e.job
<1> DEFINE d == Buried(Failed(e, text))
<1>1. d \in DeadEntry /\ d.kept /\ d.job = e.job
  BY DEF Buried, Failed, Entry, DeadEntry
<1> HIDE DEF d
<1>2. /\ dlq' \in Seq(DeadEntry)
      /\ DOMAIN dlq' = DOMAIN dlq \union {Len(dlq) + 1}
      /\ Len(dlq) + 1 \notin DOMAIN dlq
      /\ \A i \in DOMAIN dlq : dlq'[i] = dlq[i]
      /\ dlq'[Len(dlq) + 1] = d
  BY <1>1, Added DEF TypeOK, d
<1> QED BY <1>1, <1>2 DEF DeadGrow, SameJob

\* A step that leaves the stream, or the dead letter queue, as it is.
LEMMA Unread ==
  /\ TypeOK /\ UNCHANGED stream => StreamGrows
  /\ TypeOK /\ UNCHANGED dlq => DeadGrow
BY DEF TypeOK, StreamGrows, DeadGrow, SameJob

\* The message that a loop handles.
LEMMA Handled ==
  ASSUME TypeInv, NEW w \in Workers, step[w] \in Handling
  PROVE  cur[w] \in DOMAIN stream /\ stream[cur[w]] \in Entry
<1>1. cur[w] \in DOMAIN stream
  BY DEF TypeInv
<1> QED BY <1>1, ElementOfSeq, LenProperties DEF TypeInv, TypeOK

\* The entry that an operator retries.
LEMMA Retried ==
  ASSUME TypeInv, NEW o \in Operators, Revive(o)
  PROVE  LET e == dlq[session[o].entry]
             f == [job |-> e.job, retry |-> 0, error |-> e.error]
         IN /\ session[o].entry \in DOMAIN dlq /\ e \in DeadEntry
            /\ f \in Job /\ stream' = Append(stream, NewEntry(f))
<1>1. session[o].at = "add"
  BY DEF Revive
<1>2. session[o].entry \in DOMAIN dlq
  BY <1>1 DEF TypeInv
<1>3. dlq[session[o].entry] \in DeadEntry
  BY <1>2, ElementOfSeq, LenProperties DEF TypeInv, TypeOK
<1> QED BY <1>2, <1>3 DEF Revive, DeadEntry, Job

\* Every command only adds to the stream and to the dead letter queue, and marks
\* what is there.
LEMMA Grows ==
  ASSUME TypeInv, [Next]_vars
  PROVE  StreamGrows /\ DeadGrow
<1> USE DEF TypeInv
<1>1. CASE \E j \in Jobs : Enqueue(j)
  BY <1>1, EnqueuedEntry, Unread DEF Enqueue
<1>2. CASE \E j \in Jobs : Schedule(j)
  BY <1>2, Unread DEF Schedule
<1>3. ASSUME NEW w \in Workers,
             Read(w) \/ Claim(w) \/ Ack(w) \/ AckFailed(w) \/ Move(w) \/ HandleError(w)
      PROVE  StreamGrows /\ DeadGrow
  <2>1. CASE Read(w)
    BY <2>1, ReadEntries, Unread DEF Read
  <2>2. CASE Claim(w)
    BY <2>2, ClaimedEntry, Unread DEF Claim
  <2>3. CASE Ack(w)
    BY <2>3, Handled, AckedEntry, Unread DEF Ack, Handling
  <2>4. CASE AckFailed(w)
    BY <2>4, Handled, AckedEntry, Unread DEF AckFailed, Handling
  <2>5. CASE Move(w)
    <3>1. PICK e \in due[w] : stream' = Append(stream, NewEntry(e))
      BY <2>5 DEF Move
    <3>2. e \in Job
      BY DEF TypeOK
    <3> QED BY <2>5, <3>1, <3>2, EntryAdded, Unread DEF Move
  <2>6. CASE HandleError(w)
    <3>1. stream[cur[w]] \in Entry
      BY <2>6, Handled DEF HandleError, Handling
    <3> QED BY <2>6, <3>1, BuriedEntry, Unread DEF HandleError
  <2> QED BY <1>3, <2>1, <2>2, <2>3, <2>4, <2>5, <2>6
<1>4. ASSUME NEW w \in Workers,
             \/ Run(w) \/ Block(w) \/ ReadNothing(w) \/ LeaveLoop(w) \/ Begin(w)
             \/ HandlerReturns(w) \/ HandlerRaises(w) \/ Count(w)
             \/ Poll(w) \/ Unschedule(w) \/ Trouble(w)
      PROVE  StreamGrows /\ DeadGrow
  <2>1. UNCHANGED <<stream, dlq>>
    BY <1>4 DEF Run, Block, ReadNothing, LeaveLoop, Begin, HandlerReturns, HandlerRaises, Count,
       Poll, Unschedule, Trouble, Stop, Crash, AckFails, HandlingFails, MoveFails, Incident
  <2> QED BY <2>1, Unread
<1>5. ASSUME NEW o \in Operators, ManageDead(o) PROVE StreamGrows /\ DeadGrow
  <2>1. CASE ReadDead(o)
    BY <2>1, Unread DEF ReadDead
  <2>2. CASE Revive(o)
    BY <2>2, Retried, EntryAdded, Unread DEF Revive
  <2>3. CASE DeleteRevived(o)
    <3>1. session[o].entry \in DOMAIN dlq
      BY <2>3 DEF DeleteRevived
    <3> QED BY <2>3, <3>1, DeletedEntry, Unread DEF DeleteRevived
  <2>4. CASE Discard(o)
    <3>1. PICK i \in Dead : Deleted(i)
      BY <2>4 DEF Discard
    <3>2. i \in DOMAIN dlq
      BY DEF Dead
    <3> QED BY <2>4, <3>1, <3>2, DeletedEntry, Unread DEF Discard
  <2> QED BY <1>5, <2>1, <2>2, <2>3, <2>4 DEF ManageDead
<1>6. CASE UNCHANGED vars
  BY <1>6, Unread DEF vars
<1> QED BY <1>1, <1>2, <1>3, <1>4, <1>5, <1>6 DEF Next, Produce, Consume, ProcessScheduled

\* Every step keeps the types.
LEMMA TypeStep == TypeInv /\ [Next]_vars => TypeInv'
<1> SUFFICES ASSUME TypeInv, [Next]_vars PROVE TypeInv'
  OBVIOUS
<1>0. /\ stream' \in Seq(Entry) /\ DOMAIN stream \subseteq DOMAIN stream'
      /\ dlq' \in Seq(DeadEntry) /\ DOMAIN dlq \subseteq DOMAIN dlq'
  BY Grows DEF StreamGrows, DeadGrow
<1> USE DEF TypeInv
<1>1. CASE Produce
  <2>1. PICK j \in Jobs : Enqueue(j) \/ Schedule(j)
    BY <1>1 DEF Produce
  <2>2. scheduled' \subseteq Job /\ dropped' \subseteq Jobs
    BY <2>1, FirstTryType, EnqueuedEntry DEF Enqueue, Schedule, TypeOK
  <2> QED BY <1>0, <2>1, <2>2 DEF Enqueue, Schedule, worker, TypeOK
<1>2. ASSUME NEW w \in Workers,
             \/ Run(w) \/ Block(w) \/ ReadNothing(w) \/ LeaveLoop(w)
             \/ HandlerRaises(w) \/ Ack(w) \/ Count(w) \/ AckFailed(w)
      PROVE  TypeInv'
  <2>1. CASE Run(w)
    BY <1>0, <2>1 DEF Run, Goto, TypeOK, Handling, history
  <2>2. CASE Block(w) \/ ReadNothing(w) \/ LeaveLoop(w)
    BY <1>0, <2>2 DEF Block, ReadNothing, LeaveLoop, Goto, TypeOK, Handling, history
  <2>3. CASE HandlerRaises(w) \/ Ack(w)
    BY <1>0, <2>3 DEF HandlerRaises, Ack, Goto, TypeOK, Handling, history
  <2>4. CASE Count(w) \/ AckFailed(w)
    <3>1. NextMessage(w)
      BY <2>4 DEF Count, AckFailed
    <3>2. /\ batch' \in [Workers -> SUBSET DOMAIN stream]
          /\ cur' \in [Workers -> DOMAIN stream \union {0}]
      BY <3>1 DEF NextMessage, TypeOK
    <3>3. \E l \in {"wait", "next"} : step' = [step EXCEPT ![w] = l]
      BY <3>1 DEF NextMessage, Goto
    <3>4. \A v \in Workers \ {w} : cur'[v] = cur[v]
      BY <3>1 DEF NextMessage, TypeOK
    <3>5. UNCHANGED <<scheduled, dlq, running, due, moving, session, incidents, history>>
      BY <2>4 DEF Count, AckFailed
    <3> QED BY <1>0, <3>2, <3>3, <3>4, <3>5 DEF TypeOK, Handling, history
  <2> QED BY <1>2, <2>1, <2>2, <2>3, <2>4
<1>3. ASSUME NEW w \in Workers, Read(w) PROVE TypeInv'
  BY <1>0, <1>3, ReadEntries DEF Read, Goto, TypeOK, Handling, history
<1>4. ASSUME NEW w \in Workers, Begin(w) PROVE TypeInv'
  <2>1. PICK i \in batch[w] : /\ cur' = [cur EXCEPT ![w] = i]
                              /\ attempts' = [attempts EXCEPT ![stream[i].job] = @ + 1]
    BY <1>4 DEF Begin
  <2>2. i \in DOMAIN stream
    BY DEF TypeOK
  <2>3. stream[i].job \in Jobs
    <3>1. stream[i] \in Entry
      BY <2>2, ElementOfSeq, LenProperties DEF TypeOK
    <3> QED BY <3>1 DEF Entry
  <2>4. attempts' \in [Jobs -> Nat] /\ cur' \in [Workers -> DOMAIN stream \union {0}]
    BY <2>1, <2>2, <2>3 DEF TypeOK
  <2>5. /\ \A v \in Workers \ {w} : cur'[v] = cur[v]
        /\ cur'[w] \in DOMAIN stream
    BY <2>1, <2>2 DEF TypeOK
  <2> QED BY <1>0, <1>4, <2>4, <2>5 DEF Begin, Goto, TypeOK, Handling
<1>5. ASSUME NEW w \in Workers, HandlerReturns(w) PROVE TypeInv'
  <2>1. stream[cur[w]].job \in Jobs
    BY <1>5, Handled DEF HandlerReturns, Handling, Entry
  <2> QED BY <1>0, <1>5, <2>1 DEF HandlerReturns, Goto, TypeOK, Handling
<1>6. ASSUME NEW w \in Workers, HandleError(w) PROVE TypeInv'
  <2>1. stream[cur[w]] \in Entry
    BY <1>6, Handled DEF HandleError, Handling
  <2>2. \A text \in Errors : [Failed(stream[cur[w]], text) EXCEPT !.retry = @ + 1] \in Job
    BY <2>1 DEF Failed, Entry, Job
  <2>3. scheduled' \subseteq Job
    BY <1>6, <2>2 DEF HandleError, TypeOK
  <2> QED BY <1>0, <1>6, <2>3 DEF HandleError, Goto, TypeOK, Handling, history
<1>7. ASSUME NEW w \in Workers, Claim(w) PROVE TypeInv'
  BY <1>0, <1>7 DEF Claim, worker, TypeOK, Handling, history
<1>8. ASSUME NEW w \in Workers, ProcessScheduled(w) PROVE TypeInv'
  <2>1. scheduled' \subseteq Job
    BY <1>8 DEF ProcessScheduled, Poll, Move, Unschedule, TypeOK
  <2>2. /\ due' \in [Workers -> SUBSET Job]
        /\ moving' \in [Workers -> Job \union {None}]
    <3>1. CASE Poll(w)
      <4>1. PICK ready \in SUBSET scheduled : due' = [due EXCEPT ![w] = ready]
        BY <3>1 DEF Poll
      <4> QED BY <3>1, <4>1 DEF Poll, TypeOK
    <3>2. CASE Move(w)
      <4>1. PICK e \in due[w] : moving' = [moving EXCEPT ![w] = e]
        BY <3>2 DEF Move
      <4> QED BY <3>2, <4>1 DEF Move, TypeOK
    <3>3. CASE Unschedule(w)
      BY <3>3 DEF Unschedule, TypeOK
    <3> QED BY <1>8, <3>1, <3>2, <3>3 DEF ProcessScheduled
  <2>4. UNCHANGED <<dlq, running, step, batch, cur, session, incidents, history>>
    BY <1>8 DEF ProcessScheduled, Poll, Move, Unschedule
  <2> QED BY <1>0, <2>1, <2>2, <2>4 DEF TypeOK, Handling, history
<1>9. ASSUME NEW w \in Workers, Trouble(w) PROVE TypeInv'
  <2>1. incidents' \in Nat /\ UNCHANGED <<dlq, scheduled, session, history>>
    BY <1>9 DEF Trouble, Stop, Crash, AckFails, HandlingFails, MoveFails, Incident, TypeOK
  <2>2. CASE Stop(w) \/ AckFails(w)
    BY <1>0, <2>1, <2>2 DEF Stop, AckFails, Goto, TypeOK, Handling, history
  <2>3. CASE Crash(w)
    BY <1>0, <2>1, <2>3 DEF Crash, Goto, TypeOK, Handling, history
  <2>4. CASE HandlingFails(w)
    BY <1>0, <2>1, <2>4 DEF HandlingFails, Goto, TypeOK, Handling, history
  <2>5. CASE MoveFails(w)
    <3>1. due' \in [Workers -> SUBSET Job] /\ moving' \in [Workers -> Job \union {None}]
      BY <2>5 DEF MoveFails, TypeOK
    <3> QED BY <1>0, <2>1, <2>5, <3>1 DEF MoveFails, TypeOK, Handling, history
  <2> QED BY <1>9, <2>2, <2>3, <2>4, <2>5 DEF Trouble
<1>10. ASSUME NEW o \in Operators, ManageDead(o) PROVE TypeInv'
  <2>1. CASE ReadDead(o)
    BY <1>0, <2>1 DEF ReadDead, Dead, worker, TypeOK, history
  <2>2. CASE Revive(o)
    <3>1. dlq[session[o].entry].job \in Jobs
      BY <2>2, Retried DEF DeadEntry
    <3> QED BY <1>0, <2>2, <3>1 DEF Revive, worker, TypeOK
  <2>3. CASE DeleteRevived(o)
    BY <1>0, <2>3 DEF DeleteRevived, Idle, worker, TypeOK, history
  <2>4. CASE Discard(o)
    <3>1. \A i \in Dead : dlq[i].job \in Jobs
      <4>1. \A i \in DOMAIN dlq : dlq[i] \in DeadEntry
        BY ElementOfSeq, LenProperties DEF TypeOK
      <4> QED BY <4>1 DEF Dead, DeadEntry
    <3> QED BY <1>0, <2>4, <3>1 DEF Discard, worker, TypeOK
  <2> QED BY <1>10, <2>1, <2>2, <2>3, <2>4 DEF ManageDead
<1>11. CASE UNCHANGED vars
  BY <1>11 DEF vars, worker, history, TypeOK
<1> QED BY <1>1, <1>2, <1>3, <1>4, <1>5, <1>6, <1>7, <1>8, <1>9, <1>10, <1>11 DEF Next, Consume

\* Every variable keeps its type, and a loop that handles a message or an operator
\* that retries one holds an entry that is there.
LEMMA TypeInvariant == Spec => []TypeInv
<1> QED BY TypeInit, TypeStep, PTL DEF Spec

\* The fields of the jobs in Redis keep their types, and no loop is anywhere but
\* at its steps.
THEOREM TypeCorrect == Spec => []TypeOK
<1>1. TypeInv => TypeOK
  BY DEF TypeInv
<1> QED BY <1>1, TypeInvariant, PTL

--------------------------------------------------------------------------------
(* The dead letter queue.  A job carries at most as many retries as its    *)
(* handler had attempts, wherever its copies are; while one is handled, the *)
(* attempt that began with it counts too.                                  *)

Tried(e) == attempts[e.job] >= e.retry

AttemptsInv ==
  /\ \A i \in DOMAIN stream : Tried(stream[i])
  /\ \A e \in scheduled : Tried(e)
  /\ \A w \in Workers : \A e \in due[w] : Tried(e)
  /\ \A w \in Workers :
       step[w] \in Handling => attempts[stream[cur[w]].job] > stream[cur[w]].retry
  /\ DeadAfterAllAttempts

\* The fields of what is stored.
LEMMA StoredTypes ==
  ASSUME TypeOK
  PROVE  /\ \A i \in DOMAIN stream : stream[i].job \in Jobs /\ stream[i].retry \in Nat
         /\ \A e \in scheduled : e.job \in Jobs /\ e.retry \in Nat
         /\ \A w \in Workers : \A e \in due[w] : e \in Job /\ e.job \in Jobs /\ e.retry \in Nat
         /\ \A i \in DOMAIN dlq : dlq[i].job \in Jobs
<1>1. \A i \in DOMAIN stream : stream[i] \in Entry
  BY ElementOfSeq, LenProperties DEF TypeOK
<1>2. \A i \in DOMAIN dlq : dlq[i] \in DeadEntry
  BY ElementOfSeq, LenProperties DEF TypeOK
<1>3. \A w \in Workers : \A e \in due[w] : e \in Job
  BY DEF TypeOK
<1> QED BY <1>1, <1>2, <1>3 DEF Entry, DeadEntry, TypeOK, Job

\* Nothing is forgotten of what happened to a job.
LEMMA HistoryGrows ==
  ASSUME TypeInv, [Next]_vars
  PROVE  /\ \A j \in Jobs : attempts'[j] >= attempts[j] /\ completed'[j] >= completed[j]
         /\ enqueued \subseteq enqueued' /\ dropped \subseteq dropped' /\ revived \subseteq revived'
<1>1. \A j \in Jobs : attempts[j] \in Nat /\ completed[j] \in Nat
  BY DEF TypeInv, TypeOK
<1>2. CASE UNCHANGED attempts /\ UNCHANGED completed
  <2>1. enqueued \subseteq enqueued' /\ dropped \subseteq dropped' /\ revived \subseteq revived'
    BY DEF Next, vars, Produce, Enqueue, Schedule, Run, Consume, Block, ReadNothing, Read, LeaveLoop,
       Begin, HandlerReturns, HandlerRaises, Ack, Count, HandleError, AckFailed, Claim,
       ProcessScheduled, Poll, Move, Unschedule, Trouble, Stop, Crash, AckFails, HandlingFails,
       MoveFails, Incident, ManageDead, ReadDead, Revive, DeleteRevived, Discard, history
  <2> QED BY <1>1, <1>2, <2>1
<1>3. CASE \E w \in Workers : Begin(w) \/ HandlerReturns(w)
  <2>1. PICK w \in Workers : Begin(w) \/ HandlerReturns(w)
    BY <1>3
  <2>4. UNCHANGED <<enqueued, dropped, revived>>
    BY <2>1 DEF Begin, HandlerReturns
  <2>2. CASE Begin(w)
    <3>1. PICK i : attempts' = [attempts EXCEPT ![i] = @ + 1]
      BY <2>2 DEF Begin
    <3>2. \A j \in Jobs : attempts'[j] = IF i = j THEN attempts[j] + 1 ELSE attempts[j]
      BY <3>1 DEF TypeInv, TypeOK
    <3>3. completed' = completed
      BY <2>2 DEF Begin
    <3> QED BY <1>1, <2>4, <3>2, <3>3
  <2>3. CASE HandlerReturns(w)
    <3>1. PICK i : completed' = [completed EXCEPT ![i] = @ + 1]
      BY <2>3 DEF HandlerReturns
    <3>2. \A j \in Jobs : completed'[j] = IF i = j THEN completed[j] + 1 ELSE completed[j]
      BY <3>1 DEF TypeInv, TypeOK
    <3>3. attempts' = attempts
      BY <2>3 DEF HandlerReturns
    <3> QED BY <1>1, <2>4, <3>2, <3>3
  <2> QED BY <2>1, <2>2, <2>3
<1> QED BY <1>2, <1>3
        DEF Next, vars, Produce, Enqueue, Schedule, Run, Consume, Block, ReadNothing, Read, LeaveLoop,
       HandlerRaises, Ack, Count, HandleError, AckFailed, Claim,
       ProcessScheduled, Poll, Move, Unschedule, Trouble, Stop, Crash, AckFails, HandlingFails,
       MoveFails, Incident, ManageDead, ReadDead, Revive, DeleteRevived, Discard, history

\* What was tried stays tried; only what is new has to be.
LEMMA AttemptsKept ==
  ASSUME TypeInv, TypeInv', AttemptsInv, [Next]_vars,
         \A i \in DOMAIN stream' \ DOMAIN stream : attempts[stream'[i].job] >= stream'[i].retry,
         \A e \in scheduled' \ scheduled : attempts[e.job] >= e.retry,
         \A w \in Workers : due'[w] \subseteq due[w] \union scheduled,
         \A w \in Workers :
           step'[w] \in Handling =>
             \/ step[w] \in Handling /\ cur'[w] = cur[w]
             \/ cur'[w] \in DOMAIN stream /\ attempts'[stream[cur'[w]].job] > stream[cur'[w]].retry,
         \A i \in DOMAIN dlq' \ DOMAIN dlq : attempts[dlq'[i].job] > MaxRetries
  PROVE  AttemptsInv'
<1>1. StreamGrows /\ DeadGrow /\ \A j \in Jobs : attempts'[j] >= attempts[j]
  BY Grows, HistoryGrows
<1>2. \A j \in Jobs : attempts[j] \in Nat /\ attempts'[j] \in Nat
  BY DEF TypeInv, TypeOK
<1>3. /\ \A i \in DOMAIN stream : stream[i].job \in Jobs /\ stream[i].retry \in Nat
      /\ \A e \in scheduled : e.job \in Jobs /\ e.retry \in Nat
      /\ \A w \in Workers : \A e \in due[w] : e.job \in Jobs /\ e.retry \in Nat
      /\ \A i \in DOMAIN dlq : dlq[i].job \in Jobs
  BY StoredTypes DEF TypeInv
<1>4. /\ \A i \in DOMAIN stream' : stream'[i].job \in Jobs /\ stream'[i].retry \in Nat
      /\ \A e \in scheduled' : e.job \in Jobs /\ e.retry \in Nat
      /\ \A w \in Workers : \A e \in due'[w] : e.job \in Jobs /\ e.retry \in Nat
      /\ \A i \in DOMAIN dlq' : dlq'[i].job \in Jobs
  <2>1. TypeOK'
    BY DEF TypeInv
  <2>2. \A i \in DOMAIN stream' : stream'[i] \in Entry
    BY <2>1, ElementOfSeq, LenProperties DEF TypeOK
  <2>3. \A i \in DOMAIN dlq' : dlq'[i] \in DeadEntry
    BY <2>1, ElementOfSeq, LenProperties DEF TypeOK
  <2> QED BY <2>1, <2>2, <2>3 DEF TypeOK, Entry, DeadEntry, Job
<1>5. \A i \in DOMAIN stream' : Tried(stream[i])'
  BY <1>1, <1>2, <1>3, <1>4 DEF AttemptsInv, Tried, StreamGrows, SameJob
<1>6. \A e \in scheduled' : attempts'[e.job] >= e.retry
  BY <1>1, <1>2, <1>3, <1>4 DEF AttemptsInv, Tried
<1>7. \A w \in Workers : \A e \in due'[w] : attempts'[e.job] >= e.retry
  BY <1>1, <1>2, <1>3, <1>4 DEF AttemptsInv, Tried
<1>8. ASSUME NEW w \in Workers, step'[w] \in Handling
      PROVE  attempts'[stream'[cur'[w]].job] > stream'[cur'[w]].retry
  <2>1. cur'[w] \in DOMAIN stream /\ attempts'[stream[cur'[w]].job] > stream[cur'[w]].retry
    BY <1>1, <1>2, <1>3, <1>8 DEF AttemptsInv, TypeInv
  <2> QED BY <1>1, <2>1 DEF StreamGrows, SameJob
<1>9. DeadAfterAllAttempts'
  BY <1>1, <1>2, <1>3, <1>4, QueueAssumption DEF AttemptsInv, DeadAfterAllAttempts, DeadGrow, SameJob
<1> QED BY <1>5, <1>6, <1>7, <1>8, <1>9 DEF AttemptsInv, Tried

\* Nothing is stored at first.
LEMMA AttemptsInit == Init => AttemptsInv
BY DEF Init, AttemptsInv, DeadAfterAllAttempts, Handling

\* Every step keeps the count.
LEMMA AttemptsStep == TypeInv /\ AttemptsInv /\ [Next]_vars => AttemptsInv'
<1> SUFFICES ASSUME TypeInv, AttemptsInv, [Next]_vars PROVE AttemptsInv'
  OBVIOUS
<1>0. TypeInv' /\ TypeOK
  BY TypeStep DEF TypeInv
<1>11. /\ \A i \in DOMAIN stream : stream[i].job \in Jobs /\ stream[i].retry \in Nat
       /\ \A i \in DOMAIN dlq : dlq[i].job \in Jobs
       /\ \A j \in Jobs : attempts[j] \in Nat
  BY <1>0, StoredTypes DEF TypeOK
<1>1. ASSUME NEW j \in Jobs, Enqueue(j) PROVE AttemptsInv'
  <2>1. \A i \in DOMAIN stream' \ DOMAIN stream : attempts[stream'[i].job] >= stream'[i].retry
    <3>1. /\ DOMAIN stream' = DOMAIN stream \union {Len(stream) + 1}
          /\ stream'[Len(stream) + 1].job = j /\ stream'[Len(stream) + 1].retry = 0
      BY <1>0, <1>1, EnqueuedEntry
    <3>2. attempts[j] >= 0
      BY <1>11
    <3> QED BY <3>1, <3>2
  <2>2. UNCHANGED <<scheduled, dlq, due, step, cur>>
    BY <1>1 DEF Enqueue, worker
  <2> QED BY <1>0, <2>1, <2>2, AttemptsKept
<1>2. ASSUME NEW j \in Jobs, Schedule(j) PROVE AttemptsInv'
  <2>1. \A e \in scheduled' \ scheduled : attempts[e.job] >= e.retry
    <3>1. FirstTry(j).job = j /\ FirstTry(j).retry = 0 /\ attempts[j] >= 0
      BY <1>11, FirstTryType
    <3>2. scheduled' = scheduled \union {FirstTry(j)}
      BY <1>2 DEF Schedule
    <3> QED BY <3>1, <3>2
  <2>2. UNCHANGED <<stream, dlq, due, step, cur>>
    BY <1>2 DEF Schedule, worker
  <2> QED BY <1>0, <2>1, <2>2, AttemptsKept
<1>3. ASSUME NEW w \in Workers, Begin(w) PROVE AttemptsInv'
  <2>1. PICK i \in batch[w] : /\ cur' = [cur EXCEPT ![w] = i]
                              /\ attempts' = [attempts EXCEPT ![stream[i].job] = @ + 1]
    BY <1>3 DEF Begin
  <2>2. i \in DOMAIN stream /\ stream[i].job \in Jobs /\ attempts[stream[i].job] >= stream[i].retry
    BY <1>0, <1>11 DEF TypeOK, AttemptsInv, Tried
  <2>3. cur'[w] = i /\ \A v \in Workers \ {w} : cur'[v] = cur[v] /\ step'[v] = step[v]
    BY <1>0, <1>3, <2>1 DEF Begin, Goto, TypeOK
  <2>4. attempts'[stream[i].job] > stream[i].retry
    BY <1>0, <1>11, <2>1, <2>2 DEF TypeOK
  <2>5. UNCHANGED <<stream, scheduled, dlq, due>>
    BY <1>3 DEF Begin
  <2>6. \A v \in Workers :
          step'[v] \in Handling =>
            \/ step[v] \in Handling /\ cur'[v] = cur[v]
            \/ cur'[v] \in DOMAIN stream /\ attempts'[stream[cur'[v]].job] > stream[cur'[v]].retry
    BY <2>2, <2>3, <2>4
  <2> QED BY <1>0, <2>5, <2>6, AttemptsKept
<1>4. ASSUME NEW w \in Workers, HandleError(w) PROVE AttemptsInv'
  <2> DEFINE e == stream[cur[w]]
  <2>1. step[w] \in Handling /\ e \in Entry /\ cur[w] \in DOMAIN stream
    BY <1>4, Handled DEF HandleError, Handling
  <2>2. attempts[e.job] > e.retry /\ e.job \in Jobs /\ e.retry \in Nat
    BY <1>11, <2>1 DEF AttemptsInv
  <2>3. PICK text \in Errors :
          \/ scheduled' = scheduled \union {[Failed(e, text) EXCEPT !.retry = @ + 1]} /\ UNCHANGED dlq
          \/ ~Retriable(e) /\ dlq' = Append(dlq, Buried(Failed(e, text))) /\ UNCHANGED scheduled
    BY <1>4 DEF HandleError
  <2> HIDE DEF e
  <2>4. \A d \in scheduled' \ scheduled : attempts[d.job] >= d.retry
    <3> DEFINE f == [Failed(e, text) EXCEPT !.retry = @ + 1]
    <3>1. f.job = e.job /\ f.retry = e.retry + 1
      BY DEF Failed
    <3>2. attempts[e.job] >= e.retry + 1
      BY <1>11, <2>2
    <3>3. scheduled' \subseteq scheduled \union {f}
      BY <2>3
    <3> HIDE DEF f
    <3> QED BY <3>1, <3>2, <3>3
  <2>5. \A i \in DOMAIN dlq' \ DOMAIN dlq : attempts[dlq'[i].job] > MaxRetries
    <3>1. CASE ~Retriable(e) /\ dlq' = Append(dlq, Buried(Failed(e, text)))
      <4>1. /\ DOMAIN dlq' = DOMAIN dlq \union {Len(dlq) + 1}
            /\ dlq'[Len(dlq) + 1].job = e.job
        BY <1>0, <2>1, <3>1, BuriedEntry
      <4>2. attempts[e.job] > MaxRetries
        BY <1>11, <2>2, <3>1, QueueAssumption DEF Retriable
      <4> QED BY <4>1, <4>2
    <3>2. CASE UNCHANGED dlq
      BY <3>2
    <3> QED BY <2>3, <3>1, <3>2
  <2>6. /\ UNCHANGED <<stream, due, cur>>
        /\ \A v \in Workers : step'[v] \in Handling => step[v] \in Handling
    BY <1>0, <1>4, <2>1 DEF HandleError, Goto, TypeOK
  <2> QED BY <1>0, <2>4, <2>5, <2>6, AttemptsKept
<1>5. ASSUME NEW w \in Workers, Move(w) PROVE AttemptsInv'
  <2>1. PICK e \in due[w] : stream' = Append(stream, NewEntry(e))
    BY <1>5 DEF Move
  <2>2. e \in Job /\ attempts[e.job] >= e.retry
    BY <1>0 DEF TypeOK, AttemptsInv, Tried
  <2>3. \A i \in DOMAIN stream' \ DOMAIN stream : attempts[stream'[i].job] >= stream'[i].retry
    BY <1>0, <2>1, <2>2, EntryAdded, NewEntryType
  <2>4. UNCHANGED <<scheduled, dlq, due, step, cur>>
    BY <1>5 DEF Move
  <2> QED BY <1>0, <2>3, <2>4, AttemptsKept
<1>6. ASSUME NEW w \in Workers, Poll(w) PROVE AttemptsInv'
  <2>1. PICK ready \in SUBSET scheduled : due' = [due EXCEPT ![w] = ready]
    BY <1>6 DEF Poll
  <2>2. \A v \in Workers : due'[v] \subseteq due[v] \union scheduled
    BY <1>0, <2>1 DEF TypeOK
  <2>3. UNCHANGED <<stream, scheduled, dlq, step, cur>>
    BY <1>6 DEF Poll
  <2> QED BY <1>0, <2>2, <2>3, AttemptsKept
<1>7. ASSUME NEW o \in Operators, ManageDead(o) PROVE AttemptsInv'
  <2>1. UNCHANGED <<scheduled, due, step, cur>>
    BY <1>7 DEF ManageDead, ReadDead, Revive, DeleteRevived, Discard, worker
  <2>2. \A i \in DOMAIN stream' \ DOMAIN stream : attempts[stream'[i].job] >= stream'[i].retry
    <3>1. CASE Revive(o)
      <4> DEFINE e == dlq[session[o].entry]
                 f == [job |-> e.job, retry |-> 0, error |-> e.error]
      <4>1. e.job \in Jobs /\ f \in Job /\ stream' = Append(stream, NewEntry(f))
        BY <1>11, <3>1, Retried
      <4>2. f.job = e.job /\ f.retry = 0
        OBVIOUS
      <4> HIDE DEF f
      <4>3. /\ DOMAIN stream' = DOMAIN stream \union {Len(stream) + 1}
            /\ stream'[Len(stream) + 1] = NewEntry(f)
        BY <1>0, <4>1, EntryAdded
      <4>4. NewEntry(f).job = e.job /\ NewEntry(f).retry = 0
        BY <4>1, <4>2, NewEntryType
      <4>5. attempts[e.job] >= 0
        BY <1>11, <4>1
      <4> QED BY <4>3, <4>4, <4>5
    <3>2. CASE ~Revive(o)
      BY <1>7, <3>2 DEF ManageDead, ReadDead, DeleteRevived, Discard
    <3> QED BY <3>1, <3>2
  <2>3. DOMAIN dlq' = DOMAIN dlq
    BY <1>7 DEF ManageDead, ReadDead, Revive, DeleteRevived, Discard, Deleted
  <2> QED BY <1>0, <2>1, <2>2, <2>3, AttemptsKept
<1>8. ASSUME NEW w \in Workers, Read(w) \/ Claim(w) \/ Ack(w) \/ AckFailed(w) PROVE AttemptsInv'
  <2>1. DOMAIN stream' = DOMAIN stream
    BY <1>8 DEF Read, Claim, Ack, AckFailed, Acked
  <2>2. UNCHANGED <<scheduled, dlq, due>>
    BY <1>8 DEF Read, Claim, Ack, AckFailed, worker
  <2>3. \A v \in Workers : step'[v] \in Handling => step[v] \in Handling /\ cur'[v] = cur[v]
    BY <1>0, <1>8 DEF Read, Claim, Ack, AckFailed, NextMessage, Goto, worker, Handling, TypeOK
  <2> QED BY <1>0, <2>1, <2>2, <2>3, AttemptsKept
<1>9. ASSUME NEW w \in Workers,
             \/ Run(w) \/ Block(w) \/ ReadNothing(w) \/ LeaveLoop(w) \/ HandlerReturns(w)
             \/ HandlerRaises(w) \/ Count(w) \/ Unschedule(w) \/ Trouble(w)
      PROVE  AttemptsInv'
  <2>1. UNCHANGED <<stream, dlq>> /\ scheduled' \subseteq scheduled
    BY <1>9 DEF Run, Block, ReadNothing, LeaveLoop, HandlerReturns, HandlerRaises, Count, Unschedule,
       Trouble, Stop, Crash, AckFails, HandlingFails, MoveFails, Incident
  <2>2. \A v \in Workers : due'[v] \subseteq due[v]
    <3>1. CASE Unschedule(w)
      BY <1>0, <3>1 DEF Unschedule, TypeOK
    <3>2. CASE Crash(w)
      BY <1>0, <3>2 DEF Crash, TypeOK
    <3>3. CASE MoveFails(w)
      BY <1>0, <3>3 DEF MoveFails, TypeOK
    <3> QED BY <1>9, <3>1, <3>2, <3>3 DEF Run, Block, ReadNothing, LeaveLoop, HandlerReturns,
              HandlerRaises, Count, Trouble, Stop, AckFails, HandlingFails
  <2>3. \A v \in Workers : step'[v] \in Handling => step[v] \in Handling /\ cur'[v] = cur[v]
    BY <1>0, <1>9 DEF Run, Block, ReadNothing, LeaveLoop, HandlerReturns, HandlerRaises, Count,
       Unschedule, Trouble, Stop, Crash, AckFails, HandlingFails, MoveFails, Incident,
       NextMessage, Goto, Handling, TypeOK
  <2> QED BY <1>0, <2>1, <2>2, <2>3, AttemptsKept
<1>10. CASE UNCHANGED vars
  BY <1>0, <1>10, AttemptsKept DEF vars, worker
<1> QED BY <1>1, <1>2, <1>3, <1>4, <1>5, <1>6, <1>7, <1>8, <1>9, <1>10
        DEF Next, Produce, Consume, ProcessScheduled

\* A job reaches the dead letter queue only after its handler was tried once and
\* retried max_retries times, however its retries were split between workers,
\* duplicated, or started over by operators.
THEOREM DeadWereTried == Spec => []DeadAfterAllAttempts
<1>1. AttemptsInv => DeadAfterAllAttempts
  BY DEF AttemptsInv
<1> QED BY <1>1, AttemptsInit, AttemptsStep, TypeInvariant, PTL DEF Spec

--------------------------------------------------------------------------------
(* No job is lost.  A copy of a job is acknowledged, or taken out of the   *)
(* sorted set, only when another one is somewhere that carries at least as *)
(* many retries: were they not ordered, two copies could be each other's   *)
(* reason to go.                                                           *)

Excused(j) == completed[j] > 0 \/ j \in dropped \/ j \in revived

Active(j, n) == \E i \in New \union Pending : stream[i].job = j /\ stream[i].retry >= n
Due(j, n) == \E e \in scheduled : e.job = j /\ e.retry >= n
IsDead(j) == \E i \in Dead : dlq[i].job = j

\* The job is in the stream with n retries, or scheduled with m.
Kept(j, n, m) == Excused(j) \/ Active(j, n) \/ Due(j, m) \/ IsDead(j)

AccountInv ==
  /\ \A j \in enqueued : Kept(j, 0, 0)
  /\ \A w \in Workers : step[w] = "ack" => completed[stream[cur[w]].job] > 0
  /\ \A w \in Workers : step[w] = "ack_failed" =>
       LET e == stream[cur[w]] IN Kept(e.job, e.retry + 1, e.retry + 1)
  /\ \A w \in Workers : moving[w] # None =>
       LET e == moving[w] IN Kept(e.job, e.retry, e.retry + 1)
  /\ \A o \in Operators : session[o].at = "del" => dlq[session[o].entry].job \in revived

\* A step keeps a job unless it takes away what kept it.
LEMMA KeptUnless ==
  ASSUME TypeInv, [Next]_vars, NEW j \in Jobs, NEW n \in Nat, NEW m \in Nat, Kept(j, n, m),
         \A i \in New \union Pending :
           stream[i].job = j /\ stream[i].retry >= n => i \in (New \union Pending)' \/ Kept(j, n, m)',
         \A e \in scheduled :
           e.job = j /\ e.retry >= m => e \in scheduled' \/ Kept(j, n, m)',
         \A i \in Dead : dlq[i].job = j => i \in Dead' \/ Kept(j, n, m)'
  PROVE  Kept(j, n, m)'
<1>1. /\ \A i \in DOMAIN stream : SameJob(stream[i], stream'[i])
      /\ \A i \in DOMAIN dlq : SameJob(dlq[i], dlq'[i])
  BY Grows DEF StreamGrows, DeadGrow
<1>2. CASE Excused(j)
  <2>1. completed'[j] >= completed[j] /\ dropped \subseteq dropped' /\ revived \subseteq revived'
    BY HistoryGrows
  <2>2. completed[j] \in Nat /\ completed'[j] \in Nat
    BY TypeStep DEF TypeInv, TypeOK
  <2> QED BY <1>2, <2>1, <2>2 DEF Kept, Excused
<1>3. CASE Active(j, n)
  <2>1. PICK i \in New \union Pending : stream[i].job = j /\ stream[i].retry >= n
    BY <1>3 DEF Active
  <2>2. i \in DOMAIN stream
    BY DEF New, Pending
  <2>3. stream'[i].job = j /\ stream'[i].retry >= n
    BY <1>1, <2>1, <2>2 DEF SameJob
  <2>4. CASE i \in (New \union Pending)'
    BY <2>3, <2>4 DEF Kept, Active
  <2> QED BY <2>1, <2>4
<1>4. CASE Due(j, m)
  <2>1. PICK e \in scheduled : e.job = j /\ e.retry >= m
    BY <1>4 DEF Due
  <2>2. CASE e \in scheduled'
    BY <2>1, <2>2 DEF Kept, Due
  <2> QED BY <2>1, <2>2
<1>5. CASE IsDead(j)
  <2>1. PICK i \in Dead : dlq[i].job = j
    BY <1>5 DEF IsDead
  <2>2. i \in DOMAIN dlq
    BY DEF Dead
  <2>3. dlq'[i].job = j
    BY <1>1, <2>1, <2>2 DEF SameJob
  <2>4. CASE i \in Dead'
    BY <2>3, <2>4 DEF Kept, IsDead
  <2> QED BY <2>1, <2>4
<1> QED BY <1>2, <1>3, <1>4, <1>5 DEF Kept

\* With that, no step loses a job.
LEMMA KeptStep ==
  ASSUME TypeInv, AccountInv, [Next]_vars, NEW j \in Jobs, NEW n \in Nat, NEW m \in {n, n + 1},
         Kept(j, n, m)
  PROVE  Kept(j, n, m)'
<1>0. TypeOK /\ m \in Nat /\ TypeOK'
  BY TypeStep DEF TypeInv
<1> DEFINE InStream == New \union Pending
<1>1. \A i : i \in InStream <=> i \in DOMAIN stream /\ stream[i].state \in {"new", "pending"}
  BY DEF New, Pending
<1>2. \A i : i \in InStream' <=> i \in DOMAIN stream' /\ stream'[i].state \in {"new", "pending"}
  BY DEF New, Pending
<1>3. StreamGrows
  BY Grows
<1> HIDE DEF InStream
<1>4. ASSUME NEW w \in Workers, Ack(w) \/ AckFailed(w) PROVE Kept(j, n, m)'
  <2> DEFINE i == cur[w]
             e == stream[i]
  <2>1. i \in DOMAIN stream /\ e.job \in Jobs /\ e.retry \in Nat /\ Acked(i)
    BY <1>0, <1>4, Handled, StoredTypes DEF Ack, AckFailed, Handling
  <2>2. DOMAIN stream' = DOMAIN stream /\ \A k \in DOMAIN stream \ {i} : stream'[k] = stream[k]
    BY <1>0, <2>1, AckedEntry
  <2>3. UNCHANGED <<scheduled, dlq, completed, dropped, revived>>
    BY <1>4 DEF Ack, AckFailed, history
  <2>4. \A k \in InStream : k = i \/ k \in InStream'
    BY <1>1, <1>2, <2>2
  <2>5. ASSUME e.job = j, e.retry >= n PROVE Kept(j, n, m)'
    <3>1. CASE Ack(w)
      <4>1. completed[j] > 0
        BY <2>5, <3>1 DEF Ack, AccountInv
      <4> QED BY <2>3, <4>1 DEF Kept, Excused
    <3>2. CASE AckFailed(w)
      <4>1. Kept(e.job, e.retry + 1, e.retry + 1)
        BY <3>2 DEF AckFailed, AccountInv
      <4> HIDE DEF e, i
      <4>2. Excused(j) \/ Active(j, e.retry + 1) \/ Due(j, e.retry + 1) \/ IsDead(j)
        BY <2>5, <4>1 DEF Kept
      <4>3. CASE Active(j, e.retry + 1)
        <5>1. PICK k \in InStream : stream[k].job = j /\ stream[k].retry >= e.retry + 1
          BY <4>3 DEF Active, InStream
        <5>2. k \in DOMAIN stream /\ stream[k].retry \in Nat
          BY <1>0, <1>1, StoredTypes
        <5>3. k # i
          BY <2>1, <5>1, <5>2 DEF e
        <5>4. k \in InStream' /\ stream'[k] = stream[k]
          BY <2>2, <2>4, <5>2, <5>3
        <5>5. stream'[k].retry >= n
          BY <2>1, <2>5, <5>1, <5>2, <5>4
        <5> QED BY <5>1, <5>4, <5>5 DEF Kept, Active, InStream
      <4>4. CASE Due(j, e.retry + 1)
        <5>1. PICK d \in scheduled : d.job = j /\ d.retry >= e.retry + 1
          BY <4>4 DEF Due
        <5>2. d.retry \in Nat
          BY <1>0, StoredTypes
        <5>3. d.retry >= m
          BY <1>0, <2>1, <2>5, <5>1, <5>2
        <5> QED BY <2>3, <5>1, <5>3 DEF Kept, Due
      <4>5. CASE Excused(j) \/ IsDead(j)
        BY <2>3, <4>5 DEF Kept, Excused, IsDead, Dead
      <4> QED BY <4>2, <4>3, <4>4, <4>5
    <3> QED BY <1>4, <3>1, <3>2
  <2>6. Dead' = Dead
    BY <2>3 DEF Dead
  <2>7. \A k \in InStream : stream[k].job = j /\ stream[k].retry >= n => k \in InStream' \/ Kept(j, n, m)'
    BY <2>4, <2>5
  <2> QED BY <1>0, <2>3, <2>6, <2>7, KeptUnless DEF InStream
<1>5. ASSUME NEW w \in Workers, Unschedule(w) PROVE Kept(j, n, m)'
  <2> DEFINE e == moving[w]
  <2>1. e \in Job /\ scheduled' = scheduled \ {e} /\ UNCHANGED <<stream, dlq, completed, dropped, revived>>
    BY <1>0, <1>5 DEF Unschedule, TypeOK, history
  <2>2. Kept(e.job, e.retry, e.retry + 1)
    BY <1>5 DEF Unschedule, AccountInv
  <2>3. InStream' = InStream /\ Dead' = Dead
    BY <2>1 DEF InStream, New, Pending, Dead
  <2>4. ASSUME e.job = j, e.retry >= m PROVE Kept(j, n, m)'
    <3>1. e.retry \in Nat
      BY <2>1 DEF Job
    <3> HIDE DEF e
    <3>2. Excused(j) \/ Active(j, e.retry) \/ Due(j, e.retry + 1) \/ IsDead(j)
      BY <2>2, <2>4 DEF Kept
    <3>3. CASE Active(j, e.retry)
      <4>1. PICK k \in InStream : stream[k].job = j /\ stream[k].retry >= e.retry
        BY <3>3 DEF Active, InStream
      <4>2. stream[k].retry \in Nat
        BY <1>0, <1>1, StoredTypes
      <4>3. stream[k].retry >= n
        BY <1>0, <2>4, <3>1, <4>1, <4>2
      <4> QED BY <2>1, <2>3, <4>1, <4>3 DEF Kept, Active, InStream
    <3>4. CASE Due(j, e.retry + 1)
      <4>1. PICK d \in scheduled : d.job = j /\ d.retry >= e.retry + 1
        BY <3>4 DEF Due
      <4>2. d.retry \in Nat
        BY <1>0, StoredTypes
      <4>3. d # e /\ d.retry >= m
        BY <1>0, <2>4, <3>1, <4>1, <4>2
      <4> QED BY <2>1, <4>1, <4>3 DEF Kept, Due
    <3>5. CASE Excused(j) \/ IsDead(j)
      BY <2>1, <2>3, <3>5 DEF Kept, Excused, IsDead
    <3> QED BY <3>2, <3>3, <3>4, <3>5
  <2>5. \A d \in scheduled : d.job = j /\ d.retry >= m => d \in scheduled' \/ Kept(j, n, m)'
    BY <2>1, <2>4
  <2> QED BY <1>0, <2>3, <2>5, KeptUnless DEF InStream
<1>6. ASSUME NEW o \in Operators, DeleteRevived(o) \/ Discard(o) PROVE Kept(j, n, m)'
  <2>1. PICK i \in DOMAIN dlq : Deleted(i) /\ (dlq[i].job \in revived' \/ dlq[i].job \in dropped')
    <3>1. CASE DeleteRevived(o)
      <4>1. session[o].entry \in DOMAIN dlq /\ dlq[session[o].entry].job \in revived
        BY <3>1 DEF DeleteRevived, TypeInv, AccountInv
      <4> QED BY <3>1, <4>1 DEF DeleteRevived, history
    <3>2. CASE Discard(o)
      BY <3>2 DEF Discard, Dead
    <3> QED BY <1>6, <3>1, <3>2
  <2>2. UNCHANGED <<stream, scheduled>>
    BY <1>6 DEF DeleteRevived, Discard
  <2>3. InStream' = InStream
    BY <2>2 DEF InStream, New, Pending
  <2>4. \A k \in Dead : k = i \/ k \in Dead'
    BY <1>0, <2>1, DeletedEntry DEF Dead
  <2>5. dlq[i].job = j => Kept(j, n, m)'
    BY <2>1 DEF Kept, Excused
  <2> QED BY <1>0, <2>2, <2>3, <2>4, <2>5, KeptUnless DEF InStream
<1>7. ASSUME NEW q \in Jobs, Enqueue(q) PROVE Kept(j, n, m)'
  <2>1. \A i \in InStream : i \in InStream' \/ stream[i].job \in dropped'
    <3>1. /\ DOMAIN stream \subseteq DOMAIN stream'
          /\ \A i \in DOMAIN stream : stream'[i] = stream[i] \/ stream[i].job \in dropped'
      BY <1>0, <1>7, EnqueuedEntry
    <3> QED BY <1>1, <1>2, <3>1
  <2>2. UNCHANGED <<scheduled, dlq>> /\ Dead' = Dead
    BY <1>7 DEF Enqueue, Dead
  <2>3. j \in dropped' => Kept(j, n, m)'
    BY DEF Kept, Excused
  <2> QED BY <1>0, <2>1, <2>2, <2>3, KeptUnless DEF InStream
<1>8. CASE /\ scheduled \subseteq scheduled' /\ Dead \subseteq Dead'
           /\ \A i \in InStream : stream'[i].state \in {"new", "pending"}
  <2>1. InStream \subseteq InStream'
    BY <1>1, <1>2, <1>3, <1>8 DEF StreamGrows
  <2> QED BY <1>0, <1>8, <2>1, KeptUnless DEF InStream
<1>9. ASSUME NEW w \in Workers, Read(w) \/ Claim(w) \/ Move(w) \/ HandleError(w) PROVE Kept(j, n, m)'
  <2>1. scheduled \subseteq scheduled'
    BY <1>9 DEF Read, Claim, Move, HandleError
  <2>2. Dead \subseteq Dead'
    <3>1. CASE dlq' = dlq
      BY <3>1 DEF Dead
    <3>2. CASE HandleError(w)
      <4>1. stream[cur[w]] \in Entry
        BY <3>2, Handled DEF HandleError, Handling
      <4>2. PICK text \in Errors :
              UNCHANGED dlq \/ dlq' = Append(dlq, Buried(Failed(stream[cur[w]], text)))
        BY <3>2 DEF HandleError
      <4>3. dlq' # dlq => /\ DOMAIN dlq \subseteq DOMAIN dlq'
                         /\ \A i \in DOMAIN dlq : dlq'[i] = dlq[i]
        BY <1>0, <4>1, <4>2, BuriedEntry
      <4> QED BY <3>1, <4>3 DEF Dead
    <3> QED BY <1>9, <3>1, <3>2 DEF Read, Claim, Move
  <2>3. \A i \in InStream : stream'[i].state \in {"new", "pending"}
    <3>1. CASE Read(w)
      <4>1. \A i \in DOMAIN stream : stream'[i].state = "pending" \/ stream'[i] = stream[i]
        BY <1>0, <3>1, ReadEntries
      <4> QED BY <1>1, <4>1
    <3>2. CASE Claim(w)
      BY <1>0, <1>1, <3>2, ClaimedEntry
    <3>3. CASE Move(w)
      <4>1. PICK e \in due[w] : stream' = Append(stream, NewEntry(e))
        BY <3>3 DEF Move
      <4>2. e \in Job
        BY <1>0 DEF TypeOK
      <4> QED BY <1>0, <1>1, <4>1, <4>2, EntryAdded
    <3>4. CASE HandleError(w)
      BY <1>1, <3>4 DEF HandleError
    <3> QED BY <1>9, <3>1, <3>2, <3>3, <3>4
  <2> QED BY <1>8, <2>1, <2>2, <2>3
<1>10. ASSUME NEW o \in Operators, Revive(o) PROVE Kept(j, n, m)'
  <2>1. UNCHANGED <<scheduled, dlq>>
    BY <1>10 DEF Revive
  <2>2. \A i \in DOMAIN stream : stream'[i] = stream[i]
    BY <1>0, <1>10, Retried, EntryAdded
  <2> QED BY <1>1, <1>8, <2>1, <2>2 DEF Dead
<1>11. CASE UNCHANGED <<stream, dlq>> /\ scheduled \subseteq scheduled'
  BY <1>1, <1>8, <1>11 DEF Dead
<1>12. ASSUME NEW w \in Workers,
              \/ Run(w) \/ Block(w) \/ ReadNothing(w) \/ LeaveLoop(w) \/ Begin(w)
              \/ HandlerReturns(w) \/ HandlerRaises(w) \/ Count(w) \/ Poll(w) \/ Trouble(w)
       PROVE  Kept(j, n, m)'
  BY <1>11, <1>12 DEF Run, Block, ReadNothing, LeaveLoop, Begin, HandlerReturns, HandlerRaises, Count,
     Poll, Trouble, Stop, Crash, AckFails, HandlingFails, MoveFails, Incident
<1>13. CASE \/ \E q \in Jobs : Schedule(q)
            \/ \E o \in Operators : ReadDead(o)
            \/ UNCHANGED vars
  BY <1>11, <1>13 DEF Schedule, ReadDead, vars
<1> QED BY <1>4, <1>5, <1>6, <1>7, <1>9, <1>10, <1>12, <1>13
        DEF Next, Produce, Consume, ProcessScheduled, ManageDead

\* A worker's loops are where its own last step left them.
LEMMA OwnSteps ==
  ASSUME TypeOK, [Next]_vars, NEW w \in Workers
  PROVE  \/ /\ running'[w] = running[w] /\ step'[w] = step[w] /\ batch'[w] = batch[w]
            /\ cur'[w] = cur[w] /\ due'[w] = due[w] /\ moving'[w] = moving[w]
         \/ Run(w) \/ Consume(w) \/ ProcessScheduled(w) \/ Trouble(w)
<1> DEFINE Stays == /\ running'[w] = running[w] /\ step'[w] = step[w] /\ batch'[w] = batch[w]
                    /\ cur'[w] = cur[w] /\ due'[w] = due[w] /\ moving'[w] = moving[w]
<1>1. ASSUME NEW v \in Workers \ {w}, Run(v) \/ Claim(v) \/ ProcessScheduled(v) PROVE Stays
  <2>1. CASE Run(v) \/ Claim(v)
    BY <2>1 DEF Run, Claim, Goto, worker, TypeOK
  <2>2. CASE ProcessScheduled(v)
    BY <2>2 DEF ProcessScheduled, Poll, Move, Unschedule, TypeOK
  <2> QED BY <1>1, <2>1, <2>2
<1>2. ASSUME NEW v \in Workers \ {w}, Consume(v) PROVE Stays
  <2>1. CASE Block(v) \/ ReadNothing(v) \/ Read(v) \/ LeaveLoop(v) \/ HandlerReturns(v)
             \/ HandlerRaises(v) \/ Ack(v) \/ HandleError(v)
    BY <2>1 DEF Block, ReadNothing, Read, LeaveLoop, HandlerReturns, HandlerRaises, Ack,
       HandleError, Goto, TypeOK
  <2>2. CASE Begin(v)
    BY <2>2 DEF Begin, Goto, TypeOK
  <2>3. CASE Count(v) \/ AckFailed(v)
    BY <2>3 DEF Count, AckFailed, NextMessage, Goto, TypeOK
  <2> QED BY <1>2, <2>1, <2>2, <2>3 DEF Consume
<1>3. ASSUME NEW v \in Workers \ {w}, Trouble(v) PROVE Stays
  BY <1>3 DEF Trouble, Stop, Crash, AckFails, HandlingFails, MoveFails, Goto, TypeOK
<1>4. CASE Produce \/ (\E o \in Operators : ManageDead(o)) \/ UNCHANGED vars \/ Claim(w)
  BY <1>4 DEF Produce, Enqueue, Schedule, ManageDead, ReadDead, Revive, DeleteRevived, Discard, Claim,
     vars, worker
<1> QED BY <1>1, <1>2, <1>3, <1>4 DEF Next

\* How a loop comes to where it is.
LEMMA StepFrom ==
  ASSUME TypeOK, [Next]_vars, NEW w \in Workers
  PROVE  /\ step'[w] = "ack" => HandlerReturns(w) \/ (step[w] = "ack" /\ cur'[w] = cur[w])
         /\ step'[w] = "ack_failed" => HandleError(w) \/ (step[w] = "ack_failed" /\ cur'[w] = cur[w])
         /\ step'[w] = "count" => Ack(w) \/ (step[w] = "count" /\ cur'[w] = cur[w])
         /\ step'[w] = "handling" => Begin(w) \/ (step[w] = "handling" /\ cur'[w] = cur[w])
         /\ moving'[w] # None => Move(w) \/ moving'[w] = moving[w]
<1>1. CASE Run(w) \/ ProcessScheduled(w) \/ Trouble(w)
  BY <1>1 DEF Run, ProcessScheduled, Poll, Move, Unschedule, Trouble, Stop, Crash, AckFails,
     HandlingFails, MoveFails, Goto, TypeOK
<1>2. CASE Block(w) \/ ReadNothing(w) \/ Read(w) \/ LeaveLoop(w) \/ Begin(w) \/ HandlerReturns(w)
  <2>1. step'[w] # "ack_failed" /\ step'[w] # "count" /\ moving'[w] = moving[w]
    BY <1>2 DEF Block, ReadNothing, Read, LeaveLoop, Begin, HandlerReturns, Goto, TypeOK
  <2>2. step'[w] = "handling" => Begin(w)
    BY <1>2 DEF Block, ReadNothing, Read, LeaveLoop, HandlerReturns, Goto, TypeOK
  <2>3. step'[w] = "ack" => HandlerReturns(w)
    BY <1>2 DEF Block, ReadNothing, Read, LeaveLoop, Begin, Goto, TypeOK
  <2> QED BY <2>1, <2>2, <2>3
<1>3. CASE HandlerRaises(w) \/ Ack(w) \/ HandleError(w)
  BY <1>3 DEF HandlerRaises, Ack, HandleError, Goto, TypeOK
<1>4. CASE Count(w) \/ AckFailed(w)
  <2>1. step'[w] \in {"wait", "next"} /\ moving' = moving
    BY <1>4 DEF Count, AckFailed, NextMessage, Goto, TypeOK
  <2> QED BY <2>1
<1> QED BY <1>1, <1>2, <1>3, <1>4, OwnSteps DEF Consume

\* Nothing was accepted at first.
LEMMA AccountInit == Init => AccountInv
BY DEF Init, AccountInv, Idle

\* Every step keeps the account.
LEMMA AccountStep == TypeInv /\ AccountInv /\ [Next]_vars => AccountInv'
<1> SUFFICES ASSUME TypeInv, AccountInv, [Next]_vars PROVE AccountInv'
  OBVIOUS
<1>0. TypeInv' /\ TypeOK /\ TypeOK' /\ StreamGrows /\ DeadGrow
  BY TypeStep, Grows DEF TypeInv
<1>1. ASSUME NEW j \in enqueued' PROVE Kept(j, 0, 0)'
  <2>1. CASE j \in enqueued
    BY <1>0, <2>1, KeptStep DEF AccountInv, TypeOK
  <2>2. CASE j \notin enqueued
    <3>1. j \in Jobs /\ (Enqueue(j) \/ Schedule(j))
      <4>1. CASE Produce
        <5>1. PICK q \in Jobs : (Enqueue(q) \/ Schedule(q)) /\ enqueued' = enqueued \union {q}
          BY <4>1 DEF Produce, Enqueue, Schedule
        <5>2. q = j
          BY <1>1, <2>2, <5>1
        <5> QED BY <5>1, <5>2
      <4>2. CASE ~Produce
        <5>1. enqueued' = enqueued
          BY <4>2 DEF Next, vars, Run, Consume, Block, ReadNothing, Read, LeaveLoop, Begin,
             HandlerReturns, HandlerRaises, Ack, Count, HandleError, AckFailed, Claim, ProcessScheduled,
             Poll, Move, Unschedule, Trouble, Stop, Crash, AckFails, HandlingFails, MoveFails, Incident,
             ManageDead, ReadDead, Revive, DeleteRevived, Discard, history
        <5> QED BY <1>1, <2>2, <5>1
      <4> QED BY <4>1, <4>2
    <3>2. CASE Enqueue(j)
      <4> DEFINE n == Len(stream) + 1
      <4>1. /\ n \in DOMAIN stream' /\ stream'[n].job = j /\ stream'[n].retry = 0
            /\ stream'[n].state = "new" \/ j \in dropped'
        BY <1>0, <3>1, <3>2, EnqueuedEntry
      <4> HIDE DEF n
      <4>2. stream'[n].state = "new" => Active(j, 0)'
        BY <4>1 DEF Active, New
      <4> QED BY <4>1, <4>2 DEF Kept, Excused
    <3>3. CASE Schedule(j)
      <4>1. FirstTry(j) \in scheduled' /\ FirstTry(j).job = j /\ FirstTry(j).retry >= 0
        BY <3>1, <3>3, FirstTryType DEF Schedule
      <4> QED BY <4>1 DEF Kept, Due
    <3> QED BY <3>1, <3>2, <3>3
  <2> QED BY <2>1, <2>2
<1>2. ASSUME NEW w \in Workers, step'[w] = "ack" PROVE completed'[stream'[cur'[w]].job] > 0
  <2>1. CASE HandlerReturns(w)
    <3>1. stream[cur[w]].job \in Jobs
      BY <2>1, Handled DEF HandlerReturns, Handling, Entry
    <3> QED BY <1>0, <2>1, <3>1 DEF HandlerReturns, TypeOK
  <2>2. CASE step[w] = "ack" /\ cur'[w] = cur[w]
    <3>1. cur[w] \in DOMAIN stream /\ stream[cur[w]].job \in Jobs
      BY <2>2, Handled DEF Handling, Entry
    <3>2. stream'[cur'[w]].job = stream[cur[w]].job
      BY <1>0, <2>2, <3>1 DEF StreamGrows, SameJob
    <3>3. completed[stream[cur[w]].job] > 0
      BY <2>2 DEF AccountInv
    <3> QED BY <1>0, <3>1, <3>2, <3>3, HistoryGrows DEF TypeOK
  <2> QED BY <1>0, <1>2, <2>1, <2>2, StepFrom
<1>3. ASSUME NEW w \in Workers, step'[w] = "ack_failed", NEW j, NEW r,
             j = stream'[cur'[w]].job, r = stream'[cur'[w]].retry
      PROVE  Kept(j, r + 1, r + 1)'
  <2>0. step[w] \in Handling /\ cur'[w] = cur[w]
    BY <1>0, <1>3, StepFrom DEF HandleError, Handling
  <2>1. cur[w] \in DOMAIN stream /\ stream[cur[w]] \in Entry
    BY <2>0, Handled
  <2>2. j = stream[cur[w]].job /\ r = stream[cur[w]].retry /\ j \in Jobs /\ r \in Nat
    BY <1>0, <1>3, <2>0, <2>1 DEF StreamGrows, SameJob, Entry
  <2>3. CASE HandleError(w)
    <3>1. PICK e \in Entry : e = stream[cur[w]]
      BY <2>1
    <3>2. PICK text \in Errors :
            \/ scheduled' = scheduled \union {[Failed(e, text) EXCEPT !.retry = @ + 1]}
            \/ dlq' = Append(dlq, Buried(Failed(e, text)))
      BY <2>3, <3>1 DEF HandleError
    <3>3. CASE scheduled' = scheduled \union {[Failed(e, text) EXCEPT !.retry = @ + 1]}
      <4>1. PICK f : f = [Failed(e, text) EXCEPT !.retry = @ + 1]
        OBVIOUS
      <4>2. f.job = e.job /\ f.retry = e.retry + 1 /\ e.retry + 1 \in Nat
        BY <4>1 DEF Failed, Entry
      <4>3. f \in scheduled'
        BY <3>3, <4>1
      <4>4. f.job = j /\ f.retry >= r + 1
        BY <2>2, <3>1, <4>2
      <4>5. Due(j, r + 1)'
        BY <4>3, <4>4 DEF Due
      <4> QED BY <4>5 DEF Kept
    <3>4. CASE dlq' = Append(dlq, Buried(Failed(e, text)))
      <4>1. /\ Len(dlq) + 1 \in DOMAIN dlq' /\ dlq'[Len(dlq) + 1].kept
            /\ dlq'[Len(dlq) + 1].job = j
        BY <1>0, <2>2, <3>1, <3>4, BuriedEntry
      <4>2. IsDead(j)'
        BY <4>1 DEF IsDead, Dead
      <4> QED BY <4>2 DEF Kept
    <3> QED BY <3>2, <3>3, <3>4
  <2>4. CASE step[w] = "ack_failed"
    <3>1. Kept(j, r + 1, r + 1) /\ r + 1 \in Nat
      BY <2>2, <2>4 DEF AccountInv
    <3> QED BY <2>2, <3>1, KeptStep
  <2> QED BY <1>0, <1>3, <2>3, <2>4, StepFrom
<1>4. ASSUME NEW w \in Workers, moving'[w] # None, NEW j, NEW r,
             j = moving'[w].job, r = moving'[w].retry
      PROVE  Kept(j, r, r + 1)'
  <2>1. CASE Move(w)
    <3>1. PICK e \in due[w] : stream' = Append(stream, NewEntry(e)) /\ moving' = [moving EXCEPT ![w] = e]
      BY <2>1 DEF Move
    <3>2. e \in Job /\ moving'[w] = e /\ e.retry \in Nat
      BY <1>0, <3>1 DEF TypeOK, Job
    <3>3. /\ Len(stream) + 1 \in DOMAIN stream' /\ stream'[Len(stream) + 1].state = "new"
          /\ stream'[Len(stream) + 1].job = j /\ stream'[Len(stream) + 1].retry = r
      BY <1>0, <1>4, <3>1, <3>2, EntryAdded, NewEntryType
    <3>4. Active(j, r)'
      BY <1>4, <3>2, <3>3 DEF Active, New
    <3> QED BY <3>4 DEF Kept
  <2>2. CASE moving'[w] = moving[w]
    <3>1. j \in Jobs /\ r \in Nat /\ Kept(j, r, r + 1)
      BY <1>0, <1>4, <2>2 DEF TypeOK, Job, AccountInv
    <3> QED BY <3>1, KeptStep
  <2> QED BY <1>0, <1>4, <2>1, <2>2, StepFrom
<1>5. ASSUME NEW o \in Operators, session'[o].at = "del" PROVE dlq'[session'[o].entry].job \in revived'
  <2>1. CASE session'[o] = session[o]
    <3>1. session[o].entry \in DOMAIN dlq /\ dlq[session[o].entry].job \in revived
      BY <1>5, <2>1 DEF AccountInv, TypeInv
    <3> QED BY <1>0, <2>1, <3>1, HistoryGrows DEF DeadGrow, SameJob
  <2>2. CASE Revive(o)
    BY <1>0, <2>2 DEF Revive, TypeOK
  <2>3. session'[o] = session[o] \/ Revive(o)
    <3>1. CASE \E q \in Operators : ManageDead(q)
      BY <1>0, <1>5, <3>1 DEF ManageDead, ReadDead, Revive, DeleteRevived, Discard, Idle, TypeOK
    <3>2. CASE UNCHANGED session
      BY <3>2
    <3> QED BY <3>1, <3>2 DEF Next, vars, Produce, Enqueue, Schedule, Run, Consume, Block,
         ReadNothing, Read, LeaveLoop, Begin, HandlerReturns, HandlerRaises, Ack, Count, HandleError,
         AckFailed, Claim, ProcessScheduled, Poll, Move, Unschedule, Trouble, Stop, Crash, AckFails,
         HandlingFails, MoveFails, Incident
  <2> QED BY <2>1, <2>2, <2>3
<1> QED BY <1>1, <1>2, <1>3, <1>4, <1>5 DEF AccountInv, Kept, Excused, Active, Due, IsDead

\* Whatever the loops of several workers do at the same time, and whatever
\* happens to them, a job that was accepted is in the stream, in the sorted set
\* or in the dead letter queue until its handler returned, or its entry was
\* trimmed or deleted; those that operators retried are left out.
THEOREM JobsAccounted == Spec => []Accounted
<1>1. AccountInv => Accounted
  BY DEF AccountInv, Accounted, Kept, Excused, Active, Due, IsDead, InRedis
<1> QED BY <1>1, AccountInit, AccountStep, TypeInvariant, PTL DEF Spec

--------------------------------------------------------------------------------
(* A graceful stop.  A message is pending only while a loop has it in its  *)
(* batch, and a loop with a batch is not at its end.                       *)

StopInv ==
  /\ \A i \in Pending : \E w \in Workers : i \in batch[w]
  /\ \A w \in Workers : batch[w] # {} => step[w] \in Handling \union {"next"}
  /\ \A w \in Workers : step[w] = "count" => stream[cur[w]].state = "acked"

\* What may happen to an entry: a loop reads it, it is trimmed, or the loop that
\* handles it acknowledges it.
LEMMA Fate ==
  ASSUME TypeInv, [Next]_vars, NEW i \in DOMAIN stream
  PROVE  \/ stream'[i].state = stream[i].state
         \/ /\ stream[i].state = "new"
            /\ \/ stream'[i].state = "trimmed"
               \/ /\ stream'[i].state = "pending"
                  /\ \E w \in Workers : Read(w) /\ i \in batch'[w]
         \/ /\ stream'[i].state = "acked"
            /\ \E w \in Workers : (Ack(w) \/ AckFailed(w)) /\ cur[w] = i
<1>0. TypeOK
  BY DEF TypeInv
<1>1. ASSUME NEW j \in Jobs, Enqueue(j)
      PROVE  \/ stream'[i].state = stream[i].state
             \/ stream[i].state = "new" /\ stream'[i].state = "trimmed"
  BY <1>0, <1>1, EnqueuedEntry
<1>2. ASSUME NEW w \in Workers, Read(w)
      PROVE  \/ stream'[i].state = stream[i].state
             \/ stream[i].state = "new" /\ stream'[i].state = "pending" /\ i \in batch'[w]
  <2>1. /\ \A k \in Oldest(New) : stream'[k].state = "pending" /\ stream[k].state = "new"
        /\ \A k \in DOMAIN stream \ Oldest(New) : stream'[k] = stream[k]
    BY <1>0, <1>2, ReadEntries DEF New
  <2>2. batch'[w] = Oldest(New)
    BY <1>0, <1>2 DEF Read, TypeOK
  <2> QED BY <2>1, <2>2
<1>3. ASSUME NEW w \in Workers, Ack(w) \/ AckFailed(w)
      PROVE  \/ stream'[i].state = stream[i].state
             \/ stream'[i].state = "acked" /\ cur[w] = i
  <2>1. cur[w] \in DOMAIN stream /\ Acked(cur[w])
    BY <1>3, Handled DEF Ack, AckFailed, Handling
  <2> QED BY <1>0, <2>1, AckedEntry
<1>4. ASSUME NEW w \in Workers, Claim(w) PROVE stream'[i].state = stream[i].state
  BY <1>0, <1>4, ClaimedEntry
<1>5. ASSUME NEW w \in Workers, Move(w) PROVE stream'[i].state = stream[i].state
  <2>1. PICK e \in due[w] : stream' = Append(stream, NewEntry(e))
    BY <1>5 DEF Move
  <2>2. e \in Job
    BY <1>0 DEF TypeOK
  <2> QED BY <1>0, <2>1, <2>2, EntryAdded
<1>6. ASSUME NEW o \in Operators, Revive(o) PROVE stream'[i].state = stream[i].state
  BY <1>0, <1>6, Retried, EntryAdded
<1>7. CASE UNCHANGED stream
  BY <1>7
<1> QED BY <1>1, <1>2, <1>3, <1>4, <1>5, <1>6, <1>7
        DEF Next, vars, Produce, Schedule, Run, Consume, Block, ReadNothing, LeaveLoop, Begin,
        HandlerReturns, HandlerRaises, Count, HandleError, ProcessScheduled, Poll, Unschedule, Trouble,
        Stop, Crash, AckFails, HandlingFails, MoveFails, Incident, ManageDead, ReadDead, DeleteRevived,
        Discard

\* What is added to the stream is not pending.
LEMMA AddedIsUnread ==
  ASSUME TypeInv, [Next]_vars, NEW i \in DOMAIN stream' \ DOMAIN stream
  PROVE  stream'[i].state # "pending"
<1>0. TypeOK /\ TypeOK'
  BY TypeStep DEF TypeInv
<1>1. ASSUME NEW j \in Jobs, Enqueue(j) PROVE stream'[i].state # "pending"
  <2> DEFINE s == Append(stream, NewEntry(FirstTry(j)))
             n == Len(stream) + 1
  <2>1. NewEntry(FirstTry(j)) \in Entry /\ NewEntry(FirstTry(j)).state = "new"
    BY FirstTryType, NewEntryType
  <2>2. /\ s \in Seq(Entry) /\ DOMAIN s = DOMAIN stream \union {n}
        /\ s[n] = NewEntry(FirstTry(j))
    BY <1>0, <2>1, Added DEF TypeOK
  <2>3. PICK k : stream' = Trimmed(s, k)
    BY <1>1 DEF Enqueue
  <2> HIDE DEF s, n
  <2>4. /\ DOMAIN stream' = DOMAIN s
        /\ \A m \in DOMAIN s : stream'[m] = s[m] \/ stream'[m].state = "trimmed"
    BY <2>2, <2>3, TrimmedEntries
  <2>5. i = n
    BY <2>2, <2>4
  <2> QED BY <2>1, <2>2, <2>4, <2>5
<1>2. ASSUME NEW w \in Workers, Move(w) PROVE stream'[i].state # "pending"
  <2>1. PICK e \in due[w] : stream' = Append(stream, NewEntry(e))
    BY <1>2 DEF Move
  <2>2. e \in Job
    BY <1>0 DEF TypeOK
  <2> QED BY <1>0, <2>1, <2>2, EntryAdded, NewEntryType
<1>3. ASSUME NEW o \in Operators, Revive(o) PROVE stream'[i].state # "pending"
  <2>1. PICK f \in Job : stream' = Append(stream, NewEntry(f))
    BY <1>3, Retried
  <2> QED BY <1>0, <2>1, EntryAdded, NewEntryType
<1>4. CASE DOMAIN stream' = DOMAIN stream
  BY <1>4
<1>5. ASSUME NEW w \in Workers, Read(w) \/ Claim(w) \/ Ack(w) \/ AckFailed(w)
      PROVE  DOMAIN stream' = DOMAIN stream
  BY <1>5 DEF Read, Claim, Ack, AckFailed, Acked
<1>6. CASE UNCHANGED stream
  BY <1>6
<1> QED BY <1>1, <1>2, <1>3, <1>4, <1>5, <1>6
        DEF Next, vars, Produce, Schedule, Run, Consume, Block, ReadNothing, LeaveLoop, Begin,
        HandlerReturns, HandlerRaises, Count, HandleError, ProcessScheduled, Poll, Unschedule, Trouble,
        Stop, Crash, AckFails, HandlingFails, MoveFails, Incident, ManageDead, ReadDead, DeleteRevived,
        Discard

\* Every worker is down at first.
LEMMA StopInit == Init => StopInv
BY DEF Init, StopInv, Pending

\* As long as nothing but stops happen to the workers, every step keeps it.
LEMMA StopStep ==
  ASSUME Incidents \subseteq {"stop"}, TypeInv, StopInv, [Next]_vars
  PROVE  StopInv'
<1>0. TypeOK
  BY DEF TypeInv
<1>1. \A w \in Workers : ~Crash(w) /\ ~AckFails(w) /\ ~HandlingFails(w) /\ ~MoveFails(w)
  BY DEF Crash, AckFails, HandlingFails, MoveFails, Incident
<1>2. ASSUME NEW w \in Workers
      PROVE  /\ batch'[w] # {} => step'[w] \in Handling \union {"next"}
             /\ \A i \in batch[w] : i \in batch'[w] \/ stream'[i].state # "pending"
  <2>1. CASE batch'[w] = batch[w] /\ step'[w] = step[w]
    BY <2>1 DEF StopInv
  <2>2. CASE Run(w) \/ ProcessScheduled(w) \/ Stop(w)
    BY <1>0, <2>2 DEF StopInv, Run, ProcessScheduled, Poll, Move, Unschedule, Stop, Goto, TypeOK, Handling
  <2>3. CASE Block(w) \/ ReadNothing(w) \/ LeaveLoop(w)
    BY <1>0, <2>3 DEF StopInv, Block, ReadNothing, LeaveLoop, Goto, TypeOK, Handling
  <2>4. CASE Read(w)
    <3>1. batch[w] = {} /\ step'[w] = "next"
      BY <1>0, <2>4 DEF StopInv, Read, Goto, TypeOK, Handling
    <3> QED BY <3>1
  <2>5. CASE HandlerReturns(w) \/ HandlerRaises(w) \/ Ack(w) \/ HandleError(w)
    BY <1>0, <2>5 DEF HandlerReturns, HandlerRaises, Ack, HandleError, Goto, TypeOK, Handling
  <2>6. CASE Begin(w)
    BY <1>0, <2>6 DEF Begin, Goto, TypeOK, Handling
  <2>7. CASE Count(w) \/ AckFailed(w)
    <3>1. /\ batch'[w] = batch[w] \ {cur[w]}
          /\ step'[w] = IF batch[w] \ {cur[w]} = {} THEN "wait" ELSE "next"
      BY <1>0, <2>7 DEF Count, AckFailed, NextMessage, Goto, TypeOK
    <3>2. stream'[cur[w]].state = "acked"
      <4>1. CASE Count(w)
        BY <4>1 DEF Count, StopInv
      <4>2. CASE AckFailed(w)
        BY <1>0, <4>2, Handled, AckedEntry DEF AckFailed, Handling
      <4> QED BY <2>7, <4>1, <4>2
    <3> QED BY <3>1, <3>2
  <2> QED BY <1>0, <1>1, <2>1, <2>2, <2>3, <2>4, <2>5, <2>6, <2>7, OwnSteps DEF Consume, Trouble
<1>3. ASSUME NEW i \in Pending' PROVE \E w \in Workers : i \in batch'[w]
  <2>1. i \in DOMAIN stream' /\ stream'[i].state = "pending"
    BY <1>3 DEF Pending
  <2>2. i \in DOMAIN stream
    BY <2>1, AddedIsUnread
  <2>3. CASE stream[i].state = "pending"
    <3>1. PICK w \in Workers : i \in batch[w]
      BY <2>2, <2>3 DEF StopInv, Pending
    <3> QED BY <1>2, <2>1, <3>1
  <2>4. CASE \E w \in Workers : Read(w) /\ i \in batch'[w]
    BY <2>4
  <2> QED BY <2>1, <2>2, <2>3, <2>4, Fate
<1>4. ASSUME NEW w \in Workers, step'[w] = "count" PROVE stream'[cur'[w]].state = "acked"
  <2>1. CASE Ack(w)
    BY <1>0, <2>1, Handled, AckedEntry DEF Ack, Handling
  <2>2. CASE step[w] = "count" /\ cur'[w] = cur[w]
    <3>1. cur[w] \in DOMAIN stream /\ stream[cur[w]].state = "acked"
      BY <2>2, Handled DEF Handling, StopInv
    <3> QED BY <2>2, <3>1, Fate
  <2> QED BY <1>0, <1>4, <2>1, <2>2, StepFrom
<1> QED BY <1>2, <1>3, <1>4 DEF StopInv

\* stop() is graceful: whatever the number of workers, when none of them died or
\* lost Redis and every loop came to its end, no message is left unacknowledged.
THEOREM GracefulStop ==
  ASSUME Incidents \subseteq {"stop"}
  PROVE  Spec => []StopsClean
<1>1. StopInv => StopsClean
  BY DEF StopInv, StopsClean, Handling
<1>2. TypeInv /\ StopInv /\ [Next]_vars => StopInv'
  BY StopStep
<1> QED BY <1>1, <1>2, StopInit, TypeInvariant, PTL DEF Spec

--------------------------------------------------------------------------------
(* One outcome.  A job has one place: an entry of the stream with which    *)
(* its worker is not done, a member of the sorted set that is not already  *)
(* back in the stream, or an entry of the dead letter queue; and it has    *)
(* none once its handler returned.  The place of a job moves within one    *)
(* step, however many commands it takes to store it anew and to remove the *)
(* old copy.                                                               *)

Settled == {"ack", "ack_failed"}

Unsettled(w) == {i \in New \union Pending : ~(step[w] \in Settled /\ cur[w] = i)}
Waiting(w) == scheduled \ {moving[w]}

Places(j, w) ==
  {<<"stream", i>> : i \in {n \in Unsettled(w) : stream[n].job = j}}
    \union {<<"scheduled", e>> : e \in {d \in Waiting(w) : d.job = j}}
    \union {<<"dead", i>> : i \in {n \in DOMAIN dlq : dlq[n].job = j}}

OnePlace(w) ==
  \A j \in Jobs :
    /\ \A p, q \in Places(j, w) : p = q
    /\ completed[j] <= 1
    /\ completed[j] > 0 => Places(j, w) = {}
    /\ j \notin enqueued => Places(j, w) = {} /\ completed[j] = 0

\* What the loops of the worker hold is there.
LoopsHold(w) ==
  /\ step[w] \in {"handling", "failing"} \union Settled => cur[w] \in Pending
  /\ \A i \in batch[w] : i \in Pending \/ (step[w] \in Handling /\ cur[w] = i)
  /\ due[w] \subseteq scheduled
  /\ \A o \in Operators : session[o] = Idle

OutcomeInv(w) == OnePlace(w) /\ LoopsHold(w)

\* The three kinds of places.
LEMMA PlaceKinds ==
  ASSUME NEW w, NEW j, NEW p
  PROVE  p \in Places(j, w) <=>
           \/ \E i \in Unsettled(w) : stream[i].job = j /\ p = <<"stream", i>>
           \/ \E e \in Waiting(w) : e.job = j /\ p = <<"scheduled", e>>
           \/ \E i \in DOMAIN dlq : dlq[i].job = j /\ p = <<"dead", i>>
BY DEF Places

\* A step that finds no new place for any job keeps it.
LEMMA PlacesKept ==
  ASSUME NEW w, OnePlace(w), UNCHANGED completed, enqueued \subseteq enqueued',
         \A j \in Jobs : Places(j, w)' \subseteq Places(j, w)
  PROVE  OnePlace(w)'
BY DEF OnePlace

\* A step that finds one for a job that had none, or that had one and leaves
\* it, keeps it too.
LEMMA PlaceMoved ==
  ASSUME NEW w, OnePlace(w), UNCHANGED completed, enqueued \subseteq enqueued',
         NEW j \in Jobs, j \in enqueued', NEW p,
         \A k \in Jobs : \A q \in Places(k, w)' : q \in Places(k, w) \/ (k = j /\ q = p),
         \/ Places(j, w) = {} /\ completed[j] = 0
         \/ \E o \in Places(j, w) : o = p \/ o \notin Places(j, w)'
  PROVE  OnePlace(w)'
<1>1. ASSUME NEW k \in Jobs, k # j
      PROVE  /\ Places(k, w)' \subseteq Places(k, w)
  BY <1>1
<1>2. \A q \in Places(j, w)' : q = p
  BY DEF OnePlace
<1>3. completed[j] <= 1 /\ ~(completed[j] > 0)
  BY DEF OnePlace
<1> QED BY <1>1, <1>2, <1>3 DEF OnePlace

\* Where a place that a step leaves was before it, if it is not new.
LEMMA PlacesFrom ==
  ASSUME TypeInv, [Next]_vars, NEW w, NEW j, NEW q \in Places(j, w)'
  PROVE  \/ q \in Places(j, w)
         \/ \E i \in Unsettled(w)' \ Unsettled(w) : stream'[i].job = j /\ q = <<"stream", i>>
         \/ \E e \in Waiting(w)' \ Waiting(w) : e.job = j /\ q = <<"scheduled", e>>
         \/ \E i \in DOMAIN dlq' \ DOMAIN dlq : dlq'[i].job = j /\ q = <<"dead", i>>
<1>1. /\ \A i \in DOMAIN stream : stream'[i].job = stream[i].job
      /\ \A i \in DOMAIN dlq : dlq'[i].job = dlq[i].job
  BY Grows DEF StreamGrows, DeadGrow, SameJob
<1>2. \A i \in Unsettled(w) : i \in DOMAIN stream
  BY DEF Unsettled, New, Pending
<1>3. CASE \E i \in Unsettled(w)' : stream'[i].job = j /\ q = <<"stream", i>>
  BY <1>1, <1>2, <1>3, PlaceKinds
<1>4. CASE \E e \in Waiting(w)' : e.job = j /\ q = <<"scheduled", e>>
  BY <1>4, PlaceKinds
<1>5. CASE \E i \in DOMAIN dlq' : dlq'[i].job = j /\ q = <<"dead", i>>
  BY <1>1, <1>5, PlaceKinds
<1> QED BY <1>3, <1>4, <1>5 DEF Places

\* An entry that is settled is no place.
LEMMA SettledIsNoPlace ==
  ASSUME NEW w, NEW j, NEW i
  PROVE  /\ i \notin Unsettled(w)' => <<"stream", i>> \notin Places(j, w)'
         /\ i \notin Waiting(w)' => <<"scheduled", i>> \notin Places(j, w)'
<1>1. <<"stream", i>> \in Places(j, w)' => i \in Unsettled(w)'
  BY DEF Places
<1>2. <<"scheduled", i>> \in Places(j, w)' => i \in Waiting(w)'
  BY DEF Places
<1> QED BY <1>1, <1>2

\* The entries with which the worker is not done.
LEMMA UnsettledEntries ==
  ASSUME NEW w
  PROVE  /\ \A i : i \in Unsettled(w) <=>
              /\ i \in DOMAIN stream /\ stream[i].state \in {"new", "pending"}
              /\ ~(step[w] \in Settled /\ cur[w] = i)
         /\ \A i : i \in Unsettled(w)' <=>
              /\ i \in DOMAIN stream' /\ stream'[i].state \in {"new", "pending"}
              /\ ~(step'[w] \in Settled /\ cur'[w] = i)
BY DEF Unsettled, New, Pending

\* A step that settles or removes, and stores nothing anew.
LEMMA QuietStep ==
  ASSUME TypeInv, [Next]_vars, NEW w, OnePlace(w), UNCHANGED completed,
         Unsettled(w)' \subseteq Unsettled(w), Waiting(w)' \subseteq Waiting(w),
         DOMAIN dlq' = DOMAIN dlq
  PROVE  OnePlace(w)'
<1>1. \A j \in Jobs : Places(j, w)' \subseteq Places(j, w)
  BY PlacesFrom
<1> QED BY <1>1, HistoryGrows, PlacesKept

\* With one worker, which does not die nor lose Redis, and no job that is
\* retried by an operator, every step keeps the one place of each job.
LEMMA OnePlaceStep ==
  ASSUME NEW w, Workers = {w}, Incidents \subseteq {"stop"}, ~MayRevive,
         TypeInv, OutcomeInv(w), [Next]_vars
  PROVE  OnePlace(w)'
<1>0. /\ TypeOK /\ TypeOK' /\ w \in Workers /\ StreamGrows /\ DeadGrow
      /\ OnePlace(w) /\ LoopsHold(w) /\ enqueued \subseteq enqueued'
  BY TypeStep, Grows, HistoryGrows DEF TypeInv, OutcomeInv
<1>1. /\ \A i \in DOMAIN stream : stream'[i].job = stream[i].job /\ stream[i].job \in Jobs
      /\ \A e \in scheduled : e \in Job /\ e.job \in Jobs
  BY <1>0, StoredTypes DEF StreamGrows, SameJob, TypeOK
<1>2. ASSUME NEW j \in Jobs, Enqueue(j) PROVE OnePlace(w)'
  <2> DEFINE n == Len(stream) + 1
  <2>1. /\ DOMAIN stream' = DOMAIN stream \union {n} /\ n \notin DOMAIN stream
        /\ \A i \in DOMAIN stream : stream'[i] = stream[i] \/ stream'[i].state = "trimmed"
    BY <1>0, <1>2, EnqueuedEntry
  <2>2. UNCHANGED <<scheduled, dlq, step, cur, moving, completed>> /\ j \in enqueued' /\ j \notin enqueued
    BY <1>2 DEF Enqueue, worker
  <2> HIDE DEF n
  <2>3. Unsettled(w)' \subseteq Unsettled(w) \union {n} /\ Waiting(w)' \subseteq Waiting(w)
    BY <2>1, <2>2, UnsettledEntries DEF Waiting
  <2>4. stream'[n].job = j
    BY <1>0, <1>2, EnqueuedEntry DEF n
  <2>5. \A k \in Jobs : \A q \in Places(k, w)' : q \in Places(k, w) \/ (k = j /\ q = <<"stream", n>>)
    BY <2>2, <2>3, <2>4, PlacesFrom
  <2>6. Places(j, w) = {} /\ completed[j] = 0
    BY <1>0, <2>2 DEF OnePlace
  <2> QED BY <1>0, <2>2, <2>5, <2>6, PlaceMoved
<1>3. ASSUME NEW j \in Jobs, Schedule(j) PROVE OnePlace(w)'
  <2>1. /\ UNCHANGED <<stream, dlq, step, cur, moving, completed>> /\ j \in enqueued' /\ j \notin enqueued
        /\ scheduled' = scheduled \union {FirstTry(j)}
    BY <1>3 DEF Schedule, worker
  <2>2. Unsettled(w)' \subseteq Unsettled(w) /\ Waiting(w)' \subseteq Waiting(w) \union {FirstTry(j)}
    BY <2>1, UnsettledEntries DEF Waiting
  <2>3. FirstTry(j).job = j
    BY FirstTryType
  <2>4. \A k \in Jobs : \A q \in Places(k, w)' :
          q \in Places(k, w) \/ (k = j /\ q = <<"scheduled", FirstTry(j)>>)
    BY <2>1, <2>2, <2>3, PlacesFrom
  <2>5. Places(j, w) = {} /\ completed[j] = 0
    BY <1>0, <2>1 DEF OnePlace
  <2> QED BY <1>0, <2>1, <2>4, <2>5, PlaceMoved
<1>4. ASSUME Run(w) \/ Block(w) \/ ReadNothing(w) \/ LeaveLoop(w) \/ Begin(w) \/ HandlerRaises(w)
             \/ Count(w) \/ Poll(w) \/ Stop(w)
      PROVE  OnePlace(w)'
  <2>1. UNCHANGED <<stream, scheduled, dlq, moving, completed>>
    BY <1>4 DEF Run, Block, ReadNothing, LeaveLoop, Begin, HandlerRaises, Count, Poll, Stop, Incident,
       history
  <2>2. \/ step[w] \notin Settled /\ step'[w] \notin Settled
        \/ step'[w] = step[w] /\ cur'[w] = cur[w]
    <3>1. CASE Run(w) \/ Block(w) \/ ReadNothing(w) \/ LeaveLoop(w) \/ HandlerRaises(w)
      BY <1>0, <3>1 DEF Run, Block, ReadNothing, LeaveLoop, HandlerRaises, Goto, TypeOK, Settled
    <3>2. CASE Begin(w)
      BY <1>0, <3>2 DEF Begin, Goto, TypeOK, Settled
    <3>3. CASE Count(w)
      BY <1>0, <3>3 DEF Count, NextMessage, Goto, TypeOK, Settled
    <3>4. CASE Poll(w) \/ Stop(w)
      BY <3>4 DEF Poll, Stop
    <3> QED BY <1>4, <3>1, <3>2, <3>3, <3>4
  <2>3. Unsettled(w)' \subseteq Unsettled(w) /\ Waiting(w)' \subseteq Waiting(w)
    BY <2>1, <2>2, UnsettledEntries DEF Waiting
  <2> QED BY <1>0, <2>1, <2>3, QuietStep
<1>5. ASSUME Read(w) \/ Claim(w) PROVE OnePlace(w)'
  <2>1. /\ UNCHANGED <<scheduled, dlq, moving, completed>>
        /\ DOMAIN stream' = DOMAIN stream
    BY <1>5 DEF Read, Claim, worker, history
  <2>2. \A i \in DOMAIN stream :
          stream'[i].state \in {"new", "pending"} => stream[i].state \in {"new", "pending"}
    <3>1. CASE Read(w)
      <4>1. \A i \in DOMAIN stream : stream[i].state = "new" \/ stream'[i] = stream[i]
        BY <1>0, <3>1, ReadEntries DEF New
      <4> QED BY <4>1
    <3>2. CASE Claim(w)
      BY <1>0, <3>2, ClaimedEntry
    <3> QED BY <1>5, <3>1, <3>2
  <2>3. step[w] \notin Settled \/ (step'[w] = step[w] /\ cur'[w] = cur[w])
    BY <1>5 DEF Read, Claim, worker, Settled
  <2>4. Unsettled(w)' \subseteq Unsettled(w) /\ Waiting(w)' \subseteq Waiting(w)
    BY <2>1, <2>2, <2>3, UnsettledEntries DEF Waiting
  <2> QED BY <1>0, <2>1, <2>4, QuietStep
<1>6. ASSUME HandlerReturns(w) PROVE OnePlace(w)'
  <2>1. /\ UNCHANGED <<stream, scheduled, dlq, moving, cur>>
        /\ step[w] = "handling" /\ step'[w] = "ack"
    BY <1>0, <1>6 DEF HandlerReturns, Goto, TypeOK
  <2>2. PICK i \in DOMAIN stream : i = cur[w] /\ stream[i].state = "pending"
    BY <1>0, <2>1 DEF LoopsHold, Pending
  <2>3. PICK j \in Jobs : j = stream[i].job
    BY <1>1
  <2>4. completed' = [completed EXCEPT ![j] = @ + 1]
    BY <1>6, <2>2, <2>3 DEF HandlerReturns
  <2>5. i \in Unsettled(w) /\ i \notin Unsettled(w)'
    BY <2>1, <2>2, UnsettledEntries DEF Settled
  <2>6. Unsettled(w)' \subseteq Unsettled(w) /\ Waiting(w)' \subseteq Waiting(w)
    BY <2>1, UnsettledEntries DEF Waiting, Settled
  <2>7. \A k \in Jobs : Places(k, w)' \subseteq Places(k, w)
    BY <2>1, <2>6, PlacesFrom
  <2>8. <<"stream", i>> \in Places(j, w) /\ <<"stream", i>> \notin Places(j, w)'
    BY <2>3, <2>5, PlaceKinds, SettledIsNoPlace
  <2>9. Places(j, w)' = {} /\ completed[j] = 0 /\ completed'[j] = 1 /\ j \in enqueued'
    <3>1. Places(j, w)' = {} /\ ~(completed[j] > 0) /\ j \in enqueued
      BY <1>0, <2>7, <2>8 DEF OnePlace
    <3>2. completed[j] = 0
      BY <1>0, <3>1 DEF TypeOK
    <3> QED BY <1>0, <2>4, <3>1, <3>2 DEF TypeOK
  <2>10. \A k \in Jobs \ {j} : completed'[k] = completed[k]
    BY <1>0, <2>4 DEF TypeOK
  <2> QED BY <1>0, <2>7, <2>9, <2>10 DEF OnePlace
<1>7. ASSUME Ack(w) \/ AckFailed(w) PROVE OnePlace(w)'
  <2>1. UNCHANGED <<scheduled, dlq, moving, completed>> /\ step[w] \in Settled
    BY <1>7 DEF Ack, AckFailed, history, Settled
  <2>2. cur[w] \in DOMAIN stream /\ Acked(cur[w])
    BY <1>0, <1>7, Handled DEF Ack, AckFailed, Handling
  <2>3. /\ DOMAIN stream' = DOMAIN stream /\ stream'[cur[w]].state = "acked"
        /\ \A k \in DOMAIN stream \ {cur[w]} : stream'[k] = stream[k]
    BY <1>0, <2>2, AckedEntry
  <2>4. Unsettled(w)' \subseteq Unsettled(w) /\ Waiting(w)' \subseteq Waiting(w)
    BY <2>1, <2>3, UnsettledEntries DEF Waiting
  <2> QED BY <1>0, <2>1, <2>4, QuietStep
<1>8. ASSUME HandleError(w) PROVE OnePlace(w)'
  <2>1. /\ UNCHANGED <<stream, moving, cur, completed>>
        /\ step[w] = "failing" /\ step'[w] = "ack_failed"
    BY <1>0, <1>8 DEF HandleError, Goto, TypeOK, history
  <2>2. PICK i \in DOMAIN stream : i = cur[w] /\ stream[i].state = "pending" /\ stream[i] \in Entry
    BY <1>0, <2>1, Handled DEF LoopsHold, Pending, Handling
  <2>3. PICK j \in Jobs : j = stream[i].job
    BY <1>1
  <2>4. i \in Unsettled(w) /\ i \notin Unsettled(w)' /\ Unsettled(w)' \subseteq Unsettled(w)
    BY <2>1, <2>2, UnsettledEntries DEF Settled
  <2>5. <<"stream", i>> \in Places(j, w) /\ <<"stream", i>> \notin Places(j, w)'
    BY <2>3, <2>4, PlaceKinds, SettledIsNoPlace
  <2>6. j \in enqueued'
    BY <1>0, <2>5 DEF OnePlace
  <2>7. PICK text \in Errors :
          \/ scheduled' = scheduled \union {[Failed(stream[i], text) EXCEPT !.retry = @ + 1]} /\ UNCHANGED dlq
          \/ dlq' = Append(dlq, Buried(Failed(stream[i], text))) /\ UNCHANGED scheduled
    BY <1>8, <2>2 DEF HandleError
  <2>8. CASE scheduled' = scheduled \union {[Failed(stream[i], text) EXCEPT !.retry = @ + 1]} /\ UNCHANGED dlq
    <3>1. PICK f : f = [Failed(stream[i], text) EXCEPT !.retry = @ + 1]
      OBVIOUS
    <3>2. f.job = j /\ scheduled' = scheduled \union {f}
      BY <2>3, <2>8, <3>1 DEF Failed
    <3>3. Waiting(w)' \subseteq Waiting(w) \union {f}
      BY <2>1, <3>2 DEF Waiting
    <3>4. \A k \in Jobs : \A q \in Places(k, w)' : q \in Places(k, w) \/ (k = j /\ q = <<"scheduled", f>>)
      BY <2>4, <2>8, <3>2, <3>3, PlacesFrom
    <3> QED BY <1>0, <2>1, <2>5, <2>6, <3>4, PlaceMoved
  <2>9. CASE dlq' = Append(dlq, Buried(Failed(stream[i], text))) /\ UNCHANGED scheduled
    <3> DEFINE n == Len(dlq) + 1
    <3>1. DOMAIN dlq' = DOMAIN dlq \union {n} /\ dlq'[n].job = j
      BY <1>0, <2>2, <2>3, <2>9, BuriedEntry
    <3> HIDE DEF n
    <3>2. Waiting(w)' \subseteq Waiting(w)
      BY <2>1, <2>9 DEF Waiting
    <3>3. \A k \in Jobs : \A q \in Places(k, w)' : q \in Places(k, w) \/ (k = j /\ q = <<"dead", n>>)
      BY <2>4, <3>1, <3>2, PlacesFrom
    <3> QED BY <1>0, <2>1, <2>5, <2>6, <3>3, PlaceMoved
  <2> QED BY <2>7, <2>8, <2>9
<1>9. ASSUME Move(w) PROVE OnePlace(w)'
  <2>1. PICK e \in due[w] : stream' = Append(stream, NewEntry(e)) /\ moving' = [moving EXCEPT ![w] = e]
    BY <1>9 DEF Move
  <2>2. UNCHANGED <<scheduled, dlq, step, cur, completed>> /\ moving[w] = None
    BY <1>9 DEF Move, history
  <2>3. e \in scheduled /\ e \in Job /\ e # None /\ moving'[w] = e
    BY <1>0, <1>1, <2>1, NoneAssumption DEF LoopsHold, TypeOK
  <2>4. PICK j \in Jobs : j = e.job
    BY <1>1, <2>3
  <2> DEFINE n == Len(stream) + 1
  <2>5. /\ DOMAIN stream' = DOMAIN stream \union {n}
        /\ \A i \in DOMAIN stream : stream'[i] = stream[i]
        /\ stream'[n].job = j
    BY <1>0, <2>1, <2>3, <2>4, EntryAdded, NewEntryType
  <2> HIDE DEF n
  <2>6. Unsettled(w)' \subseteq Unsettled(w) \union {n}
    BY <2>2, <2>5, UnsettledEntries
  <2>7. e \in Waiting(w) /\ e \notin Waiting(w)' /\ Waiting(w)' \subseteq Waiting(w)
    BY <1>1, <2>2, <2>3, NoneAssumption DEF Waiting
  <2>8. <<"scheduled", e>> \in Places(j, w) /\ <<"scheduled", e>> \notin Places(j, w)'
    BY <2>4, <2>7, PlaceKinds, SettledIsNoPlace
  <2>9. j \in enqueued'
    BY <1>0, <2>8 DEF OnePlace
  <2>10. \A k \in Jobs : \A q \in Places(k, w)' : q \in Places(k, w) \/ (k = j /\ q = <<"stream", n>>)
    BY <2>2, <2>5, <2>6, <2>7, PlacesFrom
  <2> QED BY <1>0, <2>2, <2>8, <2>9, <2>10, PlaceMoved
<1>10. ASSUME Unschedule(w) PROVE OnePlace(w)'
  <2>1. /\ UNCHANGED <<stream, dlq, step, cur, completed>>
        /\ scheduled' = scheduled \ {moving[w]}
    BY <1>10 DEF Unschedule, history
  <2>2. Unsettled(w)' \subseteq Unsettled(w) /\ Waiting(w)' \subseteq Waiting(w)
    BY <2>1, UnsettledEntries DEF Waiting
  <2> QED BY <1>0, <2>1, <2>2, QuietStep
<1>11. ASSUME NEW o \in Operators, Discard(o) PROVE OnePlace(w)'
  <2>1. UNCHANGED <<stream, scheduled, moving, step, cur, completed>> /\ DOMAIN dlq' = DOMAIN dlq
    BY <1>11 DEF Discard, worker, Deleted
  <2>2. Unsettled(w)' \subseteq Unsettled(w) /\ Waiting(w)' \subseteq Waiting(w)
    BY <2>1, UnsettledEntries DEF Waiting
  <2> QED BY <1>0, <2>1, <2>2, QuietStep
<1>12. ASSUME NEW o \in Operators, ReadDead(o) \/ Revive(o) \/ DeleteRevived(o) PROVE FALSE
  BY <1>0, <1>12 DEF ReadDead, Revive, DeleteRevived, LoopsHold, Idle
<1>13. CASE UNCHANGED vars
  <2>1. UNCHANGED <<stream, scheduled, dlq, step, cur, moving, completed>>
    BY <1>13 DEF vars, worker, history
  <2>2. Unsettled(w)' \subseteq Unsettled(w) /\ Waiting(w)' \subseteq Waiting(w)
    BY <2>1, UnsettledEntries DEF Waiting
  <2> QED BY <1>0, <2>1, <2>2, QuietStep
<1>14. ~Crash(w) /\ ~AckFails(w) /\ ~HandlingFails(w) /\ ~MoveFails(w)
  BY DEF Crash, AckFails, HandlingFails, MoveFails, Incident
<1>15. \A v \in Workers : v = w
  OBVIOUS
<1> QED BY <1>2, <1>3, <1>4, <1>5, <1>6, <1>7, <1>8, <1>9, <1>10, <1>11, <1>12, <1>13, <1>14, <1>15
        DEF Next, Produce, Consume, ProcessScheduled, Trouble, ManageDead

\* And what its loops hold is there.
LEMMA LoopsHoldStep ==
  ASSUME NEW w, Workers = {w}, Incidents \subseteq {"stop"}, ~MayRevive,
         TypeInv, LoopsHold(w), [Next]_vars
  PROVE  LoopsHold(w)'
<1>0. TypeOK /\ TypeOK' /\ w \in Workers /\ StreamGrows
  BY TypeStep, Grows DEF TypeInv
<1>1. ASSUME NEW i \in Pending PROVE i \in Pending' \/ ((Ack(w) \/ AckFailed(w)) /\ cur[w] = i)
  BY <1>0, Fate DEF Pending, StreamGrows
<1>2. ~Crash(w) /\ ~AckFails(w) /\ ~HandlingFails(w) /\ ~MoveFails(w)
  BY DEF Crash, AckFails, HandlingFails, MoveFails, Incident
<1>3. \A o \in Operators : session'[o] = Idle
  <2>1. \A o \in Operators : ~ReadDead(o) /\ ~Revive(o) /\ ~DeleteRevived(o)
    BY DEF ReadDead, Revive, DeleteRevived, LoopsHold, Idle
  <2>2. UNCHANGED session
    BY <2>1 DEF Next, vars, Produce, Enqueue, Schedule, Run, Consume, Block,
         ReadNothing, Read, LeaveLoop, Begin, HandlerReturns, HandlerRaises, Ack, Count, HandleError,
         AckFailed, Claim, ProcessScheduled, Poll, Move, Unschedule, Trouble, Stop, Crash, AckFails,
         HandlingFails, MoveFails, Incident, ManageDead, Discard
  <2> QED BY <2>2 DEF LoopsHold
<1>4. due'[w] \subseteq scheduled'
  <2>1. CASE Poll(w) \/ Unschedule(w) \/ Move(w)
    BY <1>0, <2>1 DEF Poll, Unschedule, Move, TypeOK, LoopsHold
  <2>2. CASE due'[w] = due[w] /\ scheduled \subseteq scheduled'
    BY <2>2 DEF LoopsHold
  <2>3. ~Poll(w) /\ ~Unschedule(w) /\ ~Move(w) => due'[w] = due[w] /\ scheduled \subseteq scheduled'
    BY <1>2 DEF Next, vars, Produce, Enqueue, Schedule, Run, Consume, Block,
         ReadNothing, Read, LeaveLoop, Begin, HandlerReturns, HandlerRaises, Ack, Count, HandleError,
         AckFailed, Claim, ProcessScheduled, Trouble, Stop, Incident,
         ManageDead, ReadDead, Revive, DeleteRevived, Discard, worker
  <2> QED BY <2>1, <2>2, <2>3
<1>5. /\ step'[w] \in {"handling", "failing"} \union Settled => cur'[w] \in Pending'
      /\ \A i \in batch'[w] : i \in Pending' \/ (step'[w] \in Handling /\ cur'[w] = i)
  <2>1. CASE step'[w] = step[w] /\ cur'[w] = cur[w] /\ batch'[w] = batch[w] /\ ~Ack(w) /\ ~AckFailed(w)
    BY <1>1, <2>1 DEF LoopsHold
  <2>2. CASE Run(w) \/ Block(w) \/ ReadNothing(w) \/ LeaveLoop(w)
    <3>1. /\ step[w] \notin Handling /\ step'[w] \notin Handling /\ UNCHANGED <<batch, stream>>
      BY <1>0, <2>2 DEF Run, Block, ReadNothing, LeaveLoop, Goto, TypeOK, Handling
    <3> QED BY <3>1 DEF LoopsHold, Pending, Handling, Settled
  <2>3. CASE Read(w)
    <3>1. batch'[w] = Oldest(New) /\ step'[w] = "next"
      BY <1>0, <2>3 DEF Read, Goto, TypeOK
    <3>2. \A i \in Oldest(New) : i \in Pending'
      BY <1>0, <2>3, ReadEntries DEF Pending
    <3> QED BY <3>1, <3>2 DEF Handling, Settled
  <2>4. CASE Begin(w)
    <3>1. PICK i \in batch[w] : cur' = [cur EXCEPT ![w] = i]
      BY <2>4 DEF Begin
    <3>2. UNCHANGED <<batch, stream>> /\ step[w] = "next" /\ cur'[w] = i
      BY <1>0, <2>4, <3>1 DEF Begin, TypeOK
    <3>3. \A k \in batch[w] : k \in Pending'
      BY <3>2 DEF LoopsHold, Handling, Pending
    <3> QED BY <3>1, <3>2, <3>3
  <2>5. CASE HandlerReturns(w) \/ HandlerRaises(w) \/ HandleError(w)
    <3>1. UNCHANGED <<batch, stream, cur>> /\ step[w] \in {"handling", "failing"} /\ step'[w] \in Handling
      BY <1>0, <2>5 DEF HandlerReturns, HandlerRaises, HandleError, Goto, TypeOK, Handling
    <3> QED BY <3>1 DEF LoopsHold, Pending
  <2>6. CASE Ack(w)
    <3>1. UNCHANGED <<batch, cur>> /\ step'[w] = "count"
      BY <1>0, <2>6 DEF Ack, Goto, TypeOK
    <3> QED BY <1>1, <3>1 DEF LoopsHold, Handling, Settled
  <2>7. CASE Count(w) \/ AckFailed(w)
    <3>1. batch'[w] = batch[w] \ {cur[w]} /\ step'[w] \in {"wait", "next"}
      BY <1>0, <2>7 DEF Count, AckFailed, NextMessage, Goto, TypeOK
    <3> QED BY <1>1, <3>1 DEF LoopsHold, Handling, Settled
  <2>8. CASE Stop(w) \/ ProcessScheduled(w)
    <3>1. UNCHANGED <<step, batch, cur>> /\ Pending \subseteq Pending'
      <4>1. UNCHANGED <<step, batch, cur>>
        BY <2>8 DEF Stop, ProcessScheduled, Poll, Move, Unschedule
      <4>2. CASE UNCHANGED stream
        BY <4>1, <4>2 DEF Pending
      <4>3. CASE Move(w)
        <5>1. PICK e \in due[w] : stream' = Append(stream, NewEntry(e))
          BY <4>3 DEF Move
        <5>2. e \in Job
          BY <1>0 DEF TypeOK
        <5> QED BY <1>0, <4>1, <5>1, <5>2, EntryAdded DEF Pending
      <4> QED BY <2>8, <4>1, <4>2, <4>3 DEF Stop, ProcessScheduled, Poll, Unschedule
    <3> QED BY <3>1 DEF LoopsHold
  <2>9. /\ Ack(w) \/ AckFailed(w) => Consume(w)
        /\ \/ step'[w] = step[w] /\ cur'[w] = cur[w] /\ batch'[w] = batch[w]
           \/ Run(w) \/ Consume(w) \/ ProcessScheduled(w) \/ Stop(w)
    BY <1>0, <1>2, OwnSteps DEF Consume, Trouble
  <2> QED BY <2>1, <2>2, <2>3, <2>4, <2>5, <2>6, <2>7, <2>8, <2>9 DEF Consume
<1> QED BY <1>3, <1>4, <1>5 DEF LoopsHold

\* At first no job has a place.
LEMMA OutcomeInit ==
  ASSUME NEW w, Workers = {w}
  PROVE  Init => OutcomeInv(w)
<1> SUFFICES ASSUME Init PROVE OutcomeInv(w)
  OBVIOUS
<1>1. \A j \in Jobs : Places(j, w) = {}
  BY DEF Init, Places, Unsettled, Waiting, New, Pending
<1>2. OnePlace(w)
  BY <1>1 DEF Init, OnePlace
<1>3. LoopsHold(w)
  BY DEF Init, LoopsHold, Settled
<1> QED BY <1>2, <1>3 DEF OutcomeInv

\* A job with one place is at most once in the dead letter queue, and is not
\* there once its handler returned.
LEMMA OutcomeFollows ==
  ASSUME NEW w, TypeInv, OutcomeInv(w)
  PROVE  OneOutcome
<1> SUFFICES ASSUME NEW j \in Jobs
             PROVE  completed[j] + Cardinality({i \in DOMAIN dlq : dlq[i].job = j}) <= 1
  BY DEF OneOutcome
<1> DEFINE S == {i \in DOMAIN dlq : dlq[i].job = j}
<1>1. completed[j] \in Nat /\ completed[j] <= 1
  BY DEF TypeInv, TypeOK, OutcomeInv, OnePlace
<1>2. CASE S = {}
  <2>1. Cardinality(S) = 0
    BY <1>2, FS_EmptySet
  <2> QED BY <1>1, <2>1
<1>3. CASE S # {}
  <2>1. PICK i \in S : TRUE
    BY <1>3
  <2>2. \A k \in S : <<"dead", k>> \in Places(j, w)
    BY PlaceKinds
  <2>3. \A k \in S : <<"dead", k>> = <<"dead", i>>
    BY <2>1, <2>2 DEF OutcomeInv, OnePlace
  <2>4. S = {i}
    BY <2>1, <2>3
  <2>5. Cardinality(S) = 1
    BY <2>4, FS_Singleton
  <2>6. completed[j] = 0
    <3>1. Places(j, w) # {}
      BY <2>1, <2>2
    <3>2. ~(completed[j] > 0)
      BY <3>1 DEF OutcomeInv, OnePlace
    <3> QED BY <1>1, <3>2
  <2> QED BY <2>5, <2>6
<1> QED BY <1>2, <1>3

\* A worker that is alone, and neither dies nor loses Redis, gives a job one
\* outcome: its handler returns once, or it is once in the dead letter queue;
\* never both and never twice, unless an operator retries it.
THEOREM AloneOneOutcome ==
  ASSUME NEW w, Workers = {w}, Incidents \subseteq {"stop"}, ~MayRevive
  PROVE  Spec => []OneOutcome
<1>1. TypeInv /\ OutcomeInv(w) /\ [Next]_vars => OutcomeInv(w)'
  BY OnePlaceStep, LoopsHoldStep DEF OutcomeInv
<1>2. TypeInv /\ OutcomeInv(w) => OneOutcome
  BY OutcomeFollows
<1>3. Init => OutcomeInv(w)
  BY OutcomeInit
<1> QED BY <1>1, <1>2, <1>3, TypeInvariant, PTL DEF Spec

================================================================================
