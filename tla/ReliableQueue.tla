----------------------------- MODULE ReliableQueue -----------------------------
(***************************************************************************)
(* The job queue over Redis Streams (services/message_queue/               *)
(* reliable_queue.py): producers, the consume, claim and scheduler loops   *)
(* of every worker, and the operators of the dead letter queue.            *)
(*                                                                         *)
(* Redis executes one command at a time, so one command is one step; a     *)
(* worker runs its loops as tasks of one event loop, which interleave at   *)
(* each command.  Time is left out: a scheduled job is due, and a pending  *)
(* message idle, at any moment.                                            *)
(*                                                                         *)
(* Some definitions follow a faulty variant of theirs, which no action     *)
(* uses: the properties below tell the two apart.                          *)
(***************************************************************************)
EXTENDS Integers, Sequences, FiniteSets

CONSTANTS
  Jobs,          \* the jobs that producers have
  Workers,       \* the QueueWorkers of the stream
  Operators,     \* sessions of DLQManager
  Errors,        \* the texts that last_error can hold
  MaxRetries,    \* max_retries of the jobs
  BatchSize,     \* batch_size
  MaxLength,     \* max_stream_length
  Incidents,     \* what may happen to a worker: "crash", "stop", "redis"
  MaxIncidents,  \* bound on how often, for model checking
  MayRevive,     \* TRUE: operators retry dead jobs
  MaxLog,        \* bound on the entries ever added, for model checking
  None

ASSUME QueueAssumption ==
  /\ MaxRetries \in Nat /\ BatchSize \in Nat \ {0} /\ MaxLength \in Nat
  /\ MaxLog \in Nat /\ MaxIncidents \in Nat
  /\ Incidents \subseteq {"crash", "stop", "redis"}
  /\ MayRevive \in BOOLEAN
  /\ None \notin Jobs /\ None \notin Workers

VARIABLES
  stream,     \* the stream and its consumer group; an index is a stream id
  scheduled,  \* the sorted set jobs:scheduled
  dlq,        \* the stream jobs:dlq; an entry is kept until it is deleted
  running,    \* _running of each worker
  step,       \* where its consume loop is
  batch,      \* the stream ids that its consume loop has still to process
  cur,        \* the one it is processing
  due,        \* what its scheduler loop has still to move
  moving,     \* the job it has added to the stream but not yet removed
  session,    \* where each operator is, and with which entry of the dlq
  incidents,  \* how many happened
  enqueued,   \* history: the jobs that were accepted
  attempts,   \* history: how often the processing of a job began
  completed,  \* history: how often its handler returned
  dropped,    \* history: the jobs of which an entry was trimmed or deleted
  revived     \* history: the jobs that operators put back into the stream

worker == <<running, step, batch, cur, due, moving>>
history == <<enqueued, attempts, completed, dropped, revived>>
vars == <<stream, scheduled, dlq, worker, session, incidents, history>>

--------------------------------------------------------------------------------
\* The fields of a job that decide what happens to it, and which make two
\* members of the sorted set the same.
Job == [job: Jobs, retry: Nat, error: Errors \union {None}]

\* A loop that moves no job is told from one that does.
ASSUME NoneAssumption == None \notin Job

\* An entry of the stream: new until a consumer reads it, pending until it is
\* acknowledged.
Entry == [job: Jobs, retry: Nat, error: Errors \union {None},
          state: {"new", "pending", "acked", "trimmed"},
          consumer: Workers \union {None}]

DeadEntry == [job: Jobs, retry: Nat, error: Errors, kept: BOOLEAN]

Buried(e) == [job |-> e.job, retry |-> e.retry, error |-> e.error, kept |-> TRUE]

NewEntry(e) ==
  [job |-> e.job, retry |-> e.retry, error |-> e.error, state |-> "new", consumer |-> None]

New == {i \in DOMAIN stream : stream[i].state = "new"}
Pending == {i \in DOMAIN stream : stream[i].state = "pending"}
Dead == {i \in DOMAIN dlq : dlq[i].kept}

FirstTry(j) == [job |-> j, retry |-> 0, error |-> None]

Idle == [at |-> "idle", entry |-> 0]

Init ==
  /\ stream = <<>> /\ scheduled = {} /\ dlq = <<>>
  /\ running = [w \in Workers |-> FALSE]
  /\ step = [w \in Workers |-> "down"]
  /\ batch = [w \in Workers |-> {}]
  /\ cur = [w \in Workers |-> 0]
  /\ due = [w \in Workers |-> {}]
  /\ moving = [w \in Workers |-> None]
  /\ session = [o \in Operators |-> Idle]
  /\ incidents = 0
  /\ enqueued = {}
  /\ attempts = [j \in Jobs |-> 0]
  /\ completed = [j \in Jobs |-> 0]
  /\ dropped = {} /\ revived = {}

--------------------------------------------------------------------------------
(* Producers.                                                              *)

\* XADD MAXLEN ~ n: Redis drops some, all or none of the oldest entries
\* beyond n.  A worker has its own copy of those it read.
Trimmed(s, k) ==
  [i \in DOMAIN s |-> IF i <= k /\ s[i].state = "new" THEN [s[i] EXCEPT !.state = "trimmed"]
                                                      ELSE s[i]]

\* enqueue; enqueue_many is one for each job.
Enqueue(j) ==
  /\ j \notin enqueued
  /\ Len(stream) < MaxLog
  /\ LET s == Append(stream, NewEntry(FirstTry(j)))
     IN \E k \in {0} \union 1 .. (Len(s) - MaxLength) :
          /\ stream' = Trimmed(s, k)
          /\ dropped' = dropped \union {s[i].job : i \in {n \in DOMAIN s : n <= k /\ s[n].state = "new"}}
  /\ enqueued' = enqueued \union {j}
  /\ UNCHANGED <<scheduled, dlq, worker, session, incidents, attempts, completed,
                 revived>>

\* schedule
Schedule(j) ==
  /\ j \notin enqueued
  /\ scheduled' = scheduled \union {FirstTry(j)}
  /\ enqueued' = enqueued \union {j}
  /\ UNCHANGED <<stream, dlq, worker, session, incidents, attempts, completed, dropped,
                 revived>>

--------------------------------------------------------------------------------
(* The consume loop of a worker.                                           *)

Goto(w, label) == step' = [step EXCEPT ![w] = label]

\* run; a worker that comes back has a new consumer name, but reads as before.
Run(w) ==
  /\ step[w] = "down" /\ due[w] = {} /\ moving[w] = None
  /\ running' = [running EXCEPT ![w] = TRUE]
  /\ Goto(w, "wait")
  /\ UNCHANGED <<stream, scheduled, dlq, batch, cur, due, moving, session, incidents, history>>

\* XREADGROUP >: the oldest entries that no consumer has read.
Oldest(ids) == {i \in ids : Cardinality({k \in ids : k < i}) < BatchSize}

\* The loop looks at _running before it reads, not within a batch and not
\* when a read that blocked returns.
Block(w) ==
  /\ step[w] = "wait" /\ running[w]
  /\ Goto(w, "reading")
  /\ UNCHANGED <<stream, scheduled, dlq, running, batch, cur, due, moving, session,
                 incidents, history>>

ReadNothing(w) ==
  /\ step[w] = "reading" /\ New = {}
  /\ Goto(w, "wait")
  /\ UNCHANGED <<stream, scheduled, dlq, running, batch, cur, due, moving, session,
                 incidents, history>>

Read(w) ==
  /\ step[w] = "reading" /\ New # {}
  /\ batch' = [batch EXCEPT ![w] = Oldest(New)]
  /\ stream' = [i \in DOMAIN stream |->
                  IF i \in Oldest(New)
                    THEN [stream[i] EXCEPT !.state = "pending", !.consumer = w]
                    ELSE stream[i]]
  /\ Goto(w, "next")
  /\ UNCHANGED <<scheduled, dlq, running, cur, due, moving, session, incidents, history>>

LeaveLoop(w) ==
  /\ step[w] = "wait" /\ ~running[w]
  /\ Goto(w, "down")
  /\ UNCHANGED <<stream, scheduled, dlq, running, batch, cur, due, moving, session,
                 incidents, history>>

\* _process_message, up to the handler.
Begin(w) ==
  /\ step[w] = "next"
  /\ \E i \in batch[w] :
       /\ \A k \in batch[w] : i <= k
       /\ cur' = [cur EXCEPT ![w] = i]
       /\ attempts' = [attempts EXCEPT ![stream[i].job] = @ + 1]
  /\ Goto(w, "handling")
  /\ UNCHANGED <<stream, scheduled, dlq, running, batch, due, moving, session,
                 incidents, enqueued, completed, dropped, revived>>

HandlerReturns(w) ==
  /\ step[w] = "handling"
  /\ completed' = [completed EXCEPT ![stream[cur[w]].job] = @ + 1]
  /\ Goto(w, "ack")
  /\ UNCHANGED <<stream, scheduled, dlq, running, batch, cur, due, moving, session,
                 incidents, enqueued, attempts, dropped, revived>>

HandlerRaises(w) ==
  /\ step[w] = "handling"
  /\ Goto(w, "failing")
  /\ UNCHANGED <<stream, scheduled, dlq, running, batch, cur, due, moving, session,
                 incidents, history>>

\* XACK of the entry, whichever consumer it is pending for.
Acked(i) == stream' = [stream EXCEPT ![i].state = "acked", ![i].consumer = None]

Ack(w) ==
  /\ step[w] = "ack"
  /\ Acked(cur[w])
  /\ Goto(w, "count")
  /\ UNCHANGED <<scheduled, dlq, running, batch, cur, due, moving, session, incidents, history>>

\* On to the next message of the batch, or to the next batch.
BatchAbandoned(w) ==
  LET rest == batch[w] \ {cur[w]}
  IN IF running[w]
       THEN /\ cur' = [cur EXCEPT ![w] = 0]
            /\ batch' = [batch EXCEPT ![w] = rest]
            /\ Goto(w, IF rest = {} THEN "wait" ELSE "next")
       ELSE /\ cur' = [cur EXCEPT ![w] = 0]
            /\ batch' = [batch EXCEPT ![w] = {}]
            /\ Goto(w, "wait")
NextMessage(w) ==
  LET rest == batch[w] \ {cur[w]}
  IN /\ batch' = [batch EXCEPT ![w] = rest]
     /\ cur' = [cur EXCEPT ![w] = 0]
     /\ Goto(w, IF rest = {} THEN "wait" ELSE "next")

\* The metrics of a completed job.
Count(w) ==
  /\ step[w] = "count"
  /\ NextMessage(w)
  /\ UNCHANGED <<stream, scheduled, dlq, running, due, moving, session, incidents, history>>

\* _handle_error, up to its XACK: the job is scheduled for a retry or moves to
\* the dead letter queue.
OneRetryLess(e) == e.retry + 1 < MaxRetries
Retriable(e) == e.retry < MaxRetries

\* What the job carries from then on.
ErrorForgotten(e, text) == [job |-> e.job, retry |-> e.retry, error |-> e.error]
Failed(e, text) == [job |-> e.job, retry |-> e.retry, error |-> text]

\* A faulty variant: the message is acknowledged before it is kept elsewhere.
AckBeforeRetry(w) ==
  /\ step[w] = "failing"
  /\ Acked(cur[w])
  /\ Goto(w, "ack_failed")
  /\ UNCHANGED <<scheduled, dlq, running, batch, cur, due, moving, session, incidents, history>>
HandleError(w) ==
  LET e == stream[cur[w]]
  IN /\ step[w] = "failing"
     /\ \E text \in Errors :
          \/ /\ Retriable(e)
             /\ scheduled' = scheduled \union {[Failed(e, text) EXCEPT !.retry = @ + 1]}
             /\ UNCHANGED dlq
          \/ /\ ~Retriable(e)
             /\ dlq' = Append(dlq, Buried(Failed(e, text)))
             /\ UNCHANGED scheduled
     /\ Goto(w, "ack_failed")
     /\ UNCHANGED <<stream, running, batch, cur, due, moving, session, incidents, history>>

AckFailed(w) ==
  /\ step[w] = "ack_failed"
  /\ Acked(cur[w])
  /\ NextMessage(w)
  /\ UNCHANGED <<scheduled, dlq, running, due, moving, session, incidents, history>>

--------------------------------------------------------------------------------
(* The claim loop: an idle entry, of this or another consumer, becomes     *)
(* pending for this one.  Its data is not looked at.                       *)

Claim(w) ==
  /\ running[w]
  /\ \E i \in Pending : stream' = [stream EXCEPT ![i].consumer = w]
  /\ UNCHANGED <<scheduled, dlq, worker, session, incidents, history>>

--------------------------------------------------------------------------------
(* The scheduler loop: due jobs go back to the stream, in two commands.    *)

Poll(w) ==
  /\ running[w] /\ due[w] = {} /\ moving[w] = None
  /\ \E ready \in SUBSET scheduled \ {{}} : due' = [due EXCEPT ![w] = ready]
  /\ UNCHANGED <<stream, scheduled, dlq, running, step, batch, cur, moving, session,
                 incidents, history>>

\* XADD without a bound on the length.  The job comes from the snapshot.
Move(w) ==
  /\ moving[w] = None
  /\ Len(stream) < MaxLog
  /\ \E e \in due[w] :
       /\ stream' = Append(stream, NewEntry(e))
       /\ moving' = [moving EXCEPT ![w] = e]
  /\ UNCHANGED <<scheduled, dlq, running, step, batch, cur, due, session, incidents, history>>

\* A faulty variant: the job is not removed.
StaysScheduled(w) ==
  /\ moving[w] # None
  /\ due' = [due EXCEPT ![w] = @ \ {moving[w]}]
  /\ moving' = [moving EXCEPT ![w] = None]
  /\ UNCHANGED <<stream, scheduled, dlq, running, step, batch, cur, session, incidents, history>>

\* ZREM
Unschedule(w) ==
  /\ moving[w] # None
  /\ scheduled' = scheduled \ {moving[w]}
  /\ due' = [due EXCEPT ![w] = @ \ {moving[w]}]
  /\ moving' = [moving EXCEPT ![w] = None]
  /\ UNCHANGED <<stream, dlq, running, step, batch, cur, session, incidents, history>>

--------------------------------------------------------------------------------
(* The operators of the dead letter queue.                                 *)

\* retry_job, in its three commands.  The job starts over with its last error.
ReadDead(o) ==
  /\ MayRevive /\ session[o] = Idle
  /\ \E i \in Dead : session' = [session EXCEPT ![o] = [at |-> "add", entry |-> i]]
  /\ UNCHANGED <<stream, scheduled, dlq, worker, incidents, history>>

Revive(o) ==
  LET e == dlq[session[o].entry]
  IN /\ session[o].at = "add"
     /\ Len(stream) < MaxLog
     /\ stream' = Append(stream, NewEntry([job |-> e.job, retry |-> 0, error |-> e.error]))
     /\ session' = [session EXCEPT ![o].at = "del"]
     /\ revived' = revived \union {e.job}
     /\ UNCHANGED <<scheduled, dlq, worker, incidents, enqueued, attempts, completed, dropped>>

Deleted(i) == dlq' = [dlq EXCEPT ![i].kept = FALSE]

DeleteRevived(o) ==
  /\ session[o].at = "del"
  /\ Deleted(session[o].entry)
  /\ session' = [session EXCEPT ![o] = Idle]
  /\ UNCHANGED <<stream, scheduled, worker, incidents, history>>

\* delete_job, or purge of one old entry.
Discard(o) ==
  /\ session[o] = Idle
  /\ \E i \in Dead :
       /\ Deleted(i)
       /\ dropped' = dropped \union {dlq[i].job}
  /\ UNCHANGED <<stream, scheduled, worker, session, incidents, enqueued, attempts, completed,
                    revived>>

--------------------------------------------------------------------------------
(* What may happen to a worker.                                            *)

Incident(kind) ==
  /\ kind \in Incidents /\ incidents < MaxIncidents
  /\ incidents' = incidents + 1
  /\ UNCHANGED <<dlq, session, history>>

\* stop
Stop(w) ==
  /\ Incident("stop")
  /\ running[w]
  /\ running' = [running EXCEPT ![w] = FALSE]
  /\ UNCHANGED <<stream, scheduled, step, batch, cur, due, moving>>

\* The process dies: what its loops had in memory is gone, Redis is not told.
Crash(w) ==
  /\ Incident("crash")
  /\ step[w] # "down"
  /\ running' = [running EXCEPT ![w] = FALSE]
  /\ Goto(w, "down")
  /\ batch' = [batch EXCEPT ![w] = {}]
  /\ due' = [due EXCEPT ![w] = {}]
  /\ moving' = [moving EXCEPT ![w] = None]
  /\ cur' = [cur EXCEPT ![w] = 0]
  /\ UNCHANGED <<stream, scheduled>>

\* A Redis command of _process_message raises, after the handler returned: the
\* job is handled as a failed one.
AckFails(w) ==
  /\ Incident("redis")
  /\ step[w] \in {"ack", "count"}
  /\ Goto(w, "failing")
  /\ UNCHANGED <<stream, scheduled, running, batch, cur, due, moving>>

\* A Redis command of _handle_error raises: the exception leaves the batch.
HandlingFails(w) ==
  /\ Incident("redis")
  /\ step[w] \in {"failing", "ack_failed"}
  /\ Goto(w, "wait")
  /\ batch' = [batch EXCEPT ![w] = {}]
  /\ cur' = [cur EXCEPT ![w] = 0]
  /\ UNCHANGED <<stream, scheduled, running, due, moving>>

\* A Redis command of the scheduler loop raises: on to the next job.
MoveFails(w) ==
  /\ Incident("redis")
  /\ \/ /\ moving[w] = None
        /\ \E e \in due[w] : due' = [due EXCEPT ![w] = @ \ {e}]
     \/ /\ moving[w] # None
        /\ due' = [due EXCEPT ![w] = @ \ {moving[w]}]
  /\ moving' = [moving EXCEPT ![w] = None]
  /\ UNCHANGED <<stream, scheduled, running, step, batch, cur>>

--------------------------------------------------------------------------------
Produce == \E j \in Jobs : Enqueue(j) \/ Schedule(j)

Consume(w) ==
  \/ Block(w) \/ ReadNothing(w) \/ Read(w) \/ LeaveLoop(w) \/ Begin(w)
  \/ HandlerReturns(w) \/ HandlerRaises(w) \/ Ack(w) \/ Count(w)
  \/ HandleError(w) \/ AckFailed(w)

ProcessScheduled(w) == Poll(w) \/ Move(w) \/ Unschedule(w)

Trouble(w) == Stop(w) \/ Crash(w) \/ AckFails(w) \/ HandlingFails(w) \/ MoveFails(w)

ManageDead(o) == ReadDead(o) \/ Revive(o) \/ DeleteRevived(o) \/ Discard(o)

Next ==
  \/ Produce
  \/ \E w \in Workers :
       Run(w) \/ Consume(w) \/ Claim(w) \/ ProcessScheduled(w) \/ Trouble(w)
  \/ \E o \in Operators : ManageDead(o)

Spec == Init /\ [][Next]_vars

\* The loops of a worker do not wait for one another, a handler returns or
\* raises, and a worker that is down is started again.
FairSpec ==
  /\ Spec
  /\ \A w \in Workers :
       /\ WF_vars(Run(w)) /\ WF_vars(Consume(w)) /\ WF_vars(Claim(w))
       /\ WF_vars(ProcessScheduled(w))

--------------------------------------------------------------------------------
(* Properties.                                                             *)

\* Every variable keeps its type: the fields of the jobs in Redis and the
\* positions of the loops.
TypeOK ==
  /\ stream \in Seq(Entry)
  /\ scheduled \subseteq Job
  /\ dlq \in Seq(DeadEntry)
  /\ running \in [Workers -> BOOLEAN]
  /\ step \in [Workers -> {"down", "wait", "reading", "next", "handling", "ack", "count",
                          "failing", "ack_failed"}]
  /\ batch \in [Workers -> SUBSET DOMAIN stream]
  /\ cur \in [Workers -> DOMAIN stream \union {0}]
  /\ due \in [Workers -> SUBSET Job]
  /\ moving \in [Workers -> Job \union {None}]
  /\ session \in [Operators -> [at: {"idle", "add", "del"}, entry: DOMAIN dlq \union {0}]]
  /\ incidents \in Nat
  /\ enqueued \subseteq Jobs /\ dropped \subseteq Jobs /\ revived \subseteq Jobs
  /\ attempts \in [Jobs -> Nat] /\ completed \in [Jobs -> Nat]

Ended(j) == completed[j] > 0 \/ j \in dropped \/ \E i \in Dead : dlq[i].job = j

InRedis(j) ==
  \/ \E i \in New \union Pending : stream[i].job = j
  \/ \E e \in scheduled : e.job = j
  \/ \E i \in Dead : dlq[i].job = j

\* "Messages persistes (pas de perte)" (class ReliableQueue): whatever the
\* loops of several workers do at the same time, and whatever happens to them,
\* a job that was accepted is in the stream, in the sorted set or in the dead
\* letter queue until its handler returned, or its entry was trimmed or
\* deleted by an operator.  Not so a job that an operator retried: scheduled
\* again with the text of an earlier schedule, it may meet the late removal of
\* that one.
Accounted ==
  \A j \in enqueued \ revived : completed[j] > 0 \/ j \in dropped \/ InRedis(j)

\* A job reaches the dead letter queue only after its handler was tried once
\* and retried max_retries times, however its retries were split between
\* workers and duplicated.
DeadAfterAllAttempts == \A i \in DOMAIN dlq : attempts[dlq[i].job] > MaxRetries

\* stop() is graceful: when the loops of every worker came to their end, and
\* none of them died or lost Redis, they left no message unacknowledged.
StopsClean == (\A w \in Workers : step[w] = "down") => Pending = {}

\* With one worker a job has one outcome: its handler returns once, or it is
\* once in the dead letter queue.
OneOutcome ==
  \A j \in Jobs : completed[j] + Cardinality({i \in DOMAIN dlq : dlq[i].job = j}) <= 1

\* When no worker dies or loses Redis every job that was accepted comes to an
\* end: its handler returns, it is in the dead letter queue, or its entry was
\* trimmed.
JobEnds == \A j \in Jobs : j \in enqueued ~> Ended(j)

\* What the comment of _claim_abandoned_loop says of it ("Reclame les messages
\* abandonnes (worker crash)"): the job of a worker that died comes to an end.
AbandonedIsHandled == \A j \in Jobs : (\E i \in Pending : stream[i].job = j) ~> Ended(j)

================================================================================
