------------------------------- MODULE JobQueue -------------------------------
(***************************************************************************)
(* The Redis stream indexer:jobs, its consumer group indexer-workers, the  *)
(* producers (IndexerOrchestrator.createRun in the API, CronService in the *)
(* worker) and the consumer loop of the workers (IndexerConsumer.start)    *)
(* with its retry policy and dead-letter stream.  What a job computes is   *)
(* left to IndexPipeline: here a job returns or throws.                    *)
(*                                                                         *)
(* The stream is append-only and nobody trims it, so a message is its      *)
(* position.  XREADGROUP is only ever called with ">", so it moves the     *)
(* group's last-delivered position; an entry that was delivered and not    *)
(* acknowledged stays in the pending entries list and is never read again. *)
(***************************************************************************)
EXTENDS Naturals, Sequences, FiniteSets

CONSTANTS ApiJobs,        \* jobs enqueued by IndexerOrchestrator.createRun
          CronJobs,       \* jobs enqueued by CronService.runScheduledReindex
          Workers,        \* worker processes
          MaxAttempts,    \* DEFAULT_RETRY_POLICY.maxAttempts
          MaxConcurrent,  \* MAX_CONCURRENT_INDEX_JOBS
          MaxFaults       \* bound: crashes and failed XACKs in a behaviour

ASSUME JobQueueAssumption ==
    /\ ApiJobs \cap CronJobs = {}
    /\ MaxAttempts \in Nat \ {0}
    /\ MaxConcurrent \in Nat \ {0}
    /\ MaxFaults \in Nat

VARIABLES
    api,        \* api[j]: progress of createRun for the API job j
    cron,       \* cron jobs already enqueued
    stream,     \* entries of indexer:jobs, oldest first
    grouped,    \* does the consumer group exist
    delivered,  \* last-delivered position of the group
    pel,        \* positions delivered and not acknowledged
    dlq,        \* entries of indexer:jobs:dlq, oldest first
    pc,         \* pc[w]: where the consumer loop of w is
    cur,        \* cur[w]: position w works on, 0 for none
    active,     \* activeJobs of w
    finished,   \* history: positions for which processJob returned
    faults      \* faults so far

vars == <<api, cron, stream, grouped, delivered, pel, dlq, pc, cur, active,
          finished, faults>>

Jobs == ApiJobs \cup CronJobs
Entry == [job : Jobs, attempt : 1..MaxAttempts]
Positions == 1..Len(stream)

ApiStates == {"none", "created", "sent", "failed"}

\* run: in processJob; ack: before the xack of a job that returned; backoff:
\* in the delay before the xadd of the next attempt; bury: before the xadd to
\* the dead-letter stream; settle: before the xack that ends the catch block.
Working == {"run", "ack", "backoff", "bury", "settle"}
\* The outcome of the entry in hand is not recorded in a stream yet.
Undecided == {"run", "ack", "backoff", "bury"}

\* xadd of a job without attempt field; the consumer reads it as attempt 1.
FirstTry(j) == Append(stream, [job |-> j, attempt |-> 1])

shouldRetry_OneMore(attempt) == attempt <= MaxAttempts
shouldRetry_OneLess(attempt) == attempt < MaxAttempts - 1
shouldRetry(attempt) == attempt < MaxAttempts

Init ==
    /\ api = [j \in ApiJobs |-> "none"]
    /\ cron = {}
    /\ stream = << >>
    /\ grouped = FALSE
    /\ delivered = 0
    /\ pel = {}
    /\ dlq = << >>
    /\ pc = [w \in Workers |-> "down"]
    /\ cur = [w \in Workers |-> 0]
    /\ active = [w \in Workers |-> 0]
    /\ finished = {}
    /\ faults = 0

consumerVars == <<grouped, delivered, pel, dlq, pc, cur, active, finished>>
----------------------------------------------------------------------------
(* Producers *)

\* createRun, first await: the index_runs row, status pending.
CreateRun(j) ==
    /\ api[j] = "none"
    /\ api' = [api EXCEPT ![j] = "created"]
    /\ UNCHANGED <<cron, stream, faults, consumerVars>>

\* createRun, second await: IndexerQueue.enqueue.
EnqueueRun(j) ==
    /\ api[j] = "created"
    /\ api' = [api EXCEPT ![j] = "sent"]
    /\ stream' = FirstTry(j)
    /\ UNCHANGED <<cron, faults, consumerVars>>

\* The API dies between the two awaits or its xadd is rejected, with or
\* without the entry in the stream.  Nobody repeats the enqueue.
EnqueueFails(j) ==
    /\ api[j] = "created"
    /\ faults < MaxFaults
    /\ faults' = faults + 1
    /\ api' = [api EXCEPT ![j] = "failed"]
    /\ stream' \in {stream, FirstTry(j)}
    /\ UNCHANGED <<cron, consumerVars>>

\* The cron timer lives in a worker process and adds one entry per wallet.
CronEnqueue(j) ==
    /\ j \notin cron
    /\ \E w \in Workers : pc[w] # "down"
    /\ cron' = cron \cup {j}
    /\ stream' = FirstTry(j)
    /\ UNCHANGED <<api, faults, consumerVars>>
----------------------------------------------------------------------------
(* Consumer loop of worker w *)

\* XGROUP CREATE ... 0 MKSTREAM; an existing group is left as it is.
StartWorker(w) ==
    /\ pc[w] = "down"
    /\ pc' = [pc EXCEPT ![w] = "idle"]
    /\ grouped' = TRUE
    /\ delivered' = IF grouped THEN delivered ELSE 0
    /\ UNCHANGED <<api, cron, stream, pel, dlq, cur, active, finished, faults>>

Read_SameEntry(w) ==
    /\ pc[w] = "idle"
    /\ delivered < Len(stream)
    /\ cur' = [cur EXCEPT ![w] = delivered + 1]
    /\ pc' = [pc EXCEPT ![w] = "run"]
    /\ UNCHANGED <<api, cron, stream, grouped, delivered, pel, dlq, active,
                   finished, faults>>

Read(w) ==
    /\ pc[w] = "idle"
    /\ active[w] < MaxConcurrent
    /\ delivered < Len(stream)
    /\ delivered' = delivered + 1
    /\ pel' = pel \cup {delivered + 1}
    /\ cur' = [cur EXCEPT ![w] = delivered + 1]
    /\ active' = [active EXCEPT ![w] = @ + 1]
    /\ pc' = [pc EXCEPT ![w] = "run"]
    /\ UNCHANGED <<api, cron, stream, grouped, dlq, finished, faults>>

JobReturns(w) ==
    /\ pc[w] = "run"
    /\ pc' = [pc EXCEPT ![w] = "ack"]
    /\ finished' = finished \cup {cur[w]}
    /\ UNCHANGED <<api, cron, stream, grouped, delivered, pel, dlq, cur, active,
                   faults>>

\* The branch of the catch block.
Caught(w) == IF shouldRetry(stream[cur[w]].attempt) THEN "backoff" ELSE "bury"

JobThrows_AckFirst(w) ==
    /\ pc[w] = "run"
    /\ pc' = [pc EXCEPT ![w] = Caught(w)]
    /\ pel' = pel \ {cur[w]}
    /\ UNCHANGED <<api, cron, stream, grouped, delivered, dlq, cur, active,
                   finished, faults>>

JobThrows(w) ==
    /\ pc[w] = "run"
    /\ pc' = [pc EXCEPT ![w] = Caught(w)]
    /\ UNCHANGED <<api, cron, stream, grouped, delivered, pel, dlq, cur, active,
                   finished, faults>>

Release_Leak(w) ==
    /\ pc' = [pc EXCEPT ![w] = "idle"]
    /\ cur' = [cur EXCEPT ![w] = 0]
    /\ UNCHANGED active

\* The finally block, and back to the loop.
Release(w) ==
    /\ pc' = [pc EXCEPT ![w] = "idle"]
    /\ cur' = [cur EXCEPT ![w] = 0]
    /\ active' = [active EXCEPT ![w] = IF @ > 0 THEN @ - 1 ELSE 0]

Ack(w) ==
    /\ pc[w] = "ack"
    /\ pel' = pel \ {cur[w]}
    /\ Release(w)
    /\ UNCHANGED <<api, cron, stream, grouped, delivered, dlq, finished, faults>>

\* The xack of a job that returned is inside the try block: when it is
\* rejected, applied or not, the job is handled as if it had thrown.
AckFails(w) ==
    /\ pc[w] = "ack"
    /\ faults < MaxFaults
    /\ faults' = faults + 1
    /\ pel' \in {pel, pel \ {cur[w]}}
    /\ pc' = [pc EXCEPT ![w] = Caught(w)]
    /\ UNCHANGED <<api, cron, stream, grouped, delivered, dlq, cur, active,
                   finished>>

Requeue_SameAttempt(w) ==
    /\ pc[w] = "backoff"
    /\ stream' = Append(stream, stream[cur[w]])
    /\ pc' = [pc EXCEPT ![w] = "settle"]
    /\ UNCHANGED <<api, cron, grouped, delivered, pel, dlq, cur, active,
                   finished, faults>>

\* After the delay: the same payload with the next attempt number.
Requeue(w) ==
    /\ pc[w] = "backoff"
    /\ stream' = Append(stream, [stream[cur[w]] EXCEPT !.attempt = @ + 1])
    /\ pc' = [pc EXCEPT ![w] = "settle"]
    /\ UNCHANGED <<api, cron, grouped, delivered, pel, dlq, cur, active,
                   finished, faults>>

MoveToDlq(w) ==
    /\ pc[w] = "bury"
    /\ dlq' = Append(dlq, stream[cur[w]])
    /\ pc' = [pc EXCEPT ![w] = "settle"]
    /\ UNCHANGED <<api, cron, stream, grouped, delivered, pel, cur, active,
                   finished, faults>>

Settle(w) ==
    /\ pc[w] = "settle"
    /\ pel' = pel \ {cur[w]}
    /\ Release(w)
    /\ UNCHANGED <<api, cron, stream, grouped, delivered, dlq, finished, faults>>

\* The process dies: killed (main.ts installs no signal handler), or start()
\* rejected because XREADGROUP or a command of the catch block did, which no
\* one handles.  A command that was applied before its reply got lost is the
\* step that applies it followed by this one.
Crash(w) ==
    /\ pc[w] # "down"
    /\ faults < MaxFaults
    /\ faults' = faults + 1
    /\ pc' = [pc EXCEPT ![w] = "down"]
    /\ cur' = [cur EXCEPT ![w] = 0]
    /\ active' = [active EXCEPT ![w] = 0]
    /\ UNCHANGED <<api, cron, stream, grouped, delivered, pel, dlq, finished>>
----------------------------------------------------------------------------
WorkerStep(w) ==
    \/ StartWorker(w) \/ Read(w) \/ JobReturns(w) \/ JobThrows(w) \/ Ack(w)
    \/ Requeue(w) \/ MoveToDlq(w) \/ Settle(w)

Producer ==
    \/ \E j \in ApiJobs : CreateRun(j) \/ EnqueueRun(j) \/ EnqueueFails(j)
    \/ \E j \in CronJobs : CronEnqueue(j)

Next ==
    \/ Producer
    \/ \E w \in Workers : WorkerStep(w) \/ AckFails(w) \/ Crash(w)

Spec == Init /\ [][Next]_vars

\* A worker that is up keeps running, a dead task is started again by the
\* container service, and createRun goes on once its row is written.  Nothing
\* forces a caller to enqueue or a fault to happen.
Fairness ==
    /\ \A w \in Workers : WF_vars(WorkerStep(w))
    /\ \A j \in ApiJobs : WF_vars(EnqueueRun(j))

FairSpec == Spec /\ Fairness
----------------------------------------------------------------------------
(* Where a job is *)

Copies(j) == {i \in Positions : stream[i].job = j}

\* Some worker has this entry in hand and has not recorded its outcome.
Held(i) == \E w \in Workers : cur[w] = i /\ pc[w] \in Undecided

\* Entries that still lead to an execution or are one.
Live(i) == i > delivered \/ Held(i)

Buried(j) == \E k \in 1..Len(dlq) : dlq[k].job = j
Superseded(i) == \E k \in Positions : k > i /\ stream[k].job = stream[i].job

\* Delivered to a worker that is gone: only the pending entries list knows.
Abandoned(i) == i \in pel /\ \A w \in Workers : cur[w] # i
----------------------------------------------------------------------------
(* Properties *)

TypeOK ==
    /\ api \in [ApiJobs -> ApiStates]
    /\ cron \subseteq CronJobs
    /\ stream \in Seq(Entry)
    /\ grouped \in BOOLEAN
    /\ delivered \in 0..Len(stream)
    /\ pel \subseteq 1..delivered
    /\ dlq \in Seq(Entry)
    /\ pc \in [Workers -> {"down", "idle"} \cup Working]
    /\ cur \in [Workers -> 0..delivered]
    /\ active \in [Workers -> 0..MaxConcurrent]
    /\ finished \subseteq 1..delivered
    /\ faults \in 0..MaxFaults

\* However often a job is retried, and however workers crash, start or fail to
\* acknowledge, at most one copy of it waits or is in work, and it is in the
\* hands of one worker: the index runs of one job never overlap.
OneLiveCopy ==
    /\ \A i, k \in Positions :
           stream[i].job = stream[k].job /\ Live(i) /\ Live(k) => i = k
    /\ \A v, w \in Workers : cur[v] = cur[w] /\ cur[v] # 0 => v = w

\* The copies of one job carry increasing attempt numbers, so a job is
\* executed at most maxAttempts times.
AttemptsAscend ==
    \A i, k \in Positions :
        i < k /\ stream[i].job = stream[k].job => stream[i].attempt < stream[k].attempt

\* Every entry is accounted for at every moment: it waits or is in work, or its
\* job returned, or a later copy took its place, or the job is in the
\* dead-letter stream, or it is left in the pending entries list.  In
\* particular an entry is acknowledged only after what follows from it has been
\* written, and no entry is skipped when the group is created.
NothingVanishes ==
    \A i \in Positions :
        \/ Live(i)
        \/ i \in finished
        \/ Superseded(i)
        \/ Buried(stream[i].job)
        \/ Abandoned(i)

\* A job in the dead-letter stream used up its attempts, is there once, and
\* has no copy that could still run.
BurialIsFinal ==
    \A k \in 1..Len(dlq) :
        /\ dlq[k].attempt = MaxAttempts
        /\ \A l \in 1..Len(dlq) : dlq[l].job = dlq[k].job => l = k
        /\ \A i \in Copies(dlq[k].job) : ~Live(i)

\* activeJobs counts the one entry in hand, on every path out of the try
\* block, so an idle worker is never held back by the concurrency limit.
NoThrottleLeak ==
    \A w \in Workers : active[w] = IF pc[w] \in Working THEN 1 ELSE 0

\* Every job on the stream ends: there comes a moment from which no copy of it
\* waits or is in work, whatever the tries do and however the workers restart.
EveryJobEnds ==
    \A j \in Jobs : Copies(j) # {} ~> [](\A i \in Copies(j) : ~Live(i))
----------------------------------------------------------------------------
(* Refinement of JobDelivery *)

LastCopy(j) == CHOOSE i \in Copies(j) : \A k \in Copies(j) : k <= i

PhaseOf(j) ==
    IF Copies(j) = {} THEN "new"
    ELSE LET i == LastCopy(j)
         IN  CASE i > delivered -> "queued"
               [] i <= delivered /\ Held(i) -> "running"
               [] i <= delivered /\ ~Held(i) /\ Buried(j) -> "dead"
               [] i <= delivered /\ ~Held(i) /\ ~Buried(j) /\ i \in finished -> "done"
               [] OTHER -> "lost"

TriesOf(j) == IF Copies(j) = {} THEN 0 ELSE stream[LastCopy(j)].attempt

Delivery == INSTANCE JobDelivery
                WITH phase <- [j \in Jobs |-> PhaseOf(j)],
                     tries <- [j \in Jobs |-> TriesOf(j)]

\* The queue implements the delivery contract.
DeliveryContract == Delivery!DeliverySpec
==============================================================================
