---------------------------- MODULE JobQueueProofs ----------------------------
(***************************************************************************)
(* Machine-checked proofs about JobQueue, for every set of jobs, every     *)
(* number of workers and faults and every retry limit; at the end, that it *)
(* implements JobDelivery: a step of the queue is one step of the contract *)
(* for one job, or none.                                                   *)
(***************************************************************************)
EXTENDS JobQueue, WellFoundedInduction, TLAPS

----------------------------------------------------------------------------
(* The inductive invariant *)

\* A worker has an entry in hand exactly while it works on it.
HandsOK == \A w \in Workers : pc[w] \in Working <=> cur[w] # 0

\* Nothing was read before the group existed.
GroupOK == grouped \/ (delivered = 0 /\ \A w \in Workers : pc[w] = "down")

OneHandEach == \A v, w \in Workers : cur[v] = cur[w] /\ cur[v] # 0 => v = w

\* An entry that waits or is in work is the last copy of its job.
LiveIsLast == \A i \in Positions : Live(i) => ~Superseded(i)

\* A job is on the stream only if its producer has sent it.
SentOnce ==
    \A i \in Positions :
        /\ stream[i].job \in ApiJobs => api[stream[i].job] \in {"sent", "failed"}
        /\ stream[i].job \in CronJobs => stream[i].job \in cron

\* The branch taken in the catch block fits the attempt of the entry in hand.
BranchOK ==
    \A w \in Workers :
        /\ pc[w] = "backoff" => stream[cur[w]].attempt < MaxAttempts
        /\ pc[w] = "bury" => stream[cur[w]].attempt = MaxAttempts

BuriedWasSent ==
    \A k \in 1..Len(dlq) : \E i \in Positions : stream[i].job = dlq[k].job

\* Why the acknowledgements lose nothing.
HandKept ==
    \A w \in Workers :
        /\ pc[w] \in Working => cur[w] \in pel \cup finished
        /\ pc[w] = "ack" => cur[w] \in finished
        /\ pc[w] = "settle" =>
               Superseded(cur[w]) \/ Buried(stream[cur[w]].job)

EntryKept ==
    \A i \in 1..delivered :
        \/ i \in pel \cup finished
        \/ Superseded(i)
        \/ Buried(stream[i].job)

IInv ==
    /\ TypeOK
    /\ HandsOK
    /\ GroupOK
    /\ NoThrottleLeak
    /\ OneHandEach
    /\ LiveIsLast
    /\ AttemptsAscend
    /\ SentOnce
    /\ BranchOK
    /\ BuriedWasSent
    /\ BurialIsFinal
    /\ HandKept
    /\ EntryKept

----------------------------------------------------------------------------
(* Frames: what a step keeps when the streams stay, and when one grows *)

\* Appending an entry leaves the others where they are.
LEMMA AppendEntry ==
    ASSUME NEW s \in Seq(Entry), NEW e \in Entry
    PROVE  /\ Append(s, e) \in Seq(Entry)
           /\ Len(Append(s, e)) = Len(s) + 1
           /\ \A i \in 1..Len(s) : Append(s, e)[i] = s[i]
           /\ Append(s, e)[Len(s) + 1] = e
    OBVIOUS

\* Steps that add nothing to either stream and make no entry live again.
LEMMA SameStreams ==
    ASSUME IInv, UNCHANGED <<stream, dlq>>,
           \A i \in Positions : Live(i)' => Live(i)
    PROVE  /\ LiveIsLast' /\ AttemptsAscend' /\ BuriedWasSent' /\ BurialIsFinal'
           /\ \A i : Superseded(i)' <=> Superseded(i)
           /\ \A j : Buried(j)' <=> Buried(j)
<1>1. \A i : Superseded(i)' <=> Superseded(i)
  BY DEF Superseded, Positions
<1>2. \A j : Buried(j)' <=> Buried(j)
  BY DEF Buried
<1>3. LiveIsLast'
  BY <1>1 DEF IInv, LiveIsLast, Positions
<1>4. AttemptsAscend' /\ BuriedWasSent'
  BY DEF IInv, AttemptsAscend, BuriedWasSent, Positions
<1>5. BurialIsFinal'
  BY DEF IInv, BurialIsFinal, Copies, Positions
<1> QED BY <1>1, <1>2, <1>3, <1>4, <1>5

\* Steps that add one entry e, the next attempt of a job that has no other
\* live copy after the step.
LEMMA StreamGrows ==
    ASSUME IInv, NEW e \in Entry, stream' = Append(stream, e),
           UNCHANGED <<dlq, delivered, pel, finished>>,
           \A i \in Positions : Live(i)' => Live(i),
           \A i \in Positions :
               stream[i].job = e.job => ~Live(i)' /\ stream[i].attempt < e.attempt,
           ~Buried(e.job)
    PROVE  /\ LiveIsLast' /\ AttemptsAscend' /\ BuriedWasSent' /\ BurialIsFinal'
           /\ EntryKept'
           /\ \A i \in Positions : Superseded(i) => Superseded(i)'
           /\ \A i \in Positions : stream[i].job = e.job => Superseded(i)'
           /\ \A j : Buried(j)' <=> Buried(j)
<1> DEFINE n == Len(stream)
<1>1. /\ stream \in Seq(Entry) /\ stream' \in Seq(Entry)
      /\ Len(stream') = n + 1 /\ n \in Nat
      /\ \A i \in 1..n : stream'[i] = stream[i]
      /\ stream'[n + 1] = e
  BY AppendEntry DEF IInv, TypeOK
<1>2. \A i \in Positions : Superseded(i) => Superseded(i)'
  BY <1>1 DEF Superseded, Positions
<1>3. \A i \in Positions : stream[i].job = e.job => Superseded(i)'
  BY <1>1 DEF Superseded, Positions
<1>4. \A j : Buried(j)' <=> Buried(j)
  BY DEF Buried
<1>5. \A i \in Positions : Live(i)' => ~Superseded(i)'
  <2> SUFFICES ASSUME NEW i \in Positions, Live(i)', Superseded(i)'
               PROVE  FALSE
    OBVIOUS
  <2>1. PICK k \in Positions' : k > i /\ stream'[k].job = stream'[i].job
    BY DEF Superseded
  <2>2. CASE k \in Positions
    BY <1>1, <2>1, <2>2 DEF IInv, LiveIsLast, Superseded, Positions
  <2>3. CASE k = n + 1
    BY <1>1, <2>1, <2>3 DEF Positions
  <2> QED BY <1>1, <2>1, <2>2, <2>3 DEF Positions
<1>6. LiveIsLast'
  BY <1>1, <1>5 DEF LiveIsLast, Superseded, Positions
<1>7. AttemptsAscend'
  <2> SUFFICES ASSUME NEW i \in 1..(n + 1), NEW k \in 1..(n + 1), i < k,
                      stream'[i].job = stream'[k].job
               PROVE  stream'[i].attempt < stream'[k].attempt
    BY <1>1 DEF AttemptsAscend, Positions
  <2>1. CASE k \in 1..n
    BY <1>1, <2>1 DEF IInv, AttemptsAscend, Positions
  <2>2. CASE k = n + 1
    BY <1>1, <2>2 DEF Positions
  <2> QED BY <1>1, <2>1, <2>2
<1>8. BuriedWasSent'
  BY <1>1 DEF IInv, BuriedWasSent, Positions
<1>9. BurialIsFinal'
  <2>1. ASSUME NEW k \in 1..Len(dlq), NEW i \in 1..(n + 1),
               stream'[i].job = dlq[k].job
        PROVE  ~Live(i)'
    <3>1. i # n + 1
      BY <1>1, <2>1 DEF Buried
    <3>2. i \in Positions /\ stream[i].job = dlq[k].job
      BY <1>1, <2>1, <3>1 DEF Positions
    <3> QED BY <3>2 DEF IInv, BurialIsFinal, Copies
  <2> QED BY <1>1, <2>1 DEF IInv, BurialIsFinal, Copies, Positions
<1>10. EntryKept'
  <2> SUFFICES ASSUME NEW i \in 1..delivered, i \notin pel \cup finished
               PROVE  Superseded(i)' \/ Buried(stream[i].job)
    BY <1>1 DEF IInv, TypeOK, EntryKept, Buried, Positions
  <2>1. i \in Positions /\ stream'[i] = stream[i]
    BY <1>1 DEF IInv, TypeOK, Positions
  <2> QED BY <1>2, <2>1 DEF IInv, EntryKept
<1> QED BY <1>2, <1>3, <1>4, <1>6, <1>7, <1>8, <1>9, <1>10

----------------------------------------------------------------------------
(* Producers *)

\* A job that was not sent has no entry and is not buried.
LEMMA NotSentYet ==
    ASSUME IInv, NEW j \in Jobs, \A i \in Positions : stream[i].job # j
    PROVE  ~Buried(j)
BY DEF IInv, BuriedWasSent, Buried

\* The first copy of a job that was not sent.
LEMMA FirstCopy ==
    ASSUME IInv, NEW j \in Jobs, stream' = FirstTry(j),
           \A i \in Positions : stream[i].job # j,
           api' \in [ApiJobs -> ApiStates], cron' \in SUBSET CronJobs,
           \A k \in ApiJobs : k = j \/ api[k] \in {"sent", "failed"}
                                 => api'[k] \in {"sent", "failed"},
           \A k \in CronJobs : k = j \/ k \in cron => k \in cron',
           faults' \in 0..MaxFaults,
           UNCHANGED consumerVars
    PROVE  IInv'
<1> DEFINE e == [job |-> j, attempt |-> 1]
<1>1. e \in Entry /\ stream' = Append(stream, e)
  BY JobQueueAssumption DEF Entry, FirstTry
<1>2. /\ stream \in Seq(Entry) /\ stream' \in Seq(Entry)
      /\ Len(stream') = Len(stream) + 1 /\ Len(stream) \in Nat
      /\ \A i \in 1..Len(stream) : stream'[i] = stream[i]
      /\ stream'[Len(stream) + 1] = e
  BY <1>1, AppendEntry DEF IInv, TypeOK
<1>3. \A i \in Positions : Live(i)' => Live(i)
  BY DEF Live, Held, consumerVars
<1>4. ~Buried(j)
  BY NotSentYet
<1>5. /\ LiveIsLast' /\ AttemptsAscend' /\ BuriedWasSent' /\ BurialIsFinal'
      /\ EntryKept'
      /\ \A i \in Positions : Superseded(i) => Superseded(i)'
      /\ \A k : Buried(k)' <=> Buried(k)
  BY <1>1, <1>3, <1>4, StreamGrows DEF consumerVars
<1>6. TypeOK'
  BY <1>2 DEF IInv, TypeOK, consumerVars
<1>7. HandsOK' /\ GroupOK' /\ NoThrottleLeak' /\ OneHandEach'
  BY DEF IInv, HandsOK, GroupOK, NoThrottleLeak, OneHandEach, consumerVars
<1>8. \A w \in Workers : cur[w] # 0 => cur[w] \in Positions /\ stream'[cur[w]] = stream[cur[w]]
  BY <1>2 DEF IInv, TypeOK, Positions
<1>9. BranchOK'
  BY <1>8 DEF IInv, BranchOK, HandsOK, Working, consumerVars
<1>10. HandKept'
  <2>1. \A w \in Workers : pc[w] = "settle" => Superseded(cur[w])' \/ Buried(stream[cur[w]].job)
    <3> SUFFICES ASSUME NEW w \in Workers, pc[w] = "settle"
                 PROVE  Superseded(cur[w])' \/ Buried(stream[cur[w]].job)
      OBVIOUS
    <3>1. cur[w] \in Positions
      BY <1>8 DEF IInv, HandsOK, Working
    <3>2. cur' = cur
      BY DEF consumerVars
    <3>3. Superseded(cur[w]) \/ Buried(stream[cur[w]].job)
      BY DEF IInv, HandKept
    <3> QED BY <1>5, <3>1, <3>2, <3>3
  <2> QED BY <1>8, <2>1 DEF IInv, HandKept, HandsOK, Working, Buried, consumerVars
<1>11. SentOnce'
  <2> SUFFICES ASSUME NEW i \in 1..(Len(stream) + 1)
               PROVE  /\ stream'[i].job \in ApiJobs => api'[stream'[i].job] \in {"sent", "failed"}
                      /\ stream'[i].job \in CronJobs => stream'[i].job \in cron'
    BY <1>2 DEF SentOnce, Positions
  <2>1. CASE i \in 1..Len(stream)
    BY <1>2, <2>1 DEF IInv, SentOnce, Positions
  <2>2. CASE i = Len(stream) + 1
    BY <1>2, <2>2
  <2> QED BY <1>2, <2>1, <2>2
<1> QED BY <1>5, <1>6, <1>7, <1>9, <1>10, <1>11 DEF IInv

LEMMA CreateRunKeeps ==
    ASSUME IInv, NEW j \in ApiJobs, CreateRun(j)
    PROVE  IInv'
<1> USE DEF CreateRun, consumerVars
<1>1. \A i \in Positions : Live(i)' => Live(i)
  BY DEF Live, Held
<1>2. /\ LiveIsLast' /\ AttemptsAscend' /\ BuriedWasSent' /\ BurialIsFinal'
      /\ \A i : Superseded(i)' <=> Superseded(i)
      /\ \A k : Buried(k)' <=> Buried(k)
  BY <1>1, SameStreams
<1>3. TypeOK'
  BY DEF IInv, TypeOK, ApiStates
<1>4. HandsOK' /\ GroupOK' /\ NoThrottleLeak' /\ OneHandEach' /\ BranchOK'
  BY DEF IInv, HandsOK, GroupOK, NoThrottleLeak, OneHandEach, BranchOK
<1>5. HandKept' /\ EntryKept'
  BY DEF IInv, HandKept, EntryKept, Superseded, Buried, Positions
<1>6. SentOnce'
  BY DEF IInv, TypeOK, SentOnce, Positions
<1> QED BY <1>2, <1>3, <1>4, <1>5, <1>6 DEF IInv

LEMMA ProducersKeep ==
    ASSUME IInv, Producer
    PROVE  IInv'
<1>1. ASSUME NEW j \in ApiJobs, api[j] = "created"
      PROVE  \A i \in Positions : stream[i].job # j
  BY <1>1 DEF IInv, SentOnce
<1>2. ASSUME NEW j \in ApiJobs, CreateRun(j) PROVE IInv'
  BY <1>2, CreateRunKeeps
<1>3. ASSUME NEW j \in ApiJobs, EnqueueRun(j) PROVE IInv'
  <2> USE DEF EnqueueRun
  <2>1. /\ api' \in [ApiJobs -> ApiStates] /\ cron' \in SUBSET CronJobs
        /\ faults' \in 0..MaxFaults
        /\ \A k \in ApiJobs : k = j \/ api[k] \in {"sent", "failed"}
                              => api'[k] \in {"sent", "failed"}
        /\ \A k \in CronJobs : k = j \/ k \in cron => k \in cron'
    BY <1>3, JobQueueAssumption DEF IInv, TypeOK, ApiStates
  <2> QED BY <1>1, <1>3, <2>1, FirstCopy DEF Jobs
<1>4. ASSUME NEW j \in ApiJobs, EnqueueFails(j) PROVE IInv'
  <2> USE DEF EnqueueFails
  <2>1. /\ api' \in [ApiJobs -> ApiStates] /\ cron' \in SUBSET CronJobs
        /\ faults' \in 0..MaxFaults
        /\ \A k \in ApiJobs : k = j \/ api[k] \in {"sent", "failed"}
                              => api'[k] \in {"sent", "failed"}
        /\ \A k \in CronJobs : k = j \/ k \in cron => k \in cron'
    BY <1>4, JobQueueAssumption DEF IInv, TypeOK, ApiStates
  <2>2. CASE stream' = FirstTry(j)
    BY <1>1, <1>4, <2>1, <2>2, FirstCopy DEF Jobs
  <2>3. CASE stream' = stream
    <3>1. \A i \in Positions : Live(i)' => Live(i)
      BY <1>4, <2>3 DEF Live, Held, consumerVars
    <3>2. LiveIsLast' /\ AttemptsAscend' /\ BuriedWasSent' /\ BurialIsFinal'
      BY <1>4, <2>3, <3>1, SameStreams DEF consumerVars
    <3>3. TypeOK'
      BY <1>4, <2>1, <2>3 DEF IInv, TypeOK, consumerVars
    <3>4. HandsOK' /\ GroupOK' /\ NoThrottleLeak' /\ OneHandEach' /\ BranchOK'
      BY <1>4, <2>3 DEF IInv, HandsOK, GroupOK, NoThrottleLeak, OneHandEach, BranchOK, consumerVars
    <3>5. HandKept' /\ EntryKept'
      BY <1>4, <2>3 DEF IInv, HandKept, EntryKept, Superseded, Buried, Positions, consumerVars
    <3>6. SentOnce'
      BY <1>4, <2>1, <2>3 DEF IInv, SentOnce, Positions
    <3> QED BY <3>2, <3>3, <3>4, <3>5, <3>6 DEF IInv
  <2> QED BY <1>4, <2>2, <2>3
<1>5. ASSUME NEW j \in CronJobs, CronEnqueue(j) PROVE IInv'
  <2> USE DEF CronEnqueue
  <2>1. /\ api' \in [ApiJobs -> ApiStates] /\ cron' \in SUBSET CronJobs
        /\ faults' \in 0..MaxFaults
        /\ \A k \in ApiJobs : k = j \/ api[k] \in {"sent", "failed"}
                              => api'[k] \in {"sent", "failed"}
        /\ \A k \in CronJobs : k = j \/ k \in cron => k \in cron'
    BY <1>5, JobQueueAssumption DEF IInv, TypeOK
  <2>2. \A i \in Positions : stream[i].job # j
    BY <1>5 DEF IInv, SentOnce
  <2> QED BY <1>5, <2>1, <2>2, FirstCopy DEF Jobs
<1> QED BY <1>2, <1>3, <1>4, <1>5 DEF Producer

----------------------------------------------------------------------------
(* Consumers *)

\* The steps of a worker that leave both streams, the producers and the group
\* position alone: what they do to pc, cur, pel and finished decides.
LEMMA QuietStep ==
    ASSUME IInv, UNCHANGED <<api, cron, stream, dlq, delivered>>,
           TypeOK', HandsOK', GroupOK', NoThrottleLeak', OneHandEach', BranchOK',
           \A i \in Positions : Held(i)' => Held(i),
           \A i \in pel \cup finished :
               \/ i \in pel' \cup finished'
               \/ Superseded(i) \/ Buried(stream[i].job),
           \A w \in Workers :
               /\ pc'[w] \in Working => cur'[w] \in pel' \cup finished'
               /\ pc'[w] = "ack" => cur'[w] \in finished'
               /\ pc'[w] = "settle" => pc[w] = "settle" /\ cur'[w] = cur[w]
    PROVE  IInv'
<1>1. \A i \in Positions : Live(i)' => Live(i)
  BY DEF Live
<1>2. /\ LiveIsLast' /\ AttemptsAscend' /\ BuriedWasSent' /\ BurialIsFinal'
      /\ \A i : Superseded(i)' <=> Superseded(i)
      /\ \A k : Buried(k)' <=> Buried(k)
  BY <1>1, SameStreams
<1>3. HandKept'
  BY DEF IInv, HandKept, Superseded, Buried, Positions
<1>4. EntryKept'
  <2>1. \A i \in 1..delivered : \/ i \in pel' \cup finished'
                                \/ Superseded(i) \/ Buried(stream[i].job)
    BY DEF IInv, EntryKept
  <2> QED BY <2>1 DEF EntryKept, Superseded, Buried, Positions
<1>5. SentOnce'
  BY DEF IInv, SentOnce, Positions
<1> QED BY <1>2, <1>3, <1>4, <1>5 DEF IInv

\* What a worker has in hand.
LEMMA InHand ==
    ASSUME IInv, NEW w \in Workers, pc[w] \in Working
    PROVE  /\ cur[w] \in 1..delivered /\ cur[w] \in Positions
           /\ stream[cur[w]].job \in Jobs /\ stream[cur[w]].attempt \in 1..MaxAttempts
           /\ active[w] = 1
<1>1. cur[w] \in 1..delivered /\ active[w] = 1
  BY DEF IInv, TypeOK, HandsOK, NoThrottleLeak
<1>2. cur[w] \in Positions
  BY <1>1 DEF IInv, TypeOK, Positions
<1>3. stream[cur[w]] \in Entry
  BY <1>2 DEF IInv, TypeOK, Positions
<1> QED BY <1>1, <1>2, <1>3 DEF Entry

LEMMA StartKeeps ==
    ASSUME IInv, NEW w \in Workers, StartWorker(w)
    PROVE  IInv'
<1> USE DEF StartWorker
<1>1. TypeOK'
  BY DEF IInv, TypeOK, GroupOK
<1>2. HandsOK' /\ GroupOK' /\ NoThrottleLeak'
  BY DEF IInv, TypeOK, HandsOK, GroupOK, NoThrottleLeak, Working
<1>3. OneHandEach'
  BY DEF IInv, TypeOK, OneHandEach
<1>4. BranchOK'
  BY JobQueueAssumption DEF IInv, TypeOK, BranchOK, HandsOK, Working
<1>5. \A i \in Positions : Held(i)' => Held(i)
  BY DEF IInv, TypeOK, Held, Undecided
<1>6. \A i \in pel \cup finished :
        \/ i \in pel' \cup finished'
        \/ Superseded(i) \/ Buried(stream[i].job)
  BY DEF IInv, TypeOK, HandKept, HandsOK, Working
<1>7. \A v \in Workers :
        /\ pc'[v] \in Working => cur'[v] \in pel' \cup finished'
        /\ pc'[v] = "ack" => cur'[v] \in finished'
        /\ pc'[v] = "settle" => pc[v] = "settle" /\ cur'[v] = cur[v]
  BY DEF IInv, TypeOK, HandKept, HandsOK, OneHandEach, Working
<1>8. UNCHANGED <<api, cron, stream, dlq, delivered>>
  BY DEF IInv, GroupOK
<1> QED BY <1>1, <1>2, <1>3, <1>4, <1>5, <1>6, <1>7, <1>8, QuietStep

LEMMA ReturnsKeeps ==
    ASSUME IInv, NEW w \in Workers, JobReturns(w)
    PROVE  IInv'
<1> USE DEF JobReturns
<1>1. TypeOK'
  BY InHand, JobQueueAssumption DEF IInv, TypeOK, Working
<1>2. HandsOK' /\ GroupOK' /\ NoThrottleLeak'
  BY DEF IInv, TypeOK, HandsOK, GroupOK, NoThrottleLeak, Working
<1>3. OneHandEach'
  BY DEF IInv, TypeOK, OneHandEach
<1>4. BranchOK'
  BY JobQueueAssumption DEF IInv, TypeOK, BranchOK, HandsOK, Working
<1>5. \A i \in Positions : Held(i)' => Held(i)
  BY DEF IInv, TypeOK, Held, Undecided
<1>6. \A i \in pel \cup finished :
        \/ i \in pel' \cup finished'
        \/ Superseded(i) \/ Buried(stream[i].job)
  BY DEF IInv, TypeOK, HandKept, HandsOK, Working
<1>7. \A v \in Workers :
        /\ pc'[v] \in Working => cur'[v] \in pel' \cup finished'
        /\ pc'[v] = "ack" => cur'[v] \in finished'
        /\ pc'[v] = "settle" => pc[v] = "settle" /\ cur'[v] = cur[v]
  BY DEF IInv, TypeOK, HandKept, HandsOK, OneHandEach, Working
<1>8. UNCHANGED <<api, cron, stream, dlq, delivered>>
  BY DEF IInv, GroupOK
<1> QED BY <1>1, <1>2, <1>3, <1>4, <1>5, <1>6, <1>7, <1>8, QuietStep

LEMMA ThrowsKeeps ==
    ASSUME IInv, NEW w \in Workers, JobThrows(w)
    PROVE  IInv'
<1> USE DEF JobThrows, Caught, shouldRetry
<1>1. TypeOK'
  BY JobQueueAssumption DEF IInv, TypeOK, HandsOK, NoThrottleLeak, Working
<1>2. HandsOK' /\ GroupOK' /\ NoThrottleLeak'
  BY DEF IInv, TypeOK, HandsOK, GroupOK, NoThrottleLeak, Working
<1>3. OneHandEach'
  BY DEF IInv, TypeOK, OneHandEach
<1>4. BranchOK'
  <2>1. stream[cur[w]].attempt \in 1..MaxAttempts
    BY InHand DEF Working
  <2> QED BY <2>1, JobQueueAssumption DEF IInv, TypeOK, BranchOK
<1>5. \A i \in Positions : Held(i)' => Held(i)
  BY DEF IInv, TypeOK, Held, Undecided
<1>6. \A i \in pel \cup finished :
        \/ i \in pel' \cup finished'
        \/ Superseded(i) \/ Buried(stream[i].job)
  BY DEF IInv, TypeOK, HandKept, HandsOK, Working
<1>7. \A v \in Workers :
        /\ pc'[v] \in Working => cur'[v] \in pel' \cup finished'
        /\ pc'[v] = "ack" => cur'[v] \in finished'
        /\ pc'[v] = "settle" => pc[v] = "settle" /\ cur'[v] = cur[v]
  BY DEF IInv, TypeOK, HandKept, HandsOK, OneHandEach, Working
<1>8. UNCHANGED <<api, cron, stream, dlq, delivered>>
  BY DEF IInv, GroupOK
<1> QED BY <1>1, <1>2, <1>3, <1>4, <1>5, <1>6, <1>7, <1>8, QuietStep

LEMMA AckKeeps ==
    ASSUME IInv, NEW w \in Workers, Ack(w)
    PROVE  IInv'
<1> USE DEF Ack, Release
<1>1. TypeOK'
  <2>1. active[w] = 1
    BY InHand DEF Working
  <2>2. active' = [active EXCEPT ![w] = 0]
    BY <2>1
  <2>3. active' \in [Workers -> 0..MaxConcurrent]
    BY <2>2, JobQueueAssumption DEF IInv, TypeOK
  <2>4. cur' \in [Workers -> 0..delivered']
    BY DEF IInv, TypeOK
  <2> QED BY <2>3, <2>4 DEF IInv, TypeOK
<1>2. HandsOK' /\ GroupOK' /\ NoThrottleLeak'
  BY DEF IInv, TypeOK, HandsOK, GroupOK, NoThrottleLeak, Working
<1>3. OneHandEach'
  BY DEF IInv, TypeOK, OneHandEach
<1>4. BranchOK'
  BY JobQueueAssumption DEF IInv, TypeOK, BranchOK, HandsOK, Working
<1>5. \A i \in Positions : Held(i)' => Held(i)
  BY DEF IInv, TypeOK, Held, Undecided
<1>6. \A i \in pel \cup finished :
        \/ i \in pel' \cup finished'
        \/ Superseded(i) \/ Buried(stream[i].job)
  BY DEF IInv, TypeOK, HandKept, HandsOK, Working
<1>7. \A v \in Workers :
        /\ pc'[v] \in Working => cur'[v] \in pel' \cup finished'
        /\ pc'[v] = "ack" => cur'[v] \in finished'
        /\ pc'[v] = "settle" => pc[v] = "settle" /\ cur'[v] = cur[v]
  BY DEF IInv, TypeOK, HandKept, HandsOK, OneHandEach, Working
<1>8. UNCHANGED <<api, cron, stream, dlq, delivered>>
  BY DEF IInv, GroupOK
<1> QED BY <1>1, <1>2, <1>3, <1>4, <1>5, <1>6, <1>7, <1>8, QuietStep

LEMMA AckFailsKeeps ==
    ASSUME IInv, NEW w \in Workers, AckFails(w)
    PROVE  IInv'
<1> USE DEF AckFails, Caught, shouldRetry
<1>1. TypeOK'
  BY JobQueueAssumption DEF IInv, TypeOK, HandsOK, NoThrottleLeak, Working
<1>2. HandsOK' /\ GroupOK' /\ NoThrottleLeak'
  BY DEF IInv, TypeOK, HandsOK, GroupOK, NoThrottleLeak, Working
<1>3. OneHandEach'
  BY DEF IInv, TypeOK, OneHandEach
<1>4. BranchOK'
  <2>1. stream[cur[w]].attempt \in 1..MaxAttempts
    BY InHand DEF Working
  <2> QED BY <2>1, JobQueueAssumption DEF IInv, TypeOK, BranchOK
<1>5. \A i \in Positions : Held(i)' => Held(i)
  BY DEF IInv, TypeOK, Held, Undecided
<1>6. \A i \in pel \cup finished :
        \/ i \in pel' \cup finished'
        \/ Superseded(i) \/ Buried(stream[i].job)
  BY DEF IInv, TypeOK, HandKept, HandsOK, Working
<1>7. \A v \in Workers :
        /\ pc'[v] \in Working => cur'[v] \in pel' \cup finished'
        /\ pc'[v] = "ack" => cur'[v] \in finished'
        /\ pc'[v] = "settle" => pc[v] = "settle" /\ cur'[v] = cur[v]
  BY DEF IInv, TypeOK, HandKept, HandsOK, OneHandEach, Working
<1>8. UNCHANGED <<api, cron, stream, dlq, delivered>>
  BY DEF IInv, GroupOK
<1> QED BY <1>1, <1>2, <1>3, <1>4, <1>5, <1>6, <1>7, <1>8, QuietStep

LEMMA SettleKeeps ==
    ASSUME IInv, NEW w \in Workers, Settle(w)
    PROVE  IInv'
<1> USE DEF Settle, Release
<1>1. TypeOK'
  <2>1. active[w] = 1
    BY InHand DEF Working
  <2>2. active' = [active EXCEPT ![w] = 0]
    BY <2>1
  <2>3. active' \in [Workers -> 0..MaxConcurrent]
    BY <2>2, JobQueueAssumption DEF IInv, TypeOK
  <2>4. cur' \in [Workers -> 0..delivered']
    BY DEF IInv, TypeOK
  <2> QED BY <2>3, <2>4 DEF IInv, TypeOK
<1>2. HandsOK' /\ GroupOK' /\ NoThrottleLeak'
  BY DEF IInv, TypeOK, HandsOK, GroupOK, NoThrottleLeak, Working
<1>3. OneHandEach'
  BY DEF IInv, TypeOK, OneHandEach
<1>4. BranchOK'
  BY JobQueueAssumption DEF IInv, TypeOK, BranchOK, HandsOK, Working
<1>5. \A i \in Positions : Held(i)' => Held(i)
  BY DEF IInv, TypeOK, Held, Undecided
<1>6. \A i \in pel \cup finished :
        \/ i \in pel' \cup finished'
        \/ Superseded(i) \/ Buried(stream[i].job)
  BY DEF IInv, TypeOK, HandKept, HandsOK, Working
<1>7. \A v \in Workers :
        /\ pc'[v] \in Working => cur'[v] \in pel' \cup finished'
        /\ pc'[v] = "ack" => cur'[v] \in finished'
        /\ pc'[v] = "settle" => pc[v] = "settle" /\ cur'[v] = cur[v]
  BY DEF IInv, TypeOK, HandKept, HandsOK, OneHandEach, Working
<1>8. UNCHANGED <<api, cron, stream, dlq, delivered>>
  BY DEF IInv, GroupOK
<1> QED BY <1>1, <1>2, <1>3, <1>4, <1>5, <1>6, <1>7, <1>8, QuietStep

LEMMA CrashKeeps ==
    ASSUME IInv, NEW w \in Workers, Crash(w)
    PROVE  IInv'
<1> USE DEF Crash
<1>1. TypeOK'
  BY JobQueueAssumption DEF IInv, TypeOK, HandsOK, NoThrottleLeak, Working
<1>2. HandsOK' /\ GroupOK' /\ NoThrottleLeak'
  BY DEF IInv, TypeOK, HandsOK, GroupOK, NoThrottleLeak, Working
<1>3. OneHandEach'
  BY DEF IInv, TypeOK, OneHandEach
<1>4. BranchOK'
  BY JobQueueAssumption DEF IInv, TypeOK, BranchOK, HandsOK, Working
<1>5. \A i \in Positions : Held(i)' => Held(i)
  BY DEF IInv, TypeOK, Held, Undecided
<1>6. \A i \in pel \cup finished :
        \/ i \in pel' \cup finished'
        \/ Superseded(i) \/ Buried(stream[i].job)
  BY DEF IInv, TypeOK, HandKept, HandsOK, Working
<1>7. \A v \in Workers :
        /\ pc'[v] \in Working => cur'[v] \in pel' \cup finished'
        /\ pc'[v] = "ack" => cur'[v] \in finished'
        /\ pc'[v] = "settle" => pc[v] = "settle" /\ cur'[v] = cur[v]
  BY DEF IInv, TypeOK, HandKept, HandsOK, OneHandEach, Working
<1>8. UNCHANGED <<api, cron, stream, dlq, delivered>>
  BY DEF IInv, GroupOK
<1> QED BY <1>1, <1>2, <1>3, <1>4, <1>5, <1>6, <1>7, <1>8, QuietStep

LEMMA ReadKeeps ==
    ASSUME IInv, NEW w \in Workers, Read(w)
    PROVE  IInv'
<1> USE DEF Read
<1> DEFINE d == delivered + 1
<1>1. /\ d \in Positions /\ d \notin 1..delivered
      /\ delivered \in Nat /\ 1..delivered \subseteq 1..d
      /\ cur[w] = 0 /\ active[w] = 0
  <2>1. cur[w] = 0 /\ active[w] = 0
    BY DEF IInv, TypeOK, HandsOK, NoThrottleLeak, Working
  <2>2. Len(stream) \in Nat /\ delivered \in 0..Len(stream)
    BY DEF IInv, TypeOK
  <2> QED BY <2>1, <2>2 DEF Positions
<1>2. TypeOK'
  <2>1. /\ cur' \in [Workers -> 0..d] /\ pel' \subseteq 1..d /\ finished' \subseteq 1..d
        /\ d \in 0..Len(stream)
    BY <1>1 DEF IInv, TypeOK, Positions
  <2>2. active' \in [Workers -> 0..MaxConcurrent]
    BY <1>1, JobQueueAssumption DEF IInv, TypeOK
  <2> QED BY <2>1, <2>2 DEF IInv, TypeOK, Working
<1>3. HandsOK' /\ NoThrottleLeak' /\ OneHandEach'
  BY <1>1 DEF IInv, TypeOK, HandsOK, NoThrottleLeak, OneHandEach, Working
<1>4. GroupOK'
  BY <1>1 DEF IInv, TypeOK, GroupOK
<1>5. BranchOK'
  BY DEF IInv, TypeOK, BranchOK
<1>6. \A i \in Positions : Live(i)' => Live(i)
  BY <1>1 DEF IInv, TypeOK, Live, Held, Undecided, Positions
<1>7. /\ LiveIsLast' /\ AttemptsAscend' /\ BuriedWasSent' /\ BurialIsFinal'
      /\ \A i : Superseded(i)' <=> Superseded(i)
      /\ \A k : Buried(k)' <=> Buried(k)
  BY <1>6, SameStreams
<1>8. HandKept'
  <2>1. ASSUME NEW v \in Workers, v # w
        PROVE  cur'[v] = cur[v] /\ pc'[v] = pc[v]
    BY <2>1 DEF IInv, TypeOK
  <2>2. cur'[w] \in pel' /\ pc'[w] = "run"
    BY DEF IInv, TypeOK
  <2> QED BY <2>1, <2>2 DEF IInv, HandKept, Superseded, Buried, Positions
<1>9. EntryKept'
  <2>1. \A i \in 1..d : i \in 1..delivered \/ i = d
    BY <1>1
  <2> QED BY <2>1 DEF IInv, EntryKept, Superseded, Buried, Positions
<1>10. SentOnce'
  BY DEF IInv, SentOnce, Positions
<1> QED BY <1>2, <1>3, <1>4, <1>5, <1>7, <1>8, <1>9, <1>10 DEF IInv

LEMMA RequeueKeeps ==
    ASSUME IInv, NEW w \in Workers, Requeue(w)
    PROVE  IInv'
<1> USE DEF Requeue
<1> DEFINE c == cur[w]
           e == [stream[c] EXCEPT !.attempt = @ + 1]
<1>1. /\ c \in 1..delivered /\ c \in Positions
      /\ stream[c] \in Entry /\ stream[c].attempt < MaxAttempts
  BY InHand DEF IInv, TypeOK, BranchOK, Working, Positions
<1>2. /\ e \in Entry /\ e.job = stream[c].job
      /\ e.attempt = stream[c].attempt + 1
  <2>1. /\ stream[c].job \in Jobs /\ stream[c].attempt + 1 \in 1..MaxAttempts
        /\ stream[c] = [job |-> stream[c].job, attempt |-> stream[c].attempt]
    BY <1>1, JobQueueAssumption DEF Entry
  <2>2. e = [job |-> stream[c].job, attempt |-> stream[c].attempt + 1]
    BY <2>1
  <2> QED BY <2>1, <2>2 DEF Entry
<1>3. /\ stream \in Seq(Entry) /\ stream' \in Seq(Entry)
      /\ Len(stream') = Len(stream) + 1 /\ Len(stream) \in Nat
      /\ \A i \in 1..Len(stream) : stream'[i] = stream[i]
      /\ stream'[Len(stream) + 1] = e
  BY <1>2, AppendEntry DEF IInv, TypeOK
<1>4. pc[w] = "backoff" /\ pc'[w] = "settle" /\ cur' = cur
      /\ \A v \in Workers : v # w => pc'[v] = pc[v]
  BY DEF IInv, TypeOK
<1>5. Live(c) /\ \A i \in Positions : Live(i)' => Live(i) /\ i # c
  BY <1>1, <1>4 DEF IInv, TypeOK, OneHandEach, Live, Held, Undecided
<1>6. \A i \in Positions : stream[i].job = e.job => i <= c
  BY <1>1, <1>2, <1>5 DEF IInv, LiveIsLast, Superseded, Positions
<1>7. \A i \in Positions :
        stream[i].job = e.job => ~Live(i)' /\ stream[i].attempt < e.attempt
  <2> SUFFICES ASSUME NEW i \in Positions, stream[i].job = e.job
               PROVE  ~Live(i)' /\ stream[i].attempt < e.attempt
    OBVIOUS
  <2>1. CASE i = c
    BY <1>1, <1>2, <1>5, <2>1 DEF Entry
  <2>2. CASE i < c
    <3>1. stream[i].attempt < stream[c].attempt
      BY <1>1, <1>2, <2>2 DEF IInv, AttemptsAscend
    <3>2. Superseded(i)
      BY <1>1, <1>2, <2>2 DEF Superseded
    <3>3. stream[i].attempt \in Nat /\ stream[c].attempt \in Nat
      <4>1. stream[i] \in Entry
        BY <1>3 DEF Positions
      <4> QED BY <1>1, <4>1, JobQueueAssumption DEF Entry
    <3> QED BY <1>2, <1>5, <3>1, <3>2, <3>3 DEF IInv, LiveIsLast
  <2> QED BY <1>1, <1>6, <2>1, <2>2 DEF Positions
<1>8. ~Buried(e.job)
  BY <1>1, <1>2, <1>5 DEF IInv, BurialIsFinal, Buried, Copies
<1>9. /\ LiveIsLast' /\ AttemptsAscend' /\ BuriedWasSent' /\ BurialIsFinal'
      /\ EntryKept'
      /\ \A i \in Positions : Superseded(i) => Superseded(i)'
      /\ \A i \in Positions : stream[i].job = e.job => Superseded(i)'
      /\ \A k : Buried(k)' <=> Buried(k)
  BY <1>2, <1>5, <1>7, <1>8, StreamGrows
<1>10. TypeOK'
  BY <1>3 DEF IInv, TypeOK, Working
<1>11. HandsOK' /\ GroupOK' /\ NoThrottleLeak' /\ OneHandEach'
  BY <1>4 DEF IInv, TypeOK, HandsOK, GroupOK, NoThrottleLeak, OneHandEach, Working
<1>12. \A v \in Workers : pc[v] \in Working =>
          cur[v] \in Positions /\ stream'[cur[v]] = stream[cur[v]]
  BY <1>3, InHand DEF Positions
<1>13. BranchOK'
  BY <1>4, <1>12 DEF IInv, BranchOK, Working
<1>14. HandKept'
  <2>1. \A v \in Workers : pc'[v] = "settle" => Superseded(cur[v])' \/ Buried(stream[cur[v]].job)
    <3> SUFFICES ASSUME NEW v \in Workers, pc'[v] = "settle"
                 PROVE  Superseded(cur[v])' \/ Buried(stream[cur[v]].job)
      OBVIOUS
    <3>1. CASE v = w
      BY <1>1, <1>2, <1>9, <3>1
    <3>2. CASE v # w
      <4>1. pc[v] = "settle" /\ cur[v] \in Positions
        BY <1>4, <1>12, <3>2 DEF Working
      <4>2. Superseded(cur[v]) \/ Buried(stream[cur[v]].job)
        BY <4>1 DEF IInv, HandKept
      <4> QED BY <1>9, <4>1, <4>2
    <3> QED BY <3>1, <3>2
  <2>2. \A v \in Workers : pc'[v] \in Working => pc[v] \in Working
    BY <1>4 DEF Working
  <2>3. \A v \in Workers : pc'[v] = "settle" =>
            Superseded(cur[v])' \/ Buried(stream[cur[v]].job)'
    BY <1>12, <2>1, <2>2 DEF Buried, Working
  <2>4. \A v \in Workers : pc'[v] = "ack" => pc[v] = "ack"
    BY <1>4
  <2> QED BY <1>4, <1>12, <2>2, <2>3, <2>4 DEF IInv, HandKept, Buried
<1>15. SentOnce'
  <2> SUFFICES ASSUME NEW i \in 1..(Len(stream) + 1)
               PROVE  /\ stream'[i].job \in ApiJobs => api[stream'[i].job] \in {"sent", "failed"}
                      /\ stream'[i].job \in CronJobs => stream'[i].job \in cron
    BY <1>3 DEF SentOnce, Positions
  <2>1. \E k \in Positions : stream'[i].job = stream[k].job
    BY <1>1, <1>2, <1>3 DEF Positions
  <2> QED BY <2>1 DEF IInv, SentOnce
<1> QED BY <1>9, <1>10, <1>11, <1>13, <1>14, <1>15 DEF IInv

LEMMA MoveToDlqKeeps ==
    ASSUME IInv, NEW w \in Workers, MoveToDlq(w)
    PROVE  IInv'
<1> USE DEF MoveToDlq
<1> DEFINE c == cur[w]
           n == Len(dlq)
<1>1. /\ c \in 1..delivered /\ c \in Positions
      /\ stream[c] \in Entry /\ stream[c].attempt = MaxAttempts
  BY InHand DEF IInv, TypeOK, BranchOK, Working, Positions
<1>2. /\ dlq \in Seq(Entry) /\ dlq' \in Seq(Entry)
      /\ Len(dlq') = n + 1 /\ n \in Nat
      /\ \A k \in 1..n : dlq'[k] = dlq[k]
      /\ dlq'[n + 1] = stream[c]
  BY <1>1, AppendEntry DEF IInv, TypeOK
<1>3. pc[w] = "bury" /\ pc'[w] = "settle"
      /\ \A v \in Workers : v # w => pc'[v] = pc[v]
  BY DEF IInv, TypeOK
<1>4. Live(c) /\ \A i \in Positions : Live(i)' => Live(i) /\ i # c
  BY <1>1, <1>3 DEF IInv, TypeOK, OneHandEach, Live, Held, Undecided
<1>5. \A i \in Positions : stream[i].job = stream[c].job => ~Live(i)'
  <2> SUFFICES ASSUME NEW i \in Positions, stream[i].job = stream[c].job, Live(i)'
               PROVE  FALSE
    OBVIOUS
  <2>1. Live(i) /\ i # c
    BY <1>4
  <2> QED BY <1>1, <1>4, <2>1 DEF IInv, LiveIsLast, Superseded, Positions
<1>6. ~Buried(stream[c].job)
  BY <1>1, <1>4 DEF IInv, BurialIsFinal, Buried, Copies
<1>7. /\ \A j : Buried(j) => Buried(j)'
      /\ Buried(stream[c].job)'
  BY <1>2 DEF Buried
<1>8. BurialIsFinal'
  <2> SUFFICES ASSUME NEW k \in 1..(n + 1)
               PROVE  /\ dlq'[k].attempt = MaxAttempts
                      /\ \A l \in 1..(n + 1) : dlq'[l].job = dlq'[k].job => l = k
                      /\ \A i \in Positions : stream[i].job = dlq'[k].job => ~Live(i)'
    BY <1>2 DEF BurialIsFinal, Copies, Positions
  <2>1. CASE k \in 1..n
    <3>1. dlq'[k] = dlq[k] /\ dlq[k].job # stream[c].job
      BY <1>2, <1>6, <2>1 DEF Buried
    <3> QED BY <1>2, <1>4, <2>1, <3>1 DEF IInv, BurialIsFinal, Copies
  <2>2. CASE k = n + 1
    <3>1. \A l \in 1..n : dlq'[l].job # stream[c].job
      BY <1>2, <1>6 DEF Buried
    <3> QED BY <1>1, <1>2, <1>5, <2>2, <3>1
  <2> QED BY <1>2, <2>1, <2>2
<1>9. BuriedWasSent'
  BY <1>1, <1>2 DEF IInv, BuriedWasSent, Positions
<1>10. LiveIsLast' /\ AttemptsAscend' /\ SentOnce'
  BY <1>4 DEF IInv, LiveIsLast, AttemptsAscend, SentOnce, Superseded, Positions
<1>11. TypeOK'
  BY <1>2 DEF IInv, TypeOK, Working
<1>12. HandsOK' /\ GroupOK' /\ NoThrottleLeak' /\ OneHandEach' /\ BranchOK'
  BY <1>3 DEF IInv, TypeOK, HandsOK, GroupOK, NoThrottleLeak, OneHandEach, BranchOK, Working
<1>13. HandKept'
  <2> SUFFICES ASSUME NEW v \in Workers
               PROVE  /\ pc'[v] \in Working => cur[v] \in pel \cup finished
                      /\ pc'[v] = "ack" => cur[v] \in finished
                      /\ pc'[v] = "settle" => Superseded(cur[v])
                                              \/ Buried(stream[cur[v]].job)'
    BY DEF HandKept, Superseded, Buried, Positions
  <2>1. CASE v = w
    BY <1>3, <1>7, <2>1 DEF IInv, HandKept, Working
  <2>2. CASE v # w
    BY <1>3, <1>2, <2>2 DEF IInv, HandKept, Buried
  <2> QED BY <2>1, <2>2
<1>14. EntryKept'
  BY <1>2 DEF IInv, EntryKept, Superseded, Buried, Positions
<1> QED BY <1>8, <1>9, <1>10, <1>11, <1>12, <1>13, <1>14 DEF IInv

----------------------------------------------------------------------------
(* Theorems *)

LEMMA InitIInv == Init => IInv
<1> SUFFICES ASSUME Init PROVE IInv
  OBVIOUS
<1>1. TypeOK
  <2>1. << >> \in Seq(Entry) /\ Len(<< >>) = 0
    OBVIOUS
  <2>2. api \in [ApiJobs -> ApiStates] /\ cron \subseteq CronJobs
    BY DEF Init, ApiStates
  <2>3. /\ delivered \in 0..Len(stream) /\ stream \in Seq(Entry) /\ dlq \in Seq(Entry)
        /\ delivered = 0 /\ grouped \in BOOLEAN
    <3>1. stream = << >> /\ dlq = << >> /\ delivered = 0 /\ grouped = FALSE
      BY DEF Init
    <3>2. Len(stream) = 0
      BY <2>1, <3>1, Zenon
    <3>3. stream \in Seq(Entry) /\ dlq \in Seq(Entry)
      BY <2>1, <3>1, Zenon
    <3>4. delivered \in 0..Len(stream)
      <4>1. 0 \in 0..0
        OBVIOUS
      <4> QED BY <3>1, <3>2, <4>1, Zenon
    <3>5. grouped \in BOOLEAN
      BY <3>1
    <3> QED BY <3>1, <3>3, <3>4, <3>5, Zenon
  <2>4. /\ pel \subseteq 1..delivered /\ finished \subseteq 1..delivered
        /\ pc \in [Workers -> {"down", "idle"} \cup Working]
    BY DEF Init
  <2>5. /\ cur \in [Workers -> 0..delivered]
        /\ active \in [Workers -> 0..MaxConcurrent] /\ faults \in 0..MaxFaults
    BY <2>3, JobQueueAssumption DEF Init
  <2> QED BY <2>2, <2>3, <2>4, <2>5 DEF TypeOK
<1>2. HandsOK /\ GroupOK /\ NoThrottleLeak /\ OneHandEach /\ BranchOK /\ HandKept
  BY DEF Init, HandsOK, GroupOK, NoThrottleLeak, OneHandEach, BranchOK, HandKept, Working
<1>3. LiveIsLast /\ AttemptsAscend /\ SentOnce /\ BuriedWasSent /\ BurialIsFinal /\ EntryKept
  BY DEF Init, LiveIsLast, AttemptsAscend, SentOnce, BuriedWasSent, BurialIsFinal,
         EntryKept, Positions
<1> QED BY <1>1, <1>2, <1>3 DEF IInv

LEMMA StepIInv == IInv /\ [Next]_vars => IInv'
<1> SUFFICES ASSUME IInv, [Next]_vars PROVE IInv'
  OBVIOUS
<1>1. CASE Producer
  BY <1>1, ProducersKeep
<1>2. ASSUME NEW w \in Workers, WorkerStep(w) \/ AckFails(w) \/ Crash(w)
      PROVE  IInv'
  BY <1>2, StartKeeps, ReadKeeps, ReturnsKeeps, ThrowsKeeps, AckKeeps, AckFailsKeeps,
     RequeueKeeps, MoveToDlqKeeps, SettleKeeps, CrashKeeps DEF WorkerStep
<1>3. CASE UNCHANGED vars
  <2>1. \A i \in Positions : Live(i)' => Live(i)
    BY <1>3 DEF vars, Live, Held
  <2>2. LiveIsLast' /\ AttemptsAscend' /\ BuriedWasSent' /\ BurialIsFinal'
    BY <1>3, <2>1, SameStreams DEF vars
  <2>3. TypeOK'
    BY <1>3 DEF vars, IInv, TypeOK
  <2>4. HandsOK' /\ GroupOK' /\ NoThrottleLeak' /\ OneHandEach' /\ BranchOK'
    BY <1>3 DEF vars, IInv, HandsOK, GroupOK, NoThrottleLeak, OneHandEach, BranchOK
  <2>5. HandKept' /\ EntryKept' /\ SentOnce'
    BY <1>3 DEF vars, IInv, HandKept, EntryKept, SentOnce, Superseded, Buried, Positions
  <2> QED BY <2>2, <2>3, <2>4, <2>5 DEF IInv
<1> QED BY <1>1, <1>2, <1>3 DEF Next

THEOREM Invariance == Spec => []IInv
BY InitIInv, StepIInv, PTL DEF Spec

\* Every variable keeps its type: attempts stay within the retry limit, the
\* group never reads past the stream, and a worker holds a delivered entry.
THEOREM TypeCorrect == Spec => []TypeOK
<1>1. IInv => TypeOK
  BY DEF IInv
<1> QED BY <1>1, Invariance, PTL

\* At most one copy of a job waits or is in work, whatever crashes and failed
\* acknowledgements do.
THEOREM AtMostOneLiveCopy == Spec => []OneLiveCopy
<1>1. IInv => OneLiveCopy
  <2> SUFFICES ASSUME IInv, NEW i \in Positions, NEW k \in Positions,
                      stream[i].job = stream[k].job, Live(i), Live(k)
               PROVE  i = k
    BY DEF OneLiveCopy, IInv, OneHandEach
  <2>1. ~(k > i) /\ ~(i > k)
    BY DEF IInv, LiveIsLast, Superseded
  <2> QED BY <2>1 DEF IInv, TypeOK, Positions
<1> QED BY <1>1, Invariance, PTL

\* The attempt numbers of the copies of a job increase, so that a job is
\* executed at most MaxAttempts times.
THEOREM BoundedAttempts == Spec => []AttemptsAscend
<1>1. IInv => AttemptsAscend
  BY DEF IInv
<1> QED BY <1>1, Invariance, PTL

\* A buried job used up its attempts and never runs again.
THEOREM FinalBurial == Spec => []BurialIsFinal
<1>1. IInv => BurialIsFinal
  BY DEF IInv
<1> QED BY <1>1, Invariance, PTL

\* No entry of the stream is lost without a trace, whenever workers crash.
THEOREM EveryEntryAccounted == Spec => []NothingVanishes
<1>1. IInv => NothingVanishes
  <2> SUFFICES ASSUME IInv, NEW i \in Positions, ~Live(i), i \notin finished,
                      ~Superseded(i), ~Buried(stream[i].job)
               PROVE  Abandoned(i)
    BY DEF NothingVanishes
  <2>1. i \in 1..delivered
    BY DEF IInv, TypeOK, Live, Positions
  <2>2. i \in pel
    BY <2>1 DEF IInv, EntryKept
  <2>3. ASSUME NEW w \in Workers, cur[w] = i
        PROVE  FALSE
    <3>1. pc[w] \in Working
      BY <2>1, <2>3 DEF IInv, HandsOK
    <3>2. pc[w] = "settle"
      BY <2>3, <3>1 DEF Live, Held, Working, Undecided
    <3> QED BY <2>3, <3>2 DEF IInv, HandKept
  <2> QED BY <2>2, <2>3 DEF Abandoned
<1> QED BY <1>1, Invariance, PTL

----------------------------------------------------------------------------
(* The last copy of a job, and where the job is *)

\* i is the last copy of j.
IsLast(i, j) == i \in Copies(j) /\ \A k \in Copies(j) : k <= i

\* Some number of a set of numbers up to n is the greatest.
LEMMA GreatestExists ==
    ASSUME NEW n \in Nat, NEW S \in SUBSET (1..n), S # {}
    PROVE  \E i \in S : \A k \in S : k <= i
  <1>. DEFINE T == {n - i : i \in S}
  <1>1. T \subseteq Nat /\ T # {}
    <2>1. \A i \in S : i \in Nat /\ n - i \in Nat
      OBVIOUS
    <2>. QED
      BY <2>1
  <1>2. IsWellFoundedOn(OpToRel(<, Nat), Nat)
    BY NatLessThanWellFounded
  <1>3. PICK x \in T : \A y \in T : ~ (<<y, x>> \in OpToRel(<, Nat))
    BY <1>1, <1>2, WFMin
  <1>4. \A y \in T : ~ (y < x)
    BY <1>1, <1>3 DEF OpToRel
  <1>5. PICK i \in S : x = n - i
    OBVIOUS
  <1>6. \A k \in S : n - k \in T
    OBVIOUS
  <1>. HIDE DEF T
  <1>7. \A k \in S : ~ (n - k < n - i)
    BY <1>4, <1>5, <1>6
  <1>. QED
    BY <1>7

LEMMA LastIs ==
    ASSUME TypeOK, NEW j, NEW i, IsLast(i, j)
    PROVE  LastCopy(j) = i /\ Copies(j) # {} /\ i \in Positions /\ i \in Nat /\ stream[i].job = j
  <1>1. \A k \in Copies(j) : k \in Nat
    BY DEF Copies, Positions, TypeOK
  <1>2. \A k \in Copies(j) : (\A l \in Copies(j) : l <= k) => k = i
    BY <1>1 DEF IsLast
  <1>. QED
    BY <1>1, <1>2 DEF LastCopy, IsLast, Copies

LEMMA LastExists ==
    ASSUME TypeOK, NEW j, Copies(j) # {}
    PROVE  \E i \in Positions : IsLast(i, j)
  <1>1. Len(stream) \in Nat /\ Copies(j) \in SUBSET (1..Len(stream))
    BY DEF TypeOK, Copies, Positions
  <1>. QED
    BY <1>1, GreatestExists DEF IsLast, Copies

\* A live entry is the last copy of its job.
LEMMA LiveLast ==
    ASSUME IInv, NEW i \in Positions, Live(i)
    PROVE  IsLast(i, stream[i].job)
  <1>1. \A k \in Copies(stream[i].job) : ~ (k > i)
    BY DEF IInv, LiveIsLast, Superseded, Copies
  <1>. QED
    BY <1>1 DEF IsLast, Copies, IInv, TypeOK, Positions

\* The cases of PhaseOf by the last copy.
LEMMA PhaseIs ==
    ASSUME IInv, NEW j, NEW i, IsLast(i, j)
    PROVE  /\ i > delivered => PhaseOf(j) = "queued"
           /\ Held(i) => PhaseOf(j) = "running"
           /\ i <= delivered /\ ~Held(i) /\ Buried(j) => PhaseOf(j) = "dead"
           /\ i <= delivered /\ ~Held(i) /\ ~Buried(j) /\ i \in finished => PhaseOf(j) = "done"
           /\ i <= delivered /\ ~Held(i) /\ ~Buried(j) /\ i \notin finished => PhaseOf(j) = "lost"
           /\ TriesOf(j) = stream[i].attempt
  <1>1. LastCopy(j) = i /\ Copies(j) # {} /\ i \in Nat /\ delivered \in Nat
    BY LastIs DEF IInv, TypeOK
  <1>2. Held(i) => i <= delivered
    BY <1>1 DEF Held, IInv, TypeOK
  <1>3. PhaseOf(j) = CASE i > delivered -> "queued"
                       [] i <= delivered /\ Held(i) -> "running"
                       [] i <= delivered /\ ~Held(i) /\ Buried(j) -> "dead"
                       [] i <= delivered /\ ~Held(i) /\ ~Buried(j) /\ i \in finished -> "done"
                       [] OTHER -> "lost"
    BY <1>1 DEF PhaseOf
  <1>4. ~ (i > delivered) <=> i <= delivered
    BY <1>1
  <1>5. TriesOf(j) = stream[i].attempt
    BY <1>1 DEF TriesOf
  <1>6. i > delivered => PhaseOf(j) = "queued"
    BY <1>3, <1>4
  <1>7. Held(i) => PhaseOf(j) = "running"
    BY <1>2, <1>3, <1>4
  <1>8. i <= delivered /\ ~Held(i) /\ Buried(j) => PhaseOf(j) = "dead"
    BY <1>3, <1>4
  <1>9. i <= delivered /\ ~Held(i) /\ ~Buried(j) /\ i \in finished => PhaseOf(j) = "done"
    BY <1>3, <1>4
  <1>10. i <= delivered /\ ~Held(i) /\ ~Buried(j) /\ i \notin finished => PhaseOf(j) = "lost"
    BY <1>3, <1>4
  <1>. QED
    BY <1>5, <1>6, <1>7, <1>8, <1>9, <1>10

\* The same before and after a step.
Table ==
    /\ delivered \in Nat
    /\ \A j \in Jobs : Copies(j) # {} => \E i \in Positions : IsLast(i, j)
    /\ \A j \in Jobs : Copies(j) = {} => PhaseOf(j) = "new" /\ TriesOf(j) = 0
    /\ \A j \in Jobs, i \in Positions :
          IsLast(i, j) =>
              /\ i > delivered => PhaseOf(j) = "queued"
              /\ Held(i) => PhaseOf(j) = "running" /\ i <= delivered
              /\ i <= delivered /\ ~Held(i) /\ Buried(j) => PhaseOf(j) = "dead"
              /\ i <= delivered /\ ~Held(i) /\ ~Buried(j) /\ i \in finished => PhaseOf(j) = "done"
              /\ i <= delivered /\ ~Held(i) /\ ~Buried(j) /\ i \notin finished => PhaseOf(j) = "lost"
              /\ TriesOf(j) = stream[i].attempt

LEMMA TableHolds == IInv => Table
  <1>. SUFFICES ASSUME IInv PROVE Table
    OBVIOUS
  <1>1. delivered \in Nat
    BY DEF IInv, TypeOK
  <1>2. \A j \in Jobs : Copies(j) # {} => \E i \in Positions : IsLast(i, j)
    BY LastExists DEF IInv
  <1>3. \A j \in Jobs : Copies(j) = {} => PhaseOf(j) = "new" /\ TriesOf(j) = 0
    BY DEF PhaseOf, TriesOf
  <1>4. \A i : Held(i) => i <= delivered
    BY <1>1 DEF Held, IInv, TypeOK
  <1>. QED
    BY <1>1, <1>2, <1>3, <1>4, PhaseIs DEF Table

LEMMA TableAfter == IInv' => Table'
  BY TableHolds, PTL

----------------------------------------------------------------------------
(* What a step leaves where it is *)

\* A job whose last copy stays what it is stays in its phase.
LEMMA Stays ==
    ASSUME IInv, IInv', NEW j \in Jobs, Copies(j)' = Copies(j),
           \A i \in Copies(j) :
               /\ stream'[i] = stream[i]
               /\ i > delivered' <=> i > delivered
               /\ Held(i)' <=> Held(i)
               /\ Held(i) \/ (i \in finished' <=> i \in finished),
           Buried(j)' <=> Buried(j)
    PROVE  PhaseOf(j)' = PhaseOf(j) /\ TriesOf(j)' = TriesOf(j)
  <1>1. Table /\ Table'
    BY TableHolds, TableAfter
  <1>2. CASE Copies(j) = {}
    BY <1>1, <1>2 DEF Table
  <1>3. CASE Copies(j) # {}
    <2>1. PICK i \in Positions : IsLast(i, j)
      BY <1>1, <1>3 DEF Table
    <2>2. IsLast(i, j)' /\ i \in Positions' /\ i \in Copies(j)
      BY <2>1 DEF IsLast, Copies
    <2>3. i \in Nat /\ delivered \in Nat /\ delivered' \in Nat
      BY <1>1, <2>1 DEF Table, Positions
    <2>4. TriesOf(j)' = TriesOf(j)
      BY <1>1, <2>1, <2>2 DEF Table
    <2>5. i <= delivered' <=> i <= delivered
      BY <2>2, <2>3
    <2>6. PhaseOf(j)' = PhaseOf(j)
      <3>1. CASE i > delivered
        BY <1>1, <2>1, <2>2, <3>1 DEF Table
      <3>2. CASE Held(i)
        BY <1>1, <2>1, <2>2, <3>2 DEF Table
      <3>3. CASE i <= delivered /\ ~Held(i) /\ Buried(j)
        BY <1>1, <2>1, <2>2, <2>5, <3>3 DEF Table
      <3>4. CASE i <= delivered /\ ~Held(i) /\ ~Buried(j) /\ i \in finished
        BY <1>1, <2>1, <2>2, <2>5, <3>4 DEF Table
      <3>5. CASE i <= delivered /\ ~Held(i) /\ ~Buried(j) /\ i \notin finished
        BY <1>1, <2>1, <2>2, <2>5, <3>5 DEF Table
      <3>. QED
        BY <2>3, <3>1, <3>2, <3>3, <3>4, <3>5
    <2>. QED
      BY <2>4, <2>6
  <1>. QED
    BY <1>2, <1>3

\* Which entries are held when one worker moves.
LEMMA HeldSame ==
    ASSUME NEW w \in Workers, \A v \in Workers \ {w} : cur'[v] = cur[v] /\ pc'[v] = pc[v],
           \/ pc[w] \in Undecided /\ pc'[w] \in Undecided /\ cur'[w] = cur[w]
           \/ pc[w] \notin Undecided /\ pc'[w] \notin Undecided
    PROVE  \A i : Held(i)' <=> Held(i)
  BY DEF Held

\* The entry that a worker has in hand is the last copy of its job.
LEMMA InHandLast ==
    ASSUME IInv, NEW w \in Workers, pc[w] \in Undecided
    PROVE  /\ cur[w] \in Positions /\ cur[w] <= delivered /\ Held(cur[w])
           /\ stream[cur[w]].job \in Jobs /\ IsLast(cur[w], stream[cur[w]].job)
           /\ ~Buried(stream[cur[w]].job)
  <1>1. cur[w] # 0 /\ cur[w] \in 0..delivered /\ delivered \in 0..Len(stream)
    BY DEF IInv, TypeOK, HandsOK, Working, Undecided
  <1>2. cur[w] \in Positions /\ cur[w] <= delivered
    BY <1>1 DEF IInv, TypeOK, Positions
  <1>3. Held(cur[w]) /\ Live(cur[w])
    BY DEF Held, Live
  <1>4. stream[cur[w]].job \in Jobs
    <2>1. stream[cur[w]] \in Entry
      BY <1>2 DEF IInv, TypeOK, Positions
    <2>. QED
      BY <2>1 DEF Entry
  <1>5. ~Buried(stream[cur[w]].job)
    BY <1>2, <1>3 DEF IInv, BurialIsFinal, Buried, Copies
  <1>. QED
    BY <1>2, <1>3, <1>4, <1>5, LiveLast

LEMMA HandOpens ==
    ASSUME IInv, NEW w \in Workers, \A v \in Workers \ {w} : cur'[v] = cur[v] /\ pc'[v] = pc[v],
           pc[w] \in Undecided, pc'[w] \notin Undecided
    PROVE  \A i : Held(i)' <=> Held(i) /\ i # cur[w]
  <1>1. cur[w] # 0
    BY DEF IInv, HandsOK, Working, Undecided
  <1>2. \A v \in Workers : cur[v] = cur[w] => v = w
    BY <1>1 DEF IInv, OneHandEach
  <1>. QED
    BY <1>2 DEF Held

\* A step of the contract for one job.
LEMMA Moves ==
    ASSUME NEW j \in Jobs, NEW a, NEW b, PhaseOf(j) = a, PhaseOf(j)' = b,
           \A k \in Jobs \ {j} : PhaseOf(k)' = PhaseOf(k)
    PROVE  Delivery!Move(j, a, b)
  <1>. DEFINE P == [k \in Jobs |-> PhaseOf(k)]
  <1>1. P[j] = a
    OBVIOUS
  <1>2. P' = [k \in Jobs |-> PhaseOf(k)']
    OBVIOUS
  <1>3. P' = [P EXCEPT ![j] = b]
    BY <1>2
  <1>. QED
    BY <1>1, <1>3 DEF Delivery!Move

LEMMA TriesKept ==
    ASSUME \A k \in Jobs : TriesOf(k)' = TriesOf(k)
    PROVE  [k \in Jobs |-> TriesOf(k)]' = [k \in Jobs |-> TriesOf(k)]
  OBVIOUS

\* No step of the contract.
LEMMA Stutters ==
    ASSUME \A k \in Jobs : PhaseOf(k)' = PhaseOf(k) /\ TriesOf(k)' = TriesOf(k)
    PROVE  UNCHANGED Delivery!deliveryVars
  BY DEF Delivery!deliveryVars

----------------------------------------------------------------------------
(* The steps *)

Simulated == [Delivery!DeliveryNext]_(Delivery!deliveryVars)

\* The streams stay, and so do the hands.
LEMMA Quiet ==
    ASSUME IInv, IInv', UNCHANGED <<stream, dlq, delivered>>, \A i : Held(i)' <=> Held(i),
           \A i \in Positions : Held(i) \/ (i \in finished' <=> i \in finished)
    PROVE  Simulated
  <1>. SUFFICES ASSUME NEW j \in Jobs
                PROVE  PhaseOf(j)' = PhaseOf(j) /\ TriesOf(j)' = TriesOf(j)
    BY Stutters DEF Simulated
  <1>1. Copies(j)' = Copies(j) /\ Copies(j) \subseteq Positions
    BY DEF Copies, Positions
  <1>2. Buried(j)' <=> Buried(j)
    BY DEF Buried
  <1>. QED
    BY <1>1, <1>2, Stays

\* An entry is added: the other jobs stay where they are.
LEMMA Grown ==
    ASSUME IInv, IInv', NEW e \in Entry, stream' = Append(stream, e),
           UNCHANGED <<dlq, delivered, finished>>,
           \A i \in Positions : Held(i)' <=> Held(i) /\ stream[i].job # e.job
    PROVE  /\ \A k \in Jobs \ {e.job} : PhaseOf(k)' = PhaseOf(k) /\ TriesOf(k)' = TriesOf(k)
           /\ PhaseOf(e.job)' = "queued" /\ TriesOf(e.job)' = e.attempt
  <1>. DEFINE n == Len(stream)
  <1>1. /\ n \in Nat /\ delivered \in 0..n /\ Len(stream') = n + 1
        /\ \A i \in 1..n : stream'[i] = stream[i]
        /\ stream'[n + 1] = e
    BY AppendEntry DEF IInv, TypeOK
  <1>2. ASSUME NEW k \in Jobs \ {e.job}
        PROVE  PhaseOf(k)' = PhaseOf(k) /\ TriesOf(k)' = TriesOf(k)
    <2>1. Copies(k)' = Copies(k) /\ Copies(k) \subseteq Positions
      BY <1>1, <1>2 DEF Copies, Positions
    <2>2. Buried(k)' <=> Buried(k)
      BY DEF Buried
    <2>3. \A i \in Copies(k) : stream'[i] = stream[i] /\ (Held(i)' <=> Held(i))
      BY <1>1, <1>2, <2>1 DEF Copies, Positions
    <2>. QED
      BY <2>1, <2>2, <2>3, Stays
  <1>3. PICK m \in Nat : m = n + 1
    BY <1>1
  <1>4. IsLast(m, e.job)' /\ m \in Positions' /\ m > delivered' /\ stream'[m] = e
    BY <1>1, <1>3 DEF IsLast, Copies, Positions
  <1>5. e.job \in Jobs
    BY DEF Entry
  <1>6. PhaseOf(e.job)' = "queued" /\ TriesOf(e.job)' = e.attempt
    <2>1. PICK j \in Jobs : j = e.job
      BY <1>5
    <2>2. IsLast(m, j)'
      BY <1>4, <2>1 DEF IsLast, Copies
    <2>3. PhaseOf(j)' = "queued" /\ TriesOf(j)' = stream'[m].attempt
      BY <1>4, <2>2, TableAfter DEF Table
    <2>. QED
      BY <1>4, <2>1, <2>3
  <1>. QED
    BY <1>2, <1>6

\* The first copy of a job.
LEMMA Submitted ==
    ASSUME IInv, IInv', NEW j \in Jobs, Copies(j) = {}, stream' = FirstTry(j), UNCHANGED consumerVars
    PROVE  Simulated
  <1>. DEFINE e == [job |-> j, attempt |-> 1]
  <1>1. e \in Entry /\ e.job = j /\ e.attempt = 1 /\ stream' = Append(stream, e)
    BY JobQueueAssumption DEF Entry, FirstTry
  <1>. HIDE DEF e
  <1>2. UNCHANGED <<dlq, delivered, finished, pc, cur>>
    BY DEF consumerVars
  <1>3. \A i : Held(i)' <=> Held(i)
    BY <1>2 DEF Held
  <1>4. \A i \in Positions : stream[i].job # j
    BY DEF Copies
  <1>5. /\ \A k \in Jobs \ {j} : PhaseOf(k)' = PhaseOf(k) /\ TriesOf(k)' = TriesOf(k)
        /\ PhaseOf(j)' = "queued" /\ TriesOf(j)' = 1
    BY <1>1, <1>2, <1>3, <1>4, Grown
  <1>6. PhaseOf(j) = "new" /\ TriesOf(j) = 0
    BY TableHolds DEF Table
  <1>7. Delivery!Move(j, "new", "queued")
    BY <1>5, <1>6, Moves
  <1>8. [k \in Jobs |-> TriesOf(k)]' = [[k \in Jobs |-> TriesOf(k)] EXCEPT ![j] = 1]
    BY <1>5
  <1>9. Delivery!Submit(j)
    BY <1>7, <1>8 DEF Delivery!Submit
  <1>. QED
    BY <1>9 DEF Simulated, Delivery!DeliveryNext

LEMMA ProducerSim ==
    ASSUME IInv, IInv', Producer
    PROVE  Simulated
  <1>1. CASE \E j \in ApiJobs : CreateRun(j)
    <2>1. UNCHANGED <<stream, dlq, delivered, finished, cur, pc>>
      BY <1>1 DEF CreateRun, consumerVars
    <2>. QED
      BY <2>1, Quiet DEF Held
  <1>2. ASSUME NEW j \in ApiJobs, EnqueueRun(j) \/ EnqueueFails(j)
        PROVE  Simulated
    <2>1. j \in Jobs /\ api[j] = "created" /\ UNCHANGED consumerVars /\ stream' \in {stream, FirstTry(j)}
      BY <1>2 DEF Jobs, EnqueueRun, EnqueueFails
    <2>2. CASE stream' = FirstTry(j)
      <3>1. Copies(j) = {}
        BY <1>2, <2>1 DEF IInv, SentOnce, Copies
      <3>. QED
        BY <2>1, <2>2, <3>1, Submitted
    <2>3. CASE stream' = stream
      <3>1. UNCHANGED <<dlq, delivered, finished, cur, pc>>
        BY <2>1 DEF consumerVars
      <3>. QED
        BY <2>3, <3>1, Quiet DEF Held
    <2>. QED
      BY <2>1, <2>2, <2>3
  <1>3. ASSUME NEW j \in CronJobs, CronEnqueue(j)
        PROVE  Simulated
    <2>1. j \in Jobs /\ j \notin cron /\ UNCHANGED consumerVars /\ stream' = FirstTry(j)
      BY <1>3 DEF Jobs, CronEnqueue
    <2>2. Copies(j) = {}
      BY <1>3, <2>1 DEF IInv, SentOnce, Copies
    <2>. QED
      BY <2>1, <2>2, Submitted
  <1>. QED
    BY <1>1, <1>2, <1>3 DEF Producer

\* Steps between commands: the entry in hand stays in hand, or there is none.
LEMMA QuietSim ==
    ASSUME IInv, IInv', NEW w \in Workers,
           StartWorker(w) \/ JobReturns(w) \/ JobThrows(w) \/ AckFails(w) \/ Settle(w)
               \/ (Crash(w) /\ pc[w] \notin Undecided)
    PROVE  Simulated
  <1>1. /\ pc \in [Workers -> {"down", "idle"} \cup Working]
        /\ cur \in [Workers -> 0..delivered] /\ delivered \in 0..Len(stream)
    BY DEF IInv, TypeOK
  <1>2. UNCHANGED <<stream, dlq>> /\ \A v \in Workers \ {w} : cur'[v] = cur[v] /\ pc'[v] = pc[v]
    BY <1>1 DEF StartWorker, JobReturns, JobThrows, AckFails, Settle, Crash, Release
  <1>3. delivered' = delivered
    BY DEF StartWorker, JobReturns, JobThrows, AckFails, Settle, Crash, Release, IInv, GroupOK
  <1>4. \/ pc[w] \in Undecided /\ pc'[w] \in Undecided /\ cur'[w] = cur[w]
        \/ pc[w] \notin Undecided /\ pc'[w] \notin Undecided
    BY <1>1 DEF StartWorker, JobReturns, JobThrows, AckFails, Settle, Crash, Release, Caught, Undecided
  <1>5. \A i : Held(i)' <=> Held(i)
    BY <1>2, <1>4, HeldSame
  <1>6. \A i \in Positions : Held(i) \/ (i \in finished' <=> i \in finished)
    <2>1. CASE JobReturns(w)
      BY <2>1 DEF JobReturns, Held, Undecided
    <2>2. CASE ~JobReturns(w)
      BY <2>2 DEF StartWorker, JobThrows, AckFails, Settle, Crash, Release
    <2>. QED
      BY <2>1, <2>2
  <1>. QED
    BY <1>2, <1>3, <1>5, <1>6, Quiet

\* The next entry that waits is the last copy of its job.
LEMMA ReadSim ==
    ASSUME IInv, IInv', NEW w \in Workers, Read(w)
    PROVE  Simulated
  <1>1. /\ pc \in [Workers -> {"down", "idle"} \cup Working]
        /\ cur \in [Workers -> 0..delivered] /\ delivered \in Nat /\ Len(stream) \in Nat
        /\ stream \in Seq(Entry)
    BY DEF IInv, TypeOK
  <1>2. PICK m \in Nat : m = delivered + 1
    BY <1>1
  <1>3. /\ pc[w] = "idle" /\ delivered < Len(stream) /\ delivered' = m
        /\ cur' = [cur EXCEPT ![w] = m] /\ pc' = [pc EXCEPT ![w] = "run"]
        /\ UNCHANGED <<stream, dlq, finished>>
    BY <1>2 DEF Read
  <1>4. m \in Positions /\ Live(m) /\ m > delivered
    BY <1>1, <1>2, <1>3 DEF Positions, Live
  <1>5. PICK j \in Jobs : j = stream[m].job
    <2>1. stream[m] \in Entry
      BY <1>1, <1>4 DEF Positions
    <2>. QED
      BY <2>1 DEF Entry
  <1>6. IsLast(m, j)
    BY <1>4, <1>5, LiveLast
  <1>7. IsLast(m, j)' /\ m \in Positions'
    BY <1>3, <1>4, <1>6 DEF IsLast, Copies, Positions
  <1>8. \A i : Held(i)' <=> Held(i) \/ i = m
    BY <1>1, <1>3 DEF Held, Undecided
  <1>9. PhaseOf(j) = "queued" /\ PhaseOf(j)' = "running" /\ TriesOf(j)' = TriesOf(j)
    BY <1>3, <1>4, <1>6, <1>7, <1>8, TableHolds, TableAfter DEF Table
  <1>10. ASSUME NEW k \in Jobs \ {j}
         PROVE  PhaseOf(k)' = PhaseOf(k) /\ TriesOf(k)' = TriesOf(k)
    <2>1. Copies(k)' = Copies(k) /\ Copies(k) \subseteq Positions /\ m \notin Copies(k)
      BY <1>3, <1>5, <1>10 DEF Copies, Positions
    <2>2. Buried(k)' <=> Buried(k)
      BY <1>3 DEF Buried
    <2>3. \A i \in Copies(k) : i \in Nat /\ i # m
      BY <2>1 DEF Positions
    <2>. QED
      BY <1>1, <1>2, <1>3, <1>8, <2>1, <2>2, <2>3, Stays
  <1>11. Delivery!Take(j)
    <2>1. Delivery!Move(j, "queued", "running")
      BY <1>9, <1>10, Moves
    <2>2. [k \in Jobs |-> TriesOf(k)]' = [k \in Jobs |-> TriesOf(k)]
      BY <1>9, <1>10, TriesKept
    <2>. QED
      BY <2>1, <2>2 DEF Delivery!Take
  <1>. QED
    BY <1>11 DEF Simulated, Delivery!DeliveryNext

\* The entry in hand is decided, and no entry is added to the stream.
LEMMA Decided ==
    ASSUME IInv, IInv', NEW w \in Workers, pc[w] \in Undecided, pc'[w] \notin Undecided,
           \A v \in Workers \ {w} : cur'[v] = cur[v] /\ pc'[v] = pc[v],
           UNCHANGED <<stream, delivered, finished>>,
           NEW j \in Jobs, j = stream[cur[w]].job,
           \A k \in Jobs \ {j} : Buried(k)' <=> Buried(k)
    PROVE  /\ PhaseOf(j) = "running" /\ \A k \in Jobs \ {j} : PhaseOf(k)' = PhaseOf(k)
           /\ \A k \in Jobs : TriesOf(k)' = TriesOf(k)
           /\ TriesOf(j) = stream[cur[w]].attempt
           /\ Buried(j)' => PhaseOf(j)' = "dead"
           /\ ~Buried(j)' /\ cur[w] \in finished => PhaseOf(j)' = "done"
           /\ ~Buried(j)' /\ cur[w] \notin finished => PhaseOf(j)' = "lost"
  <1>1. /\ cur[w] \in Positions /\ cur[w] <= delivered /\ Held(cur[w]) /\ IsLast(cur[w], j)
    BY InHandLast
  <1>2. PICK m \in Positions : m = cur[w]
    BY <1>1
  <1>3. IsLast(m, j) /\ IsLast(m, j)' /\ m \in Positions' /\ m <= delivered' /\ Held(m)
    BY <1>1, <1>2 DEF IsLast, Copies, Positions
  <1>4. \A i : Held(i)' <=> Held(i) /\ i # m
    BY <1>2, HandOpens
  <1>5. PhaseOf(j) = "running" /\ TriesOf(j) = stream[m].attempt /\ TriesOf(j)' = stream[m].attempt
    BY <1>3, TableHolds, TableAfter DEF Table
  <1>6. ASSUME NEW k \in Jobs \ {j}
        PROVE  PhaseOf(k)' = PhaseOf(k) /\ TriesOf(k)' = TriesOf(k)
    <2>1. Copies(k)' = Copies(k) /\ m \notin Copies(k)
      BY <1>2, <1>6 DEF Copies, Positions
    <2>. QED
      BY <1>4, <1>6, <2>1, Stays
  <1>7. /\ Buried(j)' => PhaseOf(j)' = "dead"
        /\ ~Buried(j)' /\ m \in finished => PhaseOf(j)' = "done"
        /\ ~Buried(j)' /\ m \notin finished => PhaseOf(j)' = "lost"
    BY <1>3, <1>4, TableAfter DEF Table
  <1>. QED
    BY <1>2, <1>5, <1>6, <1>7

\* The acknowledgement of a job that returned; a crash with an entry in hand.
LEMMA EndSim ==
    ASSUME IInv, IInv', NEW w \in Workers, Ack(w) \/ (Crash(w) /\ pc[w] \in Undecided)
    PROVE  Simulated
  <1>1. /\ pc \in [Workers -> {"down", "idle"} \cup Working]
        /\ cur \in [Workers -> 0..delivered]
    BY DEF IInv, TypeOK
  <1>2. /\ pc[w] \in Undecided /\ pc'[w] \notin Undecided
        /\ \A v \in Workers \ {w} : cur'[v] = cur[v] /\ pc'[v] = pc[v]
        /\ UNCHANGED <<stream, dlq, delivered, finished>>
        /\ pc[w] = "ack" \/ Crash(w)
    BY <1>1 DEF Ack, Crash, Release, Undecided
  <1>3. PICK j \in Jobs : j = stream[cur[w]].job /\ ~Buried(j)
    BY <1>2, InHandLast
  <1>4. \A k : Buried(k)' <=> Buried(k)
    BY <1>2 DEF Buried
  <1>5. /\ PhaseOf(j) = "running" /\ \A k \in Jobs \ {j} : PhaseOf(k)' = PhaseOf(k)
        /\ \A k \in Jobs : TriesOf(k)' = TriesOf(k)
        /\ PhaseOf(j)' \in {"done", "lost"}
    BY <1>2, <1>3, <1>4, Decided
  <1>6. [k \in Jobs |-> TriesOf(k)]' = [k \in Jobs |-> TriesOf(k)]
    BY <1>5, TriesKept
  <1>7. CASE PhaseOf(j)' = "done"
    <2>1. Delivery!Finish(j)
      BY <1>5, <1>6, <1>7, Moves DEF Delivery!Finish
    <2>. QED
      BY <2>1 DEF Simulated, Delivery!DeliveryNext
  <1>8. CASE PhaseOf(j)' = "lost"
    <2>1. Delivery!Lose(j)
      BY <1>5, <1>6, <1>8, Moves DEF Delivery!Lose
    <2>. QED
      BY <2>1 DEF Simulated, Delivery!DeliveryNext
  <1>. QED
    BY <1>5, <1>7, <1>8

LEMMA MoveToDlqSim ==
    ASSUME IInv, IInv', NEW w \in Workers, MoveToDlq(w)
    PROVE  Simulated
  <1>1. /\ pc \in [Workers -> {"down", "idle"} \cup Working]
        /\ stream \in Seq(Entry) /\ dlq \in Seq(Entry)
    BY DEF IInv, TypeOK
  <1>2. /\ pc[w] = "bury" /\ pc[w] \in Undecided /\ pc'[w] \notin Undecided
        /\ \A v \in Workers \ {w} : cur'[v] = cur[v] /\ pc'[v] = pc[v]
        /\ UNCHANGED <<stream, delivered, finished>>
        /\ dlq' = Append(dlq, stream[cur[w]])
    BY <1>1 DEF MoveToDlq, Undecided
  <1>3. PICK j \in Jobs : j = stream[cur[w]].job
    BY <1>2, InHandLast
  <1>4. PICK e \in Entry : e = stream[cur[w]]
    BY <1>1, <1>2, InHandLast DEF Positions
  <1>5. /\ Len(dlq') = Len(dlq) + 1 /\ Len(dlq) \in Nat
        /\ \A i \in 1..Len(dlq) : dlq'[i] = dlq[i]
        /\ dlq'[Len(dlq) + 1] = e
    BY <1>1, <1>2, <1>4, AppendEntry
  <1>6. Buried(j)' /\ \A k \in Jobs \ {j} : Buried(k)' <=> Buried(k)
    BY <1>3, <1>4, <1>5 DEF Buried
  <1>7. /\ PhaseOf(j) = "running" /\ \A k \in Jobs \ {j} : PhaseOf(k)' = PhaseOf(k)
        /\ \A k \in Jobs : TriesOf(k)' = TriesOf(k)
        /\ TriesOf(j) = stream[cur[w]].attempt /\ PhaseOf(j)' = "dead"
    BY <1>2, <1>3, <1>6, Decided
  <1>8. TriesOf(j) = MaxAttempts
    BY <1>2, <1>7 DEF IInv, BranchOK
  <1>9. Delivery!Bury(j)
    <2>1. Delivery!Move(j, "running", "dead")
      BY <1>7, Moves
    <2>2. [k \in Jobs |-> TriesOf(k)]' = [k \in Jobs |-> TriesOf(k)]
      BY <1>7, TriesKept
    <2>. QED
      BY <1>8, <2>1, <2>2 DEF Delivery!Bury
  <1>. QED
    BY <1>9 DEF Simulated, Delivery!DeliveryNext

LEMMA RequeueSim ==
    ASSUME IInv, IInv', NEW w \in Workers, Requeue(w)
    PROVE  Simulated
  <1>1. /\ pc \in [Workers -> {"down", "idle"} \cup Working]
        /\ stream \in Seq(Entry)
    BY DEF IInv, TypeOK
  <1>2. /\ pc[w] = "backoff" /\ pc[w] \in Undecided /\ pc'[w] \notin Undecided
        /\ \A v \in Workers \ {w} : cur'[v] = cur[v] /\ pc'[v] = pc[v]
        /\ UNCHANGED <<dlq, delivered, finished>>
    BY <1>1 DEF Requeue, Undecided
  <1>3. PICK m \in Positions : m = cur[w] /\ Held(m) /\ stream[m].job \in Jobs
                               /\ IsLast(m, stream[m].job) /\ stream[m] \in Entry
    BY <1>1, <1>2, InHandLast DEF Positions
  <1>4. PICK j \in Jobs : j = stream[m].job
    BY <1>3
  <1>5. stream[m].attempt < MaxAttempts /\ stream[m].attempt \in Nat
    BY <1>2, <1>3 DEF IInv, BranchOK, Entry
  <1>6. PICK e \in Entry : /\ e = [stream[m] EXCEPT !.attempt = @ + 1]
                           /\ e.job = j /\ e.attempt = stream[m].attempt + 1
    <2>. DEFINE f == [stream[m] EXCEPT !.attempt = @ + 1]
    <2>1. stream[m] \in [job : Jobs, attempt : Nat] /\ MaxAttempts \in Nat
      BY <1>3, <1>5, JobQueueAssumption DEF Entry
    <2>2. f.job = j /\ f.attempt = stream[m].attempt + 1 /\ f \in [job : Jobs, attempt : Nat]
      BY <1>4, <2>1
    <2>. HIDE DEF f
    <2>3. f.attempt \in 1..MaxAttempts
      BY <1>5, <2>1, <2>2
    <2>4. f \in Entry
      BY <2>2, <2>3 DEF Entry
    <2>. QED
      BY <2>2, <2>4 DEF f
  <1>7. stream' = Append(stream, e)
    BY <1>3, <1>6 DEF Requeue
  <1>8. \A i : Held(i)' <=> Held(i) /\ i # m
    BY <1>2, <1>3, HandOpens
  <1>9. \A i \in Positions : Held(i) /\ stream[i].job = j => i = m
    BY <1>3, <1>4, LiveLast DEF IsLast, Copies, Live, Positions
  <1>10. \A i \in Positions : Held(i)' <=> Held(i) /\ stream[i].job # e.job
    BY <1>4, <1>6, <1>8, <1>9
  <1>11. /\ \A k \in Jobs \ {j} : PhaseOf(k)' = PhaseOf(k) /\ TriesOf(k)' = TriesOf(k)
         /\ PhaseOf(j)' = "queued" /\ TriesOf(j)' = e.attempt
    BY <1>2, <1>6, <1>7, <1>10, Grown
  <1>12. PhaseOf(j) = "running" /\ TriesOf(j) = stream[m].attempt
    BY <1>3, <1>4, TableHolds DEF Table
  <1>13. Delivery!Retry(j)
    <2>1. Delivery!Move(j, "running", "queued")
      BY <1>11, <1>12, Moves
    <2>2. [k \in Jobs |-> TriesOf(k)]' = [[k \in Jobs |-> TriesOf(k)] EXCEPT ![j] = @ + 1]
      BY <1>6, <1>11, <1>12
    <2>. QED
      BY <1>5, <1>12, <2>1, <2>2 DEF Delivery!Retry
  <1>. QED
    BY <1>13 DEF Simulated, Delivery!DeliveryNext

----------------------------------------------------------------------------
(* The theorem *)

LEMMA StepSim == IInv /\ IInv' /\ [Next]_vars => Simulated
  <1>. SUFFICES ASSUME IInv, IInv', [Next]_vars PROVE Simulated
    OBVIOUS
  <1>1. CASE Producer
    BY <1>1, ProducerSim
  <1>2. ASSUME NEW w \in Workers, WorkerStep(w) \/ AckFails(w) \/ Crash(w)
        PROVE  Simulated
    BY <1>2, QuietSim, ReadSim, EndSim, MoveToDlqSim, RequeueSim DEF WorkerStep
  <1>3. CASE UNCHANGED vars
    BY <1>3, Quiet DEF vars, Held
  <1>. QED
    BY <1>1, <1>2, <1>3 DEF Next

\* The Redis stream, its consumer group and the retry loop of IndexerConsumer keep the
\* contract of JobDelivery: one copy of a job at a time, at most MaxAttempts tries, a
\* burial after the last one only, and nothing after done, dead or lost.
THEOREM QueueDelivers == Spec => DeliveryContract
  <1>1. Init => Delivery!DeliveryInit
    <2>. SUFFICES ASSUME Init PROVE Delivery!DeliveryInit
      OBVIOUS
    <2>1. \A j : Copies(j) = {}
      BY DEF Init, Copies, Positions
    <2>2. \A j \in Jobs : PhaseOf(j) = "new" /\ TriesOf(j) = 0
      BY <2>1 DEF PhaseOf, TriesOf
    <2>. QED
      BY <2>2 DEF Delivery!DeliveryInit
  <1>2. IInv /\ IInv' /\ [Next]_vars => [Delivery!DeliveryNext]_(Delivery!deliveryVars)
    BY StepSim DEF Simulated
  <1>. QED
    BY <1>1, <1>2, Invariance, PTL DEF Spec, DeliveryContract, Delivery!DeliverySpec

==============================================================================
