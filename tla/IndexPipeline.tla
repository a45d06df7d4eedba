----------------------------- MODULE IndexPipeline -----------------------------
(***************************************************************************)
(* IndexerConsumer.processJob, await by await, for one wallet of one user: *)
(* index run, block range and cursor, reorg reconciliation, facts, score   *)
(* snapshot, badges, projection and profile status; with the API calls and *)
(* the cron that start jobs, the unlinking of the wallet, failures at      *)
(* every await and worker crashes.                                         *)
(*                                                                         *)
(* Delivery is JobDelivery, which JobQueue implements.  A transaction of   *)
(* the wallet is the block it is in; scoring is a function of the set of   *)
(* transactions it is given, so that set stands for the scoring inputs,    *)
(* their hash, the score and the badges and payload derived from it.       *)
(***************************************************************************)
EXTENDS JobDelivery, Integers, Sequences, FiniteSets

CONSTANTS ApiJobs, CronJobs,   \* who enqueues the job
          WorkerCount,         \* worker processes, one job each at a time
          Lookback,            \* DEFAULT_LOOKBACK_BLOCKS
          Window,              \* REORG_WINDOW_BLOCKS
          Genesis,             \* time of block 0, in block intervals since 1970
          NullKeyOk,           \* does the client accept a null logIndex as a key
          Fractional,          \* blocks where the wallet's transfer is not a whole number
          StartHead, MaxHead,  \* bounds: chain height at the start, at the end
          MaxFailures,         \* bound: exceptions inside the try block
          MaxFaults            \* bound: crashes and other failures

ASSUME PipelineAssumption ==
    /\ Jobs = ApiJobs \cup CronJobs /\ ApiJobs \cap CronJobs = {}
    /\ MaxAttempts \in Nat \ {0} /\ WorkerCount \in Nat \ {0}
    /\ Lookback \in Nat /\ Window \in Nat /\ Genesis \in Nat
    /\ NullKeyOk \in BOOLEAN /\ Fractional \subseteq Nat
    /\ StartHead \in Nat /\ MaxHead \in Nat /\ StartHead <= MaxHead
    /\ MaxFailures \in Nat /\ MaxFaults \in Nat

VARIABLES
    head,       \* latest block of the chain
    activity,   \* blocks with a transaction of the wallet
    linked,     \* does the wallet row exist
    runs,       \* runs[r]: status of index run r, none when there is no row
    cursor,     \* wallet_chain_index.last_indexed_block, NoBlock without row
    facts,      \* transaction_facts of the wallet
    snapshots,  \* score_snapshots of the wallet, oldest first
    awarded,    \* inputs that the badge awards were last synchronised with
    status,     \* profiles.status
    payload,    \* profile_projections.payload, NoPayload before the first
    api,        \* api[j]: progress of the API call behind job j
    at,         \* at[j]: the next await of the worker that has job j
    loc,        \* loc[j]: fromBlock, toBlock, profile status and badges it read
    failures, faults

chainVars == <<head, activity>>
walletVars == <<linked, runs, cursor, facts, snapshots, awarded>>
profileVars == <<status, payload>>
budget == <<failures, faults>>
vars == <<deliveryVars, chainVars, walletVars, profileVars, api, at, loc, budget>>

Blocks == 0..MaxHead
NoBlock == -1
None == "none"
ApiStates == {None, "status", "row", "sent", "failed"}
RunStatus == {None, "pending", "running", "completed", "failed"}
ProfileStatus == {"created", "indexing", "active", "failed"}
NoPayload == [inputs |-> {}, badges |-> {}, status |-> None]

\* The try block of processJob, and what surrounds it.
TryAwaits == {"head", "cursor", "mark", "reconcile", "store", "advance", "snapshot",
              "badges", "project", "awards", "dao", "metrics", "version", "publish",
              "announce", "complete", "activate"}
Awaits == TryAwaits \cup {None, "load", "findRun", "failRun", "failProfile", "threw",
                          "returned"}

Runs == Jobs \X (1..MaxAttempts)

\* An API job carries its run id through every attempt; a cron job has none,
\* so each attempt creates a run.
RunOf(j) == IF j \in ApiJobs THEN <<j, 1>> ELSE <<j, tries[j]>>

\* fetchTransactions over the range, classified and kept by the spam filter.
Fetched(j) == activity \cap (loc[j].from .. loc[j].to)

Init ==
    /\ DeliveryInit
    /\ head = StartHead
    /\ activity \in SUBSET (0..StartHead)
    /\ linked = TRUE
    /\ runs = [r \in Runs |-> None]
    /\ cursor = NoBlock
    /\ facts = {}
    /\ snapshots = << >>
    /\ awarded = {}
    /\ status = "created"
    /\ payload = NoPayload
    /\ api = [j \in ApiJobs |-> None]
    /\ at = [j \in Jobs |-> None]
    /\ loc = [j \in Jobs |-> [from |-> 0, to |-> 0, seen |-> "created", badges |-> {}]]
    /\ failures = 0 /\ faults = 0
----------------------------------------------------------------------------
(* Environment: the chain, the user, the API and the cron *)

Mine ==
    /\ head < MaxHead
    /\ head' = head + 1
    /\ activity' \in {activity, activity \cup {head + 1}}
    /\ UNCHANGED <<deliveryVars, walletVars, profileVars, api, at, loc, budget>>

\* DELETE of the wallet row cascades to everything indexed for it.  The user
\* keeps another wallet, and the profile and its projection stay.
Unlink ==
    /\ linked
    /\ linked' = FALSE
    /\ runs' = [r \in Runs |-> None]
    /\ cursor' = NoBlock
    /\ facts' = {} /\ snapshots' = << >> /\ awarded' = {}
    /\ UNCHANGED <<deliveryVars, chainVars, profileVars, api, at, loc, budget>>

\* triggerRefresh and enqueueIndexForWallet: status, then run row, then xadd.
ApiStatus(j) ==
    /\ linked
    /\ api[j] = None
    /\ api' = [api EXCEPT ![j] = "status"]
    /\ status' = "indexing"
    /\ UNCHANGED <<deliveryVars, chainVars, walletVars, payload, at, loc, budget>>

ApiRun(j) ==
    /\ api[j] = "status"
    /\ IF linked
       THEN /\ api' = [api EXCEPT ![j] = "row"]
            /\ runs' = [runs EXCEPT ![<<j, 1>>] = "pending"]
       ELSE /\ api' = [api EXCEPT ![j] = "failed"]
            /\ UNCHANGED runs
    /\ UNCHANGED <<deliveryVars, chainVars, linked, cursor, facts, snapshots,
                   awarded, profileVars, at, loc, budget>>

ApiSend(j) ==
    /\ api[j] = "row"
    /\ api' = [api EXCEPT ![j] = "sent"]
    /\ Submit(j)
    /\ UNCHANGED <<chainVars, walletVars, profileVars, at, loc, budget>>

ApiFails(j) ==
    /\ api[j] \in {"status", "row"}
    /\ faults < MaxFaults
    /\ faults' = faults + 1
    /\ api' = [api EXCEPT ![j] = "failed"]
    /\ UNCHANGED <<deliveryVars, chainVars, walletVars, profileVars, at, loc, failures>>

CronSend(j) ==
    /\ linked
    /\ Submit(j)
    /\ UNCHANGED <<chainVars, walletVars, profileVars, api, at, loc, budget>>
----------------------------------------------------------------------------
(* processJob for job j *)

\* One await: what follows it, and what no await of processJob touches.
Await(j, here, next) ==
    /\ at[j] = here
    /\ at' = [at EXCEPT ![j] = next]
    /\ UNCHANGED <<deliveryVars, chainVars, api, budget>>

\* A statement that refers to a removed row throws.
IfLinked(next) == IF linked THEN next ELSE "failRun"

Receive(j) ==
    /\ Cardinality({k \in Jobs : phase[k] = "running"}) < WorkerCount
    /\ Take(j)
    /\ at' = [at EXCEPT ![j] = "load"]
    /\ UNCHANGED <<chainVars, walletVars, profileVars, api, loc, budget>>

\* A job whose wallet is gone returns, and so counts as done.
LoadWallet(j) ==
    /\ Await(j, "load", IF linked THEN "findRun" ELSE "returned")
    /\ UNCHANGED <<walletVars, profileVars, loc>>

\* An API job looks its run up and returns without one; a cron job creates one,
\* which throws outside the try block if the wallet went meanwhile.
LoadRun(j) ==
    /\ IF j \in ApiJobs
       THEN /\ Await(j, "findRun", IF runs[RunOf(j)] # None THEN "head" ELSE "returned")
            /\ UNCHANGED runs
       ELSE /\ Await(j, "findRun", IF linked THEN "head" ELSE "threw")
            /\ runs' = IF linked THEN [runs EXCEPT ![RunOf(j)] = "pending"] ELSE runs
    /\ UNCHANGED <<linked, cursor, facts, snapshots, awarded, profileVars, loc>>

\* resolveBlockRange: getLatestBlock, then the cursor.
ReadHead(j) ==
    /\ Await(j, "head", "cursor")
    /\ loc' = [loc EXCEPT ![j].to = head]
    /\ UNCHANGED <<walletVars, profileVars>>

FirstBlock(to) == IF to > Lookback THEN to - Lookback ELSE 0

FromBlock_OffByOne(to) == IF cursor = NoBlock THEN FirstBlock(to) ELSE cursor
FromBlock_Skips(to) == IF cursor = NoBlock THEN FirstBlock(to) ELSE cursor + 2
FromBlock(to) == IF cursor = NoBlock THEN FirstBlock(to) ELSE cursor + 1

ReadCursor(j) ==
    /\ Await(j, "cursor", "mark")
    /\ loc' = [loc EXCEPT ![j].from = FromBlock(loc[j].to)]
    /\ UNCHANGED <<walletVars, profileVars>>

Mark(j) ==
    /\ Await(j, "mark", IfLinked("reconcile"))
    /\ runs' = IF linked THEN [runs EXCEPT ![RunOf(j)] = "running"] ELSE runs
    /\ UNCHANGED <<linked, cursor, facts, snapshots, awarded, profileVars, loc>>

\* deleteMany of the facts whose block time is not before
\* (fromBlock - Window) * 12 s after 1970.
Reconcile(j) ==
    /\ Await(j, "reconcile", "store")
    /\ facts' = IF loc[j].from <= Window THEN facts
                ELSE {b \in facts : Genesis + b < loc[j].from - Window}
    /\ UNCHANGED <<linked, runs, cursor, snapshots, awarded, profileVars, loc>>

\* upsertBatch looks every fact up by (chainId, txHash, logIndex) with the
\* null logIndex that the adapters give it.
Store(j) ==
    /\ LET stored == Fetched(j) = {} \/ (linked /\ NullKeyOk)
       IN  /\ Await(j, "store", IF stored THEN "advance" ELSE "failRun")
           /\ facts' = IF stored THEN facts \cup Fetched(j) ELSE facts
    /\ UNCHANGED <<linked, runs, cursor, snapshots, awarded, profileVars, loc>>

Advance_SkipsScore(j) ==
    /\ Await(j, "advance", IfLinked("badges"))
    /\ cursor' = IF linked THEN loc[j].to ELSE cursor
    /\ UNCHANGED <<linked, runs, facts, snapshots, awarded, profileVars, loc>>

Advance(j) ==
    /\ Await(j, "advance", IfLinked("snapshot"))
    /\ cursor' = IF linked THEN loc[j].to ELSE cursor
    /\ UNCHANGED <<linked, runs, facts, snapshots, awarded, profileVars, loc>>

\* buildScoringInputs gets the facts of this range only.
Persist(j) ==
    /\ Await(j, "snapshot", IfLinked("badges"))
    /\ snapshots' = IF linked
                    THEN Append(snapshots, [run |-> RunOf(j), inputs |-> Fetched(j)])
                    ELSE snapshots
    /\ UNCHANGED <<linked, runs, cursor, facts, awarded, profileVars, loc>>

SyncAwards_NeverRevokes(j) ==
    /\ Await(j, "badges", IF linked \/ Fetched(j) = {} THEN "project" ELSE "failRun")
    /\ awarded' = IF linked THEN awarded \cup Fetched(j) ELSE awarded
    /\ UNCHANGED <<linked, runs, cursor, facts, snapshots, profileVars, loc>>

\* syncAwards creates and revokes rows; without a wallet only an award throws.
SyncAwards(j) ==
    /\ Await(j, "badges", IF linked \/ Fetched(j) = {} THEN "project" ELSE "failRun")
    /\ awarded' = IF linked THEN Fetched(j) ELSE awarded
    /\ UNCHANGED <<linked, runs, cursor, facts, snapshots, profileVars, loc>>

\* project: the profile row and the badges as they are at the start ...
ReadProfile(j) ==
    /\ Await(j, "project", "awards")
    /\ loc' = [loc EXCEPT ![j].seen = status]
    /\ UNCHANGED <<walletVars, profileVars>>

ReadAwards(j) ==
    /\ Await(j, "awards", "dao")
    /\ loc' = [loc EXCEPT ![j].badges = awarded]
    /\ UNCHANGED <<walletVars, profileVars>>

\* ... the DAO payments, where BigInt refuses a value that is not whole ...
Aggregate(j) ==
    /\ Await(j, "dao", IF Fetched(j) \cap Fractional = {} THEN "metrics" ELSE "failRun")
    /\ UNCHANGED <<walletVars, profileVars, loc>>

\* ... privateMetrics and publicCacheVersion, before the payload, and the cache
\* and the message, after it: ProfileCache has what they write ...
Around(j) ==
    /\ \/ Await(j, "metrics", "version")
       \/ Await(j, "version", "publish")
       \/ Await(j, "announce", "complete")
    /\ UNCHANGED <<walletVars, profileVars, loc>>

\* ... and the payload, of what was read, status included.
Publish(j) ==
    /\ Await(j, "publish", "announce")
    /\ payload' = [inputs |-> Fetched(j), badges |-> loc[j].badges, status |-> loc[j].seen]
    /\ UNCHANGED <<walletVars, status, loc>>

Complete(j) ==
    /\ Await(j, "complete", IfLinked("activate"))
    /\ runs' = IF linked THEN [runs EXCEPT ![RunOf(j)] = "completed"] ELSE runs
    /\ UNCHANGED <<linked, cursor, facts, snapshots, awarded, profileVars, loc>>

Activate(j) ==
    /\ Await(j, "activate", "returned")
    /\ status' = "active"
    /\ UNCHANGED <<walletVars, payload, loc>>

FailRun_ForgetsProfile(j) ==
    /\ Await(j, "failRun", "threw")
    /\ runs' = IF linked THEN [runs EXCEPT ![RunOf(j)] = "failed"] ELSE runs
    /\ UNCHANGED <<linked, cursor, facts, snapshots, awarded, profileVars, loc>>

\* The catch block: the run, then the profile, then the exception goes on.
FailRun(j) ==
    /\ Await(j, "failRun", IF linked THEN "failProfile" ELSE "threw")
    /\ runs' = IF linked THEN [runs EXCEPT ![RunOf(j)] = "failed"] ELSE runs
    /\ UNCHANGED <<linked, cursor, facts, snapshots, awarded, profileVars, loc>>

FailProfile(j) ==
    /\ Await(j, "failProfile", "threw")
    /\ status' = "failed"
    /\ UNCHANGED <<walletVars, payload, loc>>

Return(j) ==
    /\ at[j] = "returned"
    /\ Finish(j)
    /\ at' = [at EXCEPT ![j] = None]
    /\ UNCHANGED <<chainVars, walletVars, profileVars, api, loc, budget>>

TryAgain(j) ==
    /\ at[j] = "threw"
    /\ Retry(j) \/ Bury(j)
    /\ at' = [at EXCEPT ![j] = None]
    /\ UNCHANGED <<chainVars, walletVars, profileVars, api, loc, budget>>
----------------------------------------------------------------------------
(* Failures of job j *)

Trouble(j, next) ==
    /\ at' = [at EXCEPT ![j] = next]
    /\ UNCHANGED <<chainVars, linked, runs, cursor, snapshots, awarded,
                   profileVars, api, loc>>

\* Any await of the try block may throw; one of upsertBatch does so when part
\* of the facts are written.
Throw(j) ==
    /\ at[j] \in TryAwaits
    /\ failures < MaxFailures
    /\ failures' = failures + 1
    /\ \/ UNCHANGED facts
       \/ /\ at[j] = "store" /\ linked /\ NullKeyOk
          /\ \E part \in SUBSET Fetched(j) : facts' = facts \cup part
    /\ Trouble(j, "failRun")
    /\ UNCHANGED <<deliveryVars, faults>>

\* An exception outside the try block or in the catch block, or when a job
\* that returned is acknowledged: the job is tried again.
ThrowOutside(j) ==
    /\ at[j] \in {"load", "findRun", "failRun", "failProfile", "returned"}
    /\ faults < MaxFaults
    /\ faults' = faults + 1
    /\ Trouble(j, "threw")
    /\ UNCHANGED <<deliveryVars, facts, failures>>

WorkerDies(j) ==
    /\ faults < MaxFaults
    /\ faults' = faults + 1
    /\ Lose(j)
    /\ Trouble(j, None)
    /\ UNCHANGED <<facts, failures>>
----------------------------------------------------------------------------
JobStep(j) ==
    \/ Receive(j) \/ LoadWallet(j) \/ LoadRun(j) \/ ReadHead(j) \/ ReadCursor(j)
    \/ Mark(j) \/ Reconcile(j) \/ Store(j) \/ Advance(j) \/ Persist(j) \/ SyncAwards(j)
    \/ ReadProfile(j) \/ ReadAwards(j) \/ Aggregate(j) \/ Around(j) \/ Publish(j)
    \/ Complete(j) \/ Activate(j) \/ FailRun(j) \/ FailProfile(j) \/ Return(j)
    \/ TryAgain(j)

JobTrouble(j) == Throw(j) \/ ThrowOutside(j) \/ WorkerDies(j)

ApiStep(j) == ApiRun(j) \/ ApiSend(j)

Next ==
    \/ Mine \/ Unlink
    \/ \E j \in ApiJobs : ApiStatus(j) \/ ApiStep(j) \/ ApiFails(j)
    \/ \E j \in CronJobs : CronSend(j)
    \/ \E j \in Jobs : JobStep(j) \/ JobTrouble(j)

Spec == Init /\ [][Next]_vars

\* Workers keep reading the queue and awaits return or throw; the API carries
\* on with a call it has begun.
Fairness ==
    /\ \A j \in Jobs : WF_vars(JobStep(j))
    /\ \A j \in ApiJobs : WF_vars(ApiStep(j))

FairSpec == Spec /\ Fairness
----------------------------------------------------------------------------
(* What is checked *)

TypeOK ==
    /\ phase \in [Jobs -> Phases] /\ tries \in [Jobs -> 0..MaxAttempts]
    /\ head \in StartHead..MaxHead /\ activity \subseteq Blocks
    /\ linked \in BOOLEAN /\ runs \in [Runs -> RunStatus]
    /\ cursor \in Blocks \cup {NoBlock}
    /\ facts \subseteq Blocks /\ awarded \subseteq Blocks
    /\ snapshots \in Seq([run : Runs, inputs : SUBSET Blocks])
    /\ status \in ProfileStatus
    /\ payload \in [inputs : SUBSET Blocks, badges : SUBSET Blocks,
                    status : ProfileStatus \cup {None}]
    /\ api \in [ApiJobs -> ApiStates]
    /\ at \in [Jobs -> Awaits]
    /\ loc \in [Jobs -> [from : 0..(MaxHead + 1), to : Blocks, seen : ProfileStatus,
                        badges : SUBSET Blocks]]
    /\ failures \in 0..MaxFailures /\ faults \in 0..MaxFaults

Running == {j \in Jobs : phase[j] = "running"}
Calling == {j \in ApiJobs : api[j] \in {"status", "row"}}
Quiet == Calling = {} /\ \A j \in Jobs : phase[j] \notin {"queued", "running"}
Last == snapshots[Len(snapshots)]

\* While the status is "indexing", something is still under way that will
\* settle it, as long as nothing died and the wallet is there: the API sets
\* the status first, and only a job that ends sets it back.
StuckExplained ==
    (status = "indexing" /\ linked /\ faults = 0) => ~Quiet

\* A run is completed only after its score snapshot was written, even if it is
\* tried again, fails, or another job works on the wallet.
CompletedHasSnapshot ==
    \A r \in Runs : runs[r] = "completed" =>
        \E i \in 1..Len(snapshots) : snapshots[i].run = r

\* A job reaches the dead-letter stream only if each of its attempts met an
\* exception; what processJob does by itself never makes an attempt fail.
DeadNeedsFailures ==
    (faults = 0 /\ linked) =>
        \A j \in Jobs : phase[j] = "dead" => failures >= MaxAttempts

\* With one worker: when a job has completed and nothing is in work, the latest
\* snapshot, the badge awards and the public payload come from one scoring.
ViewsAgree ==
    (Running = {} /\ snapshots # << >> /\ runs[Last.run] = "completed") =>
        /\ awarded = Last.inputs
        /\ payload.inputs = Last.inputs
        /\ payload.badges = Last.inputs

\* With one worker: no transaction is counted in two snapshots, although runs
\* are retried after exceptions and crashes at every await.
ScoredAtMostOnce ==
    \A i, k \in 1..Len(snapshots) :
        i # k => snapshots[i].inputs \cap snapshots[k].inputs = {}

\* With one worker: the cursor moves forward only, and whatever it passes (from
\* the lookback on, at first) is among the stored facts at that moment.
CursorNeverSkips ==
    [][(linked' /\ cursor' # cursor) =>
          LET since == IF cursor = NoBlock THEN cursor' - Lookback ELSE cursor + 1
          IN  /\ cursor' > cursor
              /\ activity \cap (since .. cursor') \subseteq facts]_vars

\* A profile does not stay "indexing": workers keep taking jobs and a job that
\* ends, well or badly, sets the status, unless something died or the wallet went.
IndexingEnds ==
    status = "indexing" ~> (status # "indexing" \/ faults > 0 \/ ~linked)
----------------------------------------------------------------------------
(* What documents say and the code does not do *)

\* scoring-methodology.md: a snapshot can be reproduced for an audit, which
\* needs the facts it was computed from.
AuditReproducible ==
    Quiet => \A i \in 1..Len(snapshots) : snapshots[i].inputs \subseteq facts

\* support-playbook.md and the onboarding page: the owner sees status active
\* when indexing is complete.
OwnerSeesActive ==
    (Quiet /\ status = "active") => payload.status = "active"
==============================================================================
