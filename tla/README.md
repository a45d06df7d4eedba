# Verification of Onchain Reputation

TLA+ models of this repository: the indexing queue, the index pipeline of a job,
what a job makes of a wallet's transfers, the public profile with its cache,
accounts with their nonces and wallets, billing, the registry, the daily and
per-minute limits with exports, and a tab of the web application. TLC checks them on
small instances; every safety property that a run checks is also proved, for every value of the
constants (section 4).

`PROJECT.json` maps every definition to the lines it stands for, and lists the
runs, the mutants that show what each property can detect, the hazards, the
findings and the theorems.

## 1. The system

The API (`src/apps/api`, NestJS) serves owners and the public. The worker
(`src/apps/worker`) consumes index jobs, fetches a wallet's transactions, scores
them and writes the profile's projection. Both share PostgreSQL (through Prisma)
and Redis (a stream of jobs, a cache of public profiles, pub/sub). The web
application (`src/apps/web`, Next.js) is a client of the API.

| Component | State | Operations | Talks to | Hard part | Correct when |
|---|---|---|---|---|---|
| Job queue (`indexer.queue.ts`, `indexer.consumer.ts` start, `retry.policy.ts`, `dlq.handler.ts`) | stream `indexer:jobs`, group `indexer-workers` with its pending list, stream `indexer:jobs:dlq`, `activeJobs` per worker | enqueue, read, acknowledge, retry, bury | orchestrator, cron, pipeline | crash between read and acknowledgement, failed acknowledgement, retry beside the old entry | one copy of a job in work; bounded attempts; nothing vanishes; every job ends |
| Orchestration (`indexer.orchestrator.ts`) | `index_runs` | createRun, count of today's runs | queue | row created, enqueue fails | a run is sent or the caller gets the error |
| Pipeline (`indexer.consumer.ts` processJob and what it calls) | `index_runs`, `wallet_chain_index`, `transaction_facts`, `score_snapshots`, `badge_awards`, `profile_projections`, `profiles.status` | range, mark, reconcile, store, advance, snapshot, badges, project, complete, activate; catch block | chain adapters, cache | an exception at any await, retry of half-done work, two jobs of one wallet, wallet removed meanwhile | statuses tell the truth; cursor leaves no gap; views agree |
| Adapters, classifier, aggregates, scoring, badges, risk, DAO contributions (`adapters/*`, `classifier.service.ts`, `aggregates.service.ts`, `scoring/*`, `dao-aggregator.service.ts`) | the registry each service loaded once per process, `rateLimitPauseUntil`, `badge_awards` | fetch two ways with retries, classify in parallel, score, award and revoke one by one, infer contributions | chain node, registry tables | transfers that come in both calls, loads that race, copies of the registry that differ, thresholds, half-written awards | no transfer lost or counted twice; scores and badges follow the facts |
| Profile and cache (`profiles.service.ts`, `profile.projector.ts`, `cache.service.ts`, `cache-invalidation.listener.ts`) | `profiles`, projection payload, keys `profile:public:{slug}:v{n}`, their locks | PATCH, projection, public read, invalidation, expiry | pipeline, Redis | read-modify-write of the payload, reads that fill a key late | payload agrees with the row; stale views go away |
| Cron (`cron.service.ts`) | timer | enqueue all wallets without a recent run | queue | ignores jobs in flight | no harm from the extra job |
| Accounts (`siwe.service.ts`, `auth.service.ts`, `wallets.*`) | nonces in Redis, users, wallets | issue and consume a nonce, sign in, link, unlink, set primary | pipeline (cascade) | check-then-act in each of them | a nonce is used once; limits and the primary wallet hold |
| Billing (`stripe.webhook.service.ts`, `stripe.service.ts`, `entitlements.service.ts`) | subscriptions, webhook events, user tier | handle event, effective plan, checkout | orchestration | duplicated and reordered events, partial handling | plan follows payments |
| Exports (`exports.service.ts`, `verify.controller.ts`) | `exports` | create, download, verify | profile | limit check, record left pending | limit holds; a completed export verifies |
| Refresh quota (`entitlements.service.ts`, `profiles.controller.ts`) | `index_runs` | count, refresh | orchestration, worker | counts started runs, not queued ones | limit holds |
| Rate limit (`rate-limit.guard.ts`) | a counter per address in Redis | INCR, EXPIRE | Redis | the pair is not atomic | a blocked address is let in again |
| Registry (`registry.service.ts`, `admin/registry/page.tsx`) | two caches per API process, tables | list, create, change, deactivate, snapshot | classifier, web | load racing an invalidation, several processes | a change is seen |
| Web application (`apps/web`) | token in `sessionStorage`, forms, requests in flight | sign in, poll, edit and check a slug, save, open pages | API | answers that come late, after a page or a session has gone | no session lost, no unconfirmed rename, onboarding ends |
| Config upload, read APIs, telemetry, infrastructure | files | | | | |

## 2. Modules

| Module | What it is |
|---|---|
| `JobDelivery` | abstract: what the queue promises for one job |
| `JobQueue` | the stream, the group, the producers and the consumer loop of every worker; implements `JobDelivery` |
| `IndexPipeline` | processJob await by await; EXTENDS `JobDelivery` for delivery, so that the two large state spaces stay apart |
| `Scoring` | pure: transfers to inputs, inputs to scores, badges, flags and contributions |
| `Analysis` | what a job does between range and projection, with the services that keep state; EXTENDS `Scoring` |
| `ProfileCache` | profile row, payload and cache keys under PATCHes, projections and public reads |
| `Accounts` | sign-in, sign-up, link and unlink of several users, with nonces |
| `Billing` | the plan of one user under Stripe's webhooks and checkouts |
| `Registry` | the registry in several API processes and on the admin page |
| `Quotas` | exports, refreshes and anonymous requests with their limits |
| `Web` | a tab of the web application and its requests |
| `*Proofs` | theorems about the module of that name (section 4); `JobQueueProofs` also has the refinement of `JobDelivery`, `RegistryProofs` the theorems about `Analysis` |
| `MC*` | small instances for TLC |

A definition whose name ends in `_Something` after the name of an action or
helper (`Release_Leak`, `FromBlock_Skips`) is a faulty form of it; the mutants of
`PROJECT.json` use them to show that a property can fail.

In every module an action is one await of the code: what the JavaScript does between
two awaits is part of the action before. Nothing in this code runs in a database
transaction.

### JobQueue

State and code: `stream` is `indexer:jobs` (never trimmed, so an entry is its
position), `delivered` and `pel` are the group's last-delivered position and
pending list, `dlq` the dead-letter stream, `pc` and `cur` where a consumer loop is
and which entry it holds, `active` its `activeJobs`. The consumer awaits the job
inside the loop, so a worker holds one entry at a time.
`Crash` may come at any step of a worker; `AckFails` is an XACK that throws, which the catch
block treats like a failed job. `finished` is a history variable.

### IndexPipeline

One wallet on one chain. `runs` holds the `index_runs` rows (an API job keeps its
run id over all attempts, a cron job creates a run per attempt), `at[j]` the next
await of the worker that has job j, `loc[j]` the locals of that attempt. A
transaction is the block it is in, and since what `Analysis` computes is a
function of the transactions of the range, the set of those
transactions stands for all of it. `Unlink` is the cascade of the schema. An
exception may be thrown at every await of the try block (`Throw`, bounded by
`MaxFailures`), which includes an `upsertBatch` that wrote part of its facts, or
outside it (`ThrowOutside`); the worker may die anywhere (`WorkerDies`).

`NullKeyOk` says whether the database client accepts null as a part of a compound
unique key. The Prisma client does not, which stops every job with a
transaction (run `pipeline_null_key`); the other runs set it to TRUE, to see how the
rest of the pipeline behaves. `Genesis` is the time of block 0 in block
intervals since 1970; the reorg handler computes as if it were 0. `Fractional` are the blocks whose
transfer has a value that is not whole: `aggregate` in `project` throws on it (`Aggregate`), after the cursor has
moved, so the retry finds an empty range and completes.

Every await of `processJob` and `project` that reads or writes something of the module is an action.
The awaits that touch nothing in it, private metrics, version, cache and message, are `Around`: they count because
an exception or a crash may come there, before the payload is written or after it. Fetching, classifying and filtering
are part of `Store`, since they depend on the range alone, and the risk heuristics are part of `ReadProfile`.

### Scoring and Analysis

A record stands for `m` transfers that are alike: their direction, their
counterparty (`peer`: a listed protocol, a governance contract, a DAO treasury, a
router, a person, many different addresses, the wallet itself) and their value (zero, a
whole number of wei, a decimal fraction, which `BigInt` refuses). `Scoring` has the inputs
(`inputs.builder.ts`), the four dimensions, the index and the rules of
`badges.v1.json` in exact rational arithmetic, the heuristics and the contributions.

`Analysis` follows one worker through its jobs. `known` and `loaded` are the
classifier's maps and flag, `treasuries` and `daosLoaded` those of the DAO aggregator:
both load once and never again, while `listed` changes. The head of the
chain, the outgoing and the incoming transfers are three RPC calls in `withRetry`, with
the pause that a rate limit sets for the whole process (`paused`). The transfers are
classified in parallel: those that find the flag unset each start a load of their own
(`loads`), whose two queries, of protocols and of DAOs, are answered in any order and each as of
its own moment. Awards and revocations are written one by one in the order of the catalog, and a
job may throw between any two of them. `steady` and `absent` are histories of the
registry.

### ProfileCache

One profile. `row` is the `profiles` row, `payload` the projection, `cache` the
Redis keys, `events` the `profile:indexed` messages not yet handled. Every
await of updateOwnerProfile, project and getOrSet is an action. An update that
leaves a field out and one that gives it its current value are the same step.

### Accounts

`wallets`, `users`, `tier` and `profiles` are rows, `nonce` the Redis keys. A
handler is a request; `at[h]` is its next await and `req[h]` what it was
asked and what it has read so far: GET and DEL of a nonce, the look-up and the insert of a
wallet, the count and the removal, the two updates of `setPrimary`. Sign-up and link
share `linkToUser` (`Lookup`, `CreateWallet`), as in the code. A row's `id` also
orders `linkedAt`. A nonce is a slot that a new nonce may take once no request
refers to the old one. `solo` (no overlap, nothing cut off) and `uses` are
history variables.

### Billing

`sub` is the user's row of `subscriptions`, `tier` the column of `users`, `recorded` the
rows of `stripe_webhook_events`. Stripe is external: `stripe` and `log` say what happened
there and which events it emitted, and an unanswered event may be delivered at
any time, on any handler, in any order, also while another delivery of it is in work.
A request that throws is one that stops (`Abort`): the controller rethrows, so Stripe
gets no 200. `tagged` says whether subscriptions carry the user's id in
their metadata. The code reads it there and never writes it there: FALSE is what
`createCheckoutSession` produces, TRUE a Stripe account where it was added by
hand; both are checked. `configured = FALSE` is the mock checkout. `alone` and `inOrder` are history variables.

### Registry

One entry of each table (`row`), since all that a reader of a list can tell is whether the
entry is in it. `cache[i]` holds the two cached lists of API process `i`, which expire
after an hour. A load is in three steps: it misses the cache, it reads the table (`hold`), it
stores and returns. A change looks its entry up, writes it and drops the cache of
its own process only. The admin page makes changes one after the other through any
process and reloads the snapshot after each; `access` is what the environment
allows it. `calm`, `solo` and `used` are histories.

### Quotas

One user, one address. A request goes from await to await (`at[h]`, `req[h]`), and `Midnight` may come
in between. `exports` and `runs` are rows; `Start` is the worker that sets
`startedAt`, which is what the refresh quota counts; the rows of a wallet that was unlinked (not in `linked`)
are gone, and stay in `runs` as history only. `count` and `ttl` are the Redis key of the
anonymous limit. A call that throws ends its request and undoes nothing (`Fail`); the
guard of the anonymous limit lets requests through when Redis fails (`FailOpen`). `Snapshot`,
`JsonbOrder` and `Verdict` say what a signature is over and what `verify` reads back.

### Web

`token` is the session in `sessionStorage` (the number of the sign-in), `fetch[r]` a request
of the tab and its answer, `mounted` whether the component that asked still exists.
A call of the API is one step here (`Serve`), since `Accounts` and `ProfileCache` look
inside; it may be done and its answer lost (`Lost`). The settings page has the slug field with its 400 ms timer,
the check of a slug and the save; the onboarding page polls; dashboard and settings load the profile once.
A field holds a name that the API accepts, one that it does not, or nothing.
A refresh sets the status in `row` and then queues a job (`Refresh`, which may stop in between); the cron job of the worker
queues one and leaves the status alone (`Cron`). A job reads the row (`JobReads`), writes the projection
from what it read (`JobPublishes`) and then sets the status (`JobEnds`), or it fails before or after
the projection (`JobFails`). `queued` says that jobs wait, not how many: the cron job can always be the next one.
`CookieGate` is the middleware that asks for a cookie in production: with TRUE the protected
pages cannot be opened at all, since nothing sets the cookie (section 5). `inOrder`, `fresh` and
`free` are histories.

## 3. Runs

| Run | Expected | Shows |
|---|---|---|
| `queue` | pass | under a crash or a failed acknowledgement: no two live copies of a job (`OneLiveCopy`), attempts only go up (`AttemptsAscend`), an acknowledged entry has left its trace (`NothingVanishes`), burial only after the last attempt and for good (`BurialIsFinal`); with fair workers jobs end (`EveryJobEnds`), and `JobQueue` implements `JobDelivery` (`DeliveryContract`) |
| `pipeline_one_worker` | pass | with retries, a crash and jobs beside each other: snapshot, badges, payload and row agree when no job runs (`ViewsAgree`), a transaction is scored once (`ScoredAtMostOnce`), the cursor leaves no gap (`CursorNeverSkips`) |
| `pipeline_two_workers` | pass | jobs of one wallet at the same time: a row that says it is in work is (`StuckExplained`), a completed run has its snapshot (`CompletedHasSnapshot`), and indexing ends (`IndexingEnds`) |
| `pipeline_null_key` | violation | a job with a transaction cannot complete |
| `profile_sequential` | pass | writers in turn: the payload agrees with the row (`SettledProjection`) and no view is more than one update behind (`AtMostOneBehind`) |
| `profile_concurrent` | pass | writers that overlap: a version names one payload, whoever holds it (`OneViewPerVersion`); under fairness the served view becomes fresh and keys of other versions go away, also after a lost message (`EventuallyFresh`) |
| `accounts` | pass | requests that overlap and are cut off: how far the limit of wallets can be overshot (`OvershootBounded`), how often a nonce works (`NonceOnce`), nobody's wallet is taken by another (`OthersUntouched`); one after the other: one primary wallet (`KeepsPrimary`) |
| `billing` | pass | any interleaving: `SubscriptionRules`; requests one after the other, with failures and repetitions: `TierAgrees`, and with events in order `PlanFollowsPayments` |
| `registry` | pass | two API processes, the page and other admins: what a process serves (`CacheExact`), what the page shows after its own work (`PageShowsWork`), and that an outdated list goes away (`StaleEnds`) |
| `quotas` | pass | requests that overlap, over midnight, with a plan that changes, a wallet that is unlinked and a call that fails: `ExportsBounded`, `PendingExplained`, `RefreshInTurn`, `MinutePasses` |
| `analysis` | pass | two jobs of a worker whose registry changes, with exceptions, restarts and rate limits, over eleven ranges of transfers: `FactsComplete`, `RegistryRespected`, `ContributionsBacked`, `VotingNeverHurts`, `BadgesFollowScore`, `AnalysisEnds` |
| `web` | pass | answers that come late or not at all, pages left and sessions that expire: `SessionKept`, `RenameConfirmed`, `HintMatches`, `OnboardingEnds` |

### Bounds

Two jobs are enough for a job beside another of the same wallet and for a job
after another; three attempts in the queue and two in the pipeline reach the
retry, its retry or the dead-letter stream; two workers are enough for every
interleaving of two jobs. One fault in the queue leaves an entry pending or repeats a
finished job; what several faults do to safety is proved (section 4). Two failures in the two-worker pipeline fail both attempts of a job. With one worker a failure and a crash or a failed acknowledgement are enough for a retry of half-done work.
Chain heights up to 2 give a first range, an incremental range
and an empty one, with lookback and reorg window small enough to be reached. With one worker block 1 has a transfer
that is not whole, blocks 0 and 2 have not, so that a refused attempt comes before, after and between others.
`pipeline_two_workers` has no crash, after which `IndexingEnds` promises nothing.
Two PATCHes and a projection give every order of the two kinds of writers
and two writers behind one another, and two readers meet on one lock (`profile_sequential`); the overlap of writers is
checked with one reader (`profile_concurrent`), which is enough for a fill that comes late.

In `accounts` four requests, two at a time, are enough to sign up, link and unlink
beside a second user, and with four addresses the limit of a premium user, set to 2,
can be overshot (`IssueNonce` and the tier are unbounded). In `billing` three events with a
repetition reach a payment, an end of the subscription and an old event after it, and two
checkouts a second customer.
In `registry` two requests are a load that races a change, or two loads, in one process or in
two. In `quotas` every limit is one, and three requests, two at a time, on two days and for two wallets, are enough to
reach it, to overshoot it and to come back the next day.
In `analysis` the groups of transfers are chosen around the thresholds of the code: 5 and 20 of
the heuristics, 500 facts, 1000 transfers of one call, the caps of the dimensions; the values
are multiplicities, so these are the numbers of the code and not smaller ones. Three ranges have a transaction of two
transfers: a swap, and a batch of two payments in either order. The registry changes
once, which is enough for two copies of it that differ. In `web` two sign-ins give a session and
a late answer of the one before, and three edits a check that is overtaken or a save under way while
the field changes. The user opens one page, besides those the application leads to; the one refresh sets the status back while a
job runs or before it, and the one fault is a lost answer, a refresh without a job, or a job that fails. More pages and faults make the run too long,
and are left to the proofs, which hold for any number of them; what was only checked for so many is `OnboardingEnds`.

Deadlock is not checked: jobs and requests are finite, so the system stops when
they are done.

### Fairness

Weak fairness of each worker's next step: the loop runs as long as the process
does, and awaits return or throw. Weak fairness of each API call or request
that has begun, for the same reason, and of key expiry (every `setex` has a time
to live, and so have the lists of `Registry`; `MinuteEnds` is Redis removing a key that has one).
In `Analysis` the job goes on and the pause of a rate limit ends with the clock. In `Web` the interval of the onboarding page
fires, requests are answered or lost, and answers are handled by the event loop; jobs complete or fail, and the cron job, an interval
of the worker too, enqueues the wallet when it has no job (`cron.service.ts:25`): the page needs it, since the first projection says indexing.
None for crashes, exceptions, new requests, the users or the chain, nor elsewhere for the cron.
A worker is restarted after a crash (the container is), so the loop comes back.
## 4. Proofs

`JobQueueProofs` proves for every finite or infinite set of jobs and workers, every
number of attempts and faults:

- `TypeCorrect`: `TypeOK`;
- `AtMostOneLiveCopy`: `OneLiveCopy`;
- `BoundedAttempts`: `AttemptsAscend`;
- `FinalBurial`: `BurialIsFinal`;
- `EveryEntryAccounted`: `NothingVanishes`.

The assumptions are those of `JobQueueAssumption`. None of the properties
is inductive alone. The invariant of `Invariance` adds what ties a worker to its
entry (it holds a pending entry that no other worker holds), what ties an
entry to its job (before a producer sent it there is none), and that of the
entries of a job only the last may still be undecided, all earlier ones having
been retried. From this a new attempt can only come after the latest entry, which
gives ascending attempts, and a job is buried only from the latest entry with the
last attempt number, which gives finality. The proof has one step per action and under it
one per conjunct that the action can disturb.

The last part of `JobQueueProofs` proves on top of it that `JobQueue` implements `JobDelivery`
(`QueueDelivers`, the property `DeliveryContract` of the run), so that what `IndexPipeline`
presumes of delivery is what the queue does. A job's state in the contract is read off its latest
copy. That there is a latest copy needs an argument of its own: positions are bounded by the length
of the stream, and the order of the naturals is well-founded. The invariant gives that a copy still undecided is the latest one, and with it each action
of the queue is a Submit, Take, Finish, Retry, Bury or Lose of one job, or changes nothing
the contract sees.

`ProfileCacheProofs` proves, for every finite set of PATCHes and projections, every set of reads
and slugs and every number of faults (`ProfileAssumption`):

- `TypeCorrect`: `TypeOK`;
- `VersionTellsView`: `OneViewPerVersion`;
- `ProjectionSettles`: `SettledProjection`, for one writer at a time (`MaxWriters = 1`);
- `OneBehind`: `AtMostOneBehind`, for one writer at a time.

That the version of the row stays within its bound is not evident, since each writer increments it: `Types`
counts the writers past their increment (`Past`). `Versioned` looks at every copy of a view in the system, those in the
hands of requests included (`Held`): a writer between its increment and its write (`Unwritten`) has a version that no
other writer has and no view carries, and a projection that is about to write its key has the only view of its
version. So a version is given to one view once, however often that is copied afterwards.
With one writer at a time, `Knows` says for each await what the writer in flight has in
hand compared with row and payload: before its increment they agree, after it the payload
is exactly one version behind, after its last write they agree again. `Behind` carries
this bound to the readers, who may hold a view across any number of later writes: it is
a bound against the version they read, under which they store it.

`IndexPipelineProofs` proves, for every set of jobs, every number of attempts, exceptions
and crashes, and every chain, lookback and window (`PipelineAssumption`):

- `TypeCorrect`: `TypeOK`;
- `CompletedRunsScored`: `CompletedHasSnapshot`, for any number of workers;
- `NotStuck`: `StuckExplained`, for any number of workers;
- `ScoredOnce`: `ScoredAtMostOnce`, for one worker (`WorkerCount = 1`);
- `NothingSkipped`: `CursorNeverSkips`, for one worker;
- `ViewsTogether`: `ViewsAgree`, for one worker;
- `DeadOnlyAfterFailures`: a job is given up only after as many exceptions as attempts, or if the
  wallet has a transaction that the code refuses by itself (`Refused`): one stored without log
  index when the client takes no null in a key, or a value that `BigInt` cannot read. Nothing is assumed
  of the client. For the Prisma client the first kind is every transaction, so the theorem says that a wallet
  without transactions is safe, and that once the key is repaired values that are not whole are all
  that is left. `DeadNeedsFailures`, without `Refused`, is what the violation run refutes.

`Base` adds to the types that a worker is at an await of a job exactly while the contract says
the job is running (`Hands`), and that nothing is indexed for a removed wallet (`Gone`). One lemma for each
action (`...Effect`) says what it does to each of the others. Each theorem adds what it needs.
`Scored`: a job behind its snapshot has one. `Rows` and `Settling`: a job that was sent has a run as
long as the wallet is there, so it does not return before it has set the status. `Tried`:
attempts are at most one ahead of exceptions, while nothing is refused. With one worker at most one job is in work (`Alone`), so
range, cursor and stored facts of that job can be related across awaits (`Counted`): all
snapshots lie behind the cursor, and a range that was read begins right after it. The cursor moves before the
snapshot is written; in between, the snapshots lie before the range instead, which is why a job that breaks
off there leaves transactions that are never scored, but none that are scored twice.
`Views` follows the run of the job in work: it is "running" from its mark to its end, so the latest
snapshot has no completed run while awards and payload catch up with it.

`AccountsProofs` proves, for every set of addresses, chains and nonces, every finite
set of handlers and every limit of at least one wallet (`AccountsAssumption`):

- `TypeCorrect`: `TypeOK`;
- `BoundedOvershoot`: `OvershootBounded`;
- `NobodyElseUnlinks`: `OthersUntouched`;
- `NonceUsedOnce`: `NonceOnce`;
- `PrimaryKept`: `KeepsPrimary`.

Counting wallets is not inductive, since a request between check and insert is a
wallet to come. The invariant counts both (`Counted`): wallets of a user plus
requests past the check stay below the limit plus the number of handlers. The
check only passes below the limit, and of the handlers then past it the checking one was
not one before, which is where the bound comes from. Finiteness of the rows
(`RowsOK`) and soundness of what a request holds (`RequestsOK`) carry the cardinality
arguments; the latter also says that the wallet id held by an unlink is unknown or
belongs to its user, which gives the third theorem, since ids are never reused.

The last two rest on a second invariant over the first (`SoloInductive`). `OneByOne`: as long as `solo` holds
at most one request is open. `Spent` counts for a nonce the requests that got past it together with those
between GET and DEL; while the nonce is there nobody got past it, and once it is gone nobody
else reads it, so the sum never exceeds what may be in flight. `Primaries` says for each
await of an unlink what it learnt of the rows and that it is still so, and what is missing: between
the removal of the primary wallet and the choice of another the user has none, but the request names
one of the wallets that are left.

`BillingProofs` proves for every number of handlers and events:

- `TypeCorrect`: `TypeOK`;
- `PlanIsThatOfTheRow`: `SubscriptionRules`;
- `TierFollows`: `TierAgrees`;
- `PlanIsThatOfPayments`: `PlanFollowsPayments`, for subscriptions that carry the user's id and for
  those that do not, as `createCheckoutSession` makes them: of events in order and one after the other,
  the user is premium exactly while a subscription is paid, or exactly if a checkout was ever completed.

For the second, what has to be added is `TierBehind`: as long as the row is neither premium nor
canceled, the tier is free and no request is about to raise it, because the row is
written before the tier and never goes back to that state.

The last three are about requests that come one after the other, and `Orderly` is the invariant they share.
A handler may stop at any write, so row and tier may differ; `Caught` says that then some event which has an
effect is not recorded yet, and since Stripe repeats what was not answered, it is not `Quiet`. `InStep`: if events also
come in order, the row is what the answered events make of it, or those and the next one, which is in work or was cut
off. `Standing` says what the first events make of the plan without going through them one by one: one of them
granted it, none after that one took it. `OneCustomer` and `Told` tie this to Stripe's
side: only the customer in the row has been to a checkout, and the log ends with a granting event exactly
while that customer pays.

`QuotasProofs` proves for every finite set of handlers, every limit, number of days and
bound (`QuotasAssumption`):

- `TypeCorrect`: `TypeOK`;
- `BoundedExports`: `ExportsBounded`;
- `ExplainedPending`: `PendingExplained`;
- `RefreshesInTurn`: `RefreshInTurn`.

As with the wallets, the exports of a day are counted together with the requests that passed
the check (`Counted`); midnight between check and insert is covered because a record
has the date of its insertion, and nothing is dated later than today. `DroppedCounted` says the same of pending exports and
failures. For the refreshes (`InTurnOK`), one request at a time is past its count, every
run that was asked for and still exists has started by the time of the next count, and what a request aims at stays below
the limit until its run is made: for the linked wallets together, and once the row is made for its own
wallet too, which may be unlinked before the job is sent (`Uses`).

`WebProofs` proves for every set of slots and every bound (`WebAssumption`):

- `TypeCorrect`: `TypeOK`;
- `HintCorrect`: `HintMatches`;
- `SessionStays`: `SessionKept`;
- `RenamesAsConfirmed`: `RenameConfirmed`.

The invariant has a part for each thing that can be under way. `RequestsOK` says what a request and its answer
may look like. `SessionOK` says that nothing is asked without a session, and that whoever has one has a
profile. `PageOK` says that a settings page waits for its profile or has it, and has one save at a time. `HintOK` says
that in order there is one check, about the slug in the field. `FreshOK` is the
one that needs thought: from a page that was loaded up to date at most one save is unserved, it is either confirmed
or names the slug of the row, and the slug of the page is that of the row
unless the answer that makes it so has not arrived. A page that is opened
while a save of an outdated page is on its way is therefore not fresh, though it may have loaded
what is in the row.

`RegistryProofs` proves of `Registry`, for every set of API processes and requests and
every number of requests and faults (`RegistryAssumption`):

- `TypeCorrect`: `TypeOK`;
- `CacheFollows`: `CacheExact`;
- `PageFollows`: `PageShowsWork`.

`CachesFresh` adds the loads to the caches: in a process that handled every request, if no change of a list was
written while a load was on its way (`calm`), every load that read a list holds the one
that is in the table, and so does the cache, unless a change is written and its cache is not emptied yet (`Doomed`).
Without the first half a stale load could still fill the cache. `PageFresh` does the same for the admin page: it has open no
more than one request, which it waits for, so what it shows is the registry, an error, or nothing, except from a
change to the end of the load that follows (`Outdated`).

It proves of `Analysis`, which is about other readers of the same tables and has no name in common with
`Registry`, for every set of ranges of transfers, every age and number of votes, and
every number of jobs, changes and faults (`AnalysisAssumption`):

- `BadgesFollow`: `BadgesFollowScore`;
- `RegistryIsRespected`: `RegistryRespected`;
- `ContributionsAreBacked`: `ContributionsBacked`;
- `VotesNeverHurt`: `VotingNeverHurts`;
- `NothingIsLost`: `FactsComplete`, the only one that needs the second part of the assumption. `Grouped` is about the
  notation alone: transactions of a single transfer may be written as one group, and a transaction of several, in
  whatever directions, is an element for each. Every range can be written so.

`AInv` is the invariant. `CopiesOK`: each copy of the registry in the worker, the maps of the classifier while any
of the loads that run at once may still fill them, and the list of the aggregator, has
the entries that were listed all the time and none that never was (`Respects`). `FactsOK`: every fact is classified by its
counterparty through such a copy (`Good`), and the inputs are those of the facts. `BadgesOK`: up to the position of
the loop the badges of this scoring are active; after it no badge of it is missing; after the revocations no
other is left.

What `Scoring` and `Analysis` compute from lists of any length needs induction over data, and
the induction theorems of the library take an operator as a parameter. `EveryNat` is what replaces them: a *set*
that has 0 and with each number the next one has all naturals, because a smallest number
outside it would have a predecessor. With it the sums over a list are determined by their partial sums (`SumIs`), grow with
their elements (`SumGrows`) and can be taken apart at the end (`SumAppend`). `VotesNeverHurt` follows: one vote more changes one
tally, each dimension ascends in it, also where it is rounded (`RoundGrows`), and so does the index.

`NothingIsLost` counts. A group of transfers stands for as many transactions as its multiplicity, so the sum over some places
of a list is the size of the set of its single transactions (`UnitsAt`), if no two places have
the same ones, and sums of lists whose places were chosen, cut off or put together become unions of sets. Whatever the calls
return, what is left of them without duplicates has no transaction twice and none that the range has not (`NoMore`). If neither
was cut off at its 1000 transfers it has each one once (`PagesComplete`), and shows it as a transfer to oneself if the first
transfer that leaves the wallet is one: the outgoing page comes first, and both are in the order of the range. The facts are
as many as `summarizeIfNeeded` leaves of these. `FetchOK` carries this along the awaits: what the job has got after the
first call is its page, after the second that of both without duplicates.

All invariants were also checked by TLC on the small instances. Only model-checked: liveness and ENABLED, which
the prover does not do: `EveryJobEnds`, `IndexingEnds`, `EventuallyFresh`, `StaleEnds`, `MinutePasses`,
`AnalysisEnds` and `OnboardingEnds`. The refinement `DeliveryContract` and the action properties are proved. The theorems `TypeCorrect`
cover the `TypeOK` of their modules for every value of the constants; the runs do not repeat them.


## 5. What the code does otherwise than its documents say

The violation run, with quotations, is under "findings" in `PROJECT.json`.
Found with the same models. Where a name is given in brackets, the module states what the code
does not provide, and TLC shows it when the definition is added to a cfg:

- Reconciliation turns block numbers into times as if block 0 had been mined in 1970, so it
  deletes every fact of the wallet whenever a second job runs (`AuditReproducible`;
  `reorg.handler.ts:20` against `scoring-methodology.md:5`).
- The owner's view keeps `indexing` after the first job, because the payload is written before the status
  (`OwnerSeesActive`; `profile.projector.ts:90` against `support-playbook.md:20`). The
  onboarding page waits for `active`, so a new user waits there for a second job, the cron job a day later: without
  fairness of `Cron`, `OnboardingEnds` fails. A refresh does not shorten that, as it sets the status to `indexing` again before its job reads it.
- The end of a subscription that this code created changes nothing: the user id is read from the
  subscription's metadata and never written there (`ExpiredIsFree`;
  `stripe.webhook.service.ts:71` against `billing.e2e-spec.ts:45`).
- The export signature is over `JSON.stringify` of the snapshot; `payload_snapshot` is
  JSONB, which does not keep the order of keys, so `verify` compares another text and
  answers that the signature does not match (`ExportVerifies`).
- `local-dev.md:86` says that the JWT is stored in the `access_token` cookie. It is in
  `sessionStorage`, and nothing sets a cookie, but `middleware.ts:14` asks for one: outside
  test mode dashboard and settings lead back to the landing page (`CookieGate`).
- A second job without new transactions scores the empty range and writes another
  `inputs_hash` (`support-playbook.md:14` presumes that it moves with activity).
- A read that saw a public profile fills the cache after the owner made it private
  (`cloudfront-cache.md:24`: the API never writes keys of a private profile).
- Two removals at once each count two wallets and leave
  none (`wallets.service.ts:109`: "Cannot remove your only wallet"). Two
  links with `isPrimary: true` leave two primary wallets.
- Requests that overlap may all consume one nonce (`auth.service.ts:38`: "Nonce
  expired or already used"): as many as are in flight, as `NonceOnce` says.
- Sign-up names the profile `user-` and eight digits of the address. If that slug is taken
  (the same address on another chain), user and wallet stay without a profile, and the
  next sign-in finds the wallet and does not try again.
- Without `alone`, `TierAgrees` fails: an update and a deletion handled at once
  leave the row canceled and the tier premium, and `linkWallet` reads the tier. Without
  `inOrder`, `PlanFollowsPayments` fails: an old update after a deletion makes the user
  premium again.  Two checkouts at once leave the customer that does not pay in the row.
- A transfer whose value is not a whole number (the adapter passes the number of the API on, `ethereum.adapter.ts:117`)
  makes `aggregate` throw (`dao-aggregator.service.ts:65`) after cursor, snapshot and badges are written. The
  retry finds no new block: it scores nothing, revokes the badges and shows a profile without
  transactions (`Aggregate` with `Fractional`, in the one-worker run).
- A run that fails after its snapshot is retried under the same id and gets a
  second snapshot (`scoring-methodology.md:5`: each run produces an immutable one).
- With `WorkerCount = 2`, `ViewsAgree` and `CursorNeverSkips` fail: nothing keeps two
  workers off one wallet, since the cron enqueues it whatever is in flight. Badges of
  one scoring end up beside the snapshot of another, and the cursor can move back.
- With `MaxWriters = 2`, `SettledProjection` fails: a projection that read the row before a
  PATCH undoes its visibility and name in the payload, and a PATCH that read
  the payload before a projection undoes its scores.
- A read between the version bump and the payload rewrite of a PATCH stores the
  old payload under the new key, which the PATCH does not delete; it stays
  until it expires (`EventuallyFresh` is what is left). The row and its projection are read by
  two queries, so the key of a version can also hold the payload of a later one.
- A PATCH never writes the slug into the payload, so until the next projection the
  view served under the new slug names the old one. The settings page, loaded again, shows the old slug, and
  the next save renames the profile back without a question (which `RenameConfirmed` exempts by
  `fresh`); a share link copied then has the old slug too.
- Without `calm`, `CacheExact` fails: a load that read the table before a change stores its list
  after the invalidation. Other processes of the API keep their list for up to an hour
  (`StaleEnds` is what is left), and the worker's copies stay until it is restarted.
- The refresh quota counts runs that have started: without `inTurn` any number of refreshes can be
  queued, and `RefreshInTurn` fails. The runs of a wallet are deleted with it (`schema.prisma:113`), so unlinking the
  wallet gives the day's refreshes back: the limit is one of the linked wallets and of each wallet,
  as `RefreshInTurn` says, and not one of the user.
- In `Web`, an empty slug field has no hint although the API refuses to save it (`slug-input.tsx:19`, `HintMatches`). The answer to an older check of a slug may overwrite the hint of a newer one (`inOrder`); an answer 401 that
  belongs to an earlier session ends the new one (the second case of `SessionKept`).
- Transfers are told apart by transaction alone, since `logIndex` is always null: a transaction leaves one
  fact, that of the first transfer out of the wallet if there is one (`ethereum.adapter.ts:45`), and what else it
  moved is in no score. And the calls ask for 1000 transfers, not transactions: with a full page
  transactions may be missing although the facts are fewer than the threshold. `FactsComplete` says both.
- What the score counts of a DAO and what the profile shows are not the same facts: `inputs.builder.ts:38` counts every fact
  of category `dao_contribution`, also what the wallet paid to the DAO or a transfer of nothing;
  `dao-aggregator.service.ts:67` only what came in and is positive, and besides what a router paid.
  `ContributionsBacked` is the equation between the two.
- The heuristic of wash trading counts every outgoing payment (`inputs.builder.ts:57`).

Read in the code:

- `documentation/runbooks/indexer-failure.md:24,45` names the stream
  `indexer:dlq`; the code writes `indexer:jobs:dlq` (`dlq.handler.ts:3`).
- A dead-letter entry replayed with its original fields keeps its attempt number
  3, so it is not retried again.
- `MAX_CONCURRENT_INDEX_JOBS` has no effect above zero: the loop awaits each job.
- `stop()` of the consumer has no caller, so a deployment interrupts jobs like a
  crash does.
- The worker does not subscribe to `scoring:config:reload`.
- `getEffectivePlan` never looks at `currentPeriodEnd`, and no row counts the
  subscriptions of a user: the end of one of two makes the user free.
- `linkWallet` ignores the address and the chain stored with the nonce, and does not
  enqueue the new wallet; the cron does. On the page, `linkWalletWithSiwe` does not await the call, so its
  errors are not mapped to messages; and without a token it signs in instead of linking.
- Dashboard and settings load the profile without a catch and go on loading after an error, and so does a
  removal on the admin page; the wallets page shows the limit of the free plan to everyone.

## 6. Not modelled

Block reorganisations (the chain only grows), several chains of one wallet, a
connection that repeats an `XADD`, batches of several entries in one read, the
text of messages and timestamps. In `ProfileCache` the projection's updates of private metrics
are left out; mock mode and the read by wallet address are not there.
`Accounts` leaves out refused
signatures, billing the period end and subscription id, which nothing reads, the
customer portal, and a second subscription of one customer; `EffectivePlan` reads the two rows in one
moment, as properties of a state do, where `getEffectivePlan` reads the tier an await after the row: a
webhook in between makes it put an old row beside a new tier, for that one answer. In `Registry` the fields of an
entry other than being listed, and a change that is committed while its answer is lost, which leaves the lists
of its own process as stale as those of the others, in `Scoring` risk labels and the labels and
amounts of a contribution, in `Quotas` the layout of the PDF and the cryptography. Of the web
application the pages that only show what they load, and the wallets page, whose calls are
in `Accounts`. The upload of a scoring configuration changes files that the running worker does not
read again. Read-only endpoints (scores, trust), telemetry, health, the
schema and the deployment have no protocol state. Components without a module are listed with the reason in `PROJECT.json`.

## 7. Plan

Done, in this order: the queue and its contract, its proofs, the pipeline on top of
the contract, profile and cache, accounts and billing with their proofs, the
registry, quotas and exports, the analysis of transfers with its scoring, the web
application, and the proofs of section 4: the refinement of the contract, then the safety properties
of every run. Next:

1. Sign-up after a partial failure, as seen from the page: a user without a profile, which
   `Accounts` has and `Web` has not.
2. Several chains of a wallet in `IndexPipeline`, with the scoring over the facts of all.
3. Theorems: `ViewsAgree` and `CursorNeverSkips` for several workers with one wallet each.
