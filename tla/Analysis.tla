------------------------------- MODULE Analysis -------------------------------
(***************************************************************************)
(* What a worker does with the transfers of one job, between resolving the *)
(* range and writing the projection: EthereumIndexerAdapter with its       *)
(* retries, ClassifierService, AggregatesService, scoring, BadgeEvaluator  *)
(* and DaoAggregatorService, each with the registry it loaded once for the *)
(* life of the process.  IndexPipeline has the same job with this part as  *)
(* a function of the range.  No name is one of Registry's, which has the   *)
(* API's side of the same tables, so that one module can speak of both.    *)
(***************************************************************************)
EXTENDS Scoring

CONSTANTS Chains,      \* the sequences of transfers a range may hold
          Votes,       \* votes of the wallet at Snapshot; 0 if it is not enabled
          Age,         \* age of the wallet in days
          Revoked,     \* badges revoked before the worker was started
          MaxJobs,     \* bound: jobs
          MaxChanges,  \* bound: changes of the registry
          MaxErrors    \* bound: exceptions and restarts

\* Transfers that differ in their transaction only.  The wallet is its own counterparty
\* in a transfer to itself.
Peers == {"dao", "governance", "protocol", "router", "person", "many", "self"}
Transfers ==
    {t \in [hash : STRING, dir : {"in", "out", "self"}, peer : Peers,
            value : {"whole", "fraction", "zero"}, m : Nat \ {0}] :
        t.dir = "self" <=> t.peer = "self"}

Parameters ==
    /\ Chains \subseteq Seq(Transfers)
    /\ Votes \in Nat /\ Age \in Nat /\ Revoked \subseteq Codes

\* Transactions of one transfer may be written as a group; one of several, in any mixture of
\* directions, is an element for each transfer.  Every range has this form.
Grouped(c) ==
    \A i, j \in 1..Len(c) : i # j /\ c[i].hash = c[j].hash => c[i].m = 1 /\ c[j].m = 1

ASSUME AnalysisAssumption == Parameters /\ \A c \in Chains : Grouped(c)

VARIABLES
    listed,      \* the active entries of the registry
    known,       \* the classifier's maps
    loaded,      \* the classifier's flag
    treasuries,  \* the aggregator's DAOs
    daosLoaded,
    chain,       \* the transfers of this job's range
    stage,       \* the next await of the job
    tries,       \* failed attempts of the current RPC call
    paused,      \* rateLimitPauseUntil lies ahead
    got,         \* transfers fetched so far
    loads,       \* loads[i]: the registry load that transfer i waits for
    facts,
    inputs, earned,  \* of the scoring: its inputs, the badges its result earns
    awards, pos, \* badge_awards of the wallet, position in the catalog
    jobs, changes, errors,
    steady,      \* history: entries listed ever since the worker started
    absent       \* history: entries not listed since then

registry == <<known, loaded, treasuries, daosLoaded>>
fetch == <<tries, paused, got>>
scoring == <<inputs, earned>>
job == <<chain, fetch, loads, facts, scoring, pos>>
counts == <<jobs, changes, errors>>
analysisVars == <<listed, known, loaded, treasuries, daosLoaded, chain, stage, tries, paused,
                  got, loads, facts, inputs, earned, awards, pos, jobs, changes, errors,
                  steady, absent>>

RegistryTables == {{"protocol", "governance"}, {"dao"}}     \* Protocol and Dao
Entries == UNION RegistryTables
MaxAttempts == 4     \* withRetry
PageSize == 1000     \* maxCount
Threshold == 500     \* HIGH_VOLUME_THRESHOLD
Stages == {"idle", "head", "out", "in", "classify", "store", "awards", "revoke", "dao", "done",
           "failed"}

AnalysisInit ==
    /\ listed \in {Entries, Entries \ {"dao"}}
    /\ known = {} /\ loaded = FALSE /\ treasuries = {} /\ daosLoaded = FALSE
    /\ chain = <<>> /\ stage = "idle" /\ tries = 0 /\ paused = FALSE /\ got = <<>>
    /\ loads = <<>> /\ facts = <<>> /\ inputs = Inputs(<<>>, Age) /\ earned = {}
    /\ awards = [c \in Codes |-> IF c \in Revoked THEN "revoked" ELSE "none"] /\ pos = 0
    /\ jobs = 0 /\ changes = 0 /\ errors = 0
    /\ steady = listed /\ absent = Entries \ listed

BeginJob ==
    /\ stage \in {"idle", "done", "failed"} /\ jobs < MaxJobs /\ jobs' = jobs + 1
    /\ chain' = <<>>
    /\ stage' = "head" /\ tries' = 0 /\ got' = <<>> /\ loads' = <<>> /\ facts' = <<>> /\ pos' = 0
    /\ inputs' = Inputs(<<>>, Age) /\ earned' = {}
    /\ UNCHANGED <<listed, registry, paused, awards, changes, errors, steady, absent>>
----------------------------------------------------------------------------
(* fetchTransactions *)

\* The elements of s at the positions of P, in order.
Chosen(s, P) ==
    LET upTo[n \in 0..Len(s)] ==
            IF n = 0 THEN <<>> ELSE IF n \in P THEN Append(upTo[n - 1], s[n]) ELSE upTo[n - 1]
    IN  upTo[Len(s)]

\* The first n of the facts or transfers that s stands for.
Take(s, n) ==
    LET before(i) == Sum([k \in 1..(i - 1) |-> s[k].m])
        cut == [i \in 1..Len(s) |-> [s[i] EXCEPT !.m = Smaller(@, Larger(0, n - before(i)))]]
    IN  Chosen(cut, {i \in 1..Len(s) : cut[i].m > 0})

\* A single page, whatever else there is.
Page(end) ==
    LET found(t) == IF end = "out" THEN Outgoing(t) ELSE Incoming(t)
    IN  Take(Chosen(chain, {i \in 1..Len(chain) : found(chain[i])}), PageSize)

WithoutDuplicates_None(s) == s

\* A normalized transfer has no log index, so that its hash alone is the key.
Key(t) == t.hash

WithoutDuplicates(s) ==
    Chosen(s, {i \in 1..Len(s) : \A j \in 1..(i - 1) : Key(s[j]) # Key(s[i])})

\* A pause is waited for before a call, not before its retries.
MayCall == stage \in {"head", "out", "in"} /\ (tries = 0 /\ stage # "head" => ~paused)

\* The end of the range, and so what it holds.
LatestBlock ==
    /\ stage = "head" /\ stage' = "out" /\ tries' = 0 /\ chain' \in Chains
    /\ UNCHANGED <<listed, registry, paused, got, loads, facts, scoring, awards, pos, counts, steady, absent>>

\* Classified as the maps are at that moment.
Done(entries) == [step |-> "done", saw |-> entries, left |-> {}]
Asking == [step |-> "ask", saw |-> {}, left |-> RegistryTables]

\* loadRegistry for transfer i: nothing to do, or a query of each table.
Started_FlagsFirst(i) == IF loaded \/ i > 1 THEN Done(known) ELSE Asking
Started(i) == IF loaded THEN Done(known) ELSE Asking

\* classify begins for every transaction at once: no other task runs in between.
Rpc ==
    /\ MayCall /\ stage # "head" /\ tries' = 0
    /\ IF stage = "out"
       THEN got' = Page("out") /\ stage' = "in" /\ UNCHANGED loads
       ELSE /\ \E both \in {got \o Page("in")} : got' = WithoutDuplicates(both)
            /\ stage' = "classify"
            /\ loads' = [i \in 1..Len(got') |-> Started(i)]
    /\ UNCHANGED <<listed, registry, chain, paused, facts, scoring, awards, pos, counts, steady, absent>>

Attempted_LimitsNotCounted(limited) == tries' = IF limited THEN tries ELSE tries + 1
Attempted(limited) == tries' = tries + 1

\* Of the three calls the first does not ask for a pause, nor does a last attempt.
RpcFails(limited) ==
    /\ MayCall /\ Attempted(limited)
    /\ paused' = (paused \/ (limited /\ stage # "head" /\ tries' < MaxAttempts))
    /\ stage' = IF tries' = MaxAttempts THEN "failed" ELSE stage
    /\ UNCHANGED <<listed, registry, chain, got, loads, facts, scoring, awards, pos, counts, steady, absent>>

\* Neither a rate limit nor a lost connection.
RpcRefuses ==
    /\ MayCall /\ stage' = "failed"
    /\ UNCHANGED <<listed, registry, job, awards, counts, steady, absent>>

PauseEnds ==
    /\ paused /\ paused' = FALSE
    /\ UNCHANGED <<listed, registry, chain, stage, tries, got, loads, facts, scoring, awards, pos,
                   counts, steady, absent>>
----------------------------------------------------------------------------
(* classify *)

Category(entry) ==
    CASE entry = "governance" -> "governance"
      [] entry = "protocol" -> "protocol_interaction"
      [] entry = "dao" -> "dao_contribution"
      [] OTHER -> "transfer"

\* The two run at once: the database answers them in any order, each as of its moment.
AnswerOf(i, table) ==
    /\ stage = "classify" /\ table \in loads[i].left
    /\ loads' = [loads EXCEPT ![i].saw = @ \cup (listed \cap table), ![i].left = @ \ {table}]
    /\ UNCHANGED <<listed, registry, chain, stage, fetch, facts, scoring, awards, pos, counts, steady, absent>>

\* Both answers fill the maps, from which nothing is ever removed.
Fill(i) ==
    /\ stage = "classify" /\ loads[i].step = "ask" /\ loads[i].left = {}
    /\ known' = known \cup loads[i].saw /\ loaded' = TRUE
    /\ loads' = [loads EXCEPT ![i] = Done(known')]
    /\ UNCHANGED <<listed, treasuries, daosLoaded, chain, stage, fetch, facts, scoring, awards, pos, counts,
                   steady, absent>>

\* The fact of transfer i, with the maps as its load left them.
Classified(i) ==
    LET e == IF got[i].peer \in loads[i].saw THEN got[i].peer ELSE "none"
    IN  [hash |-> got[i].hash, dir |-> got[i].dir, peer |-> got[i].peer, value |-> got[i].value,
         m |-> got[i].m, recent |-> TRUE, entry |-> e, category |-> Category(e)]

\* fetchVotesByVoter: one page, of all times.
SnapshotVotes == Smaller(1000, Votes)

\* mergeGovernanceFacts: a vote has neither address nor protocol.
Merged(s) ==
    IF SnapshotVotes = 0 THEN s
    ELSE Append(s, [hash |-> "votes", dir |-> "none", peer |-> "none", value |-> "zero",
                    m |-> SnapshotVotes, recent |-> FALSE, entry |-> "none", category |-> "governance"])

\* summarizeIfNeeded; the summary it also makes is not used.
Summarized(s) == Take(s, Threshold)

\* Every transfer is classified.  The spam filter between the two looks at the token,
\* which this adapter never sets.
Collect ==
    /\ stage = "classify" /\ \A i \in DOMAIN loads : loads[i].step = "done"
    /\ \E kept \in {Merged([i \in 1..Len(got) |-> Classified(i)])} : facts' = Summarized(kept)
    /\ inputs' = Inputs(facts', Age)
    /\ stage' = "store" /\ got' = <<>> /\ loads' = <<>>
    /\ UNCHANGED <<listed, registry, chain, tries, paused, earned, awards, pos, counts, steady, absent>>

\* Facts, cursor and snapshot are written (IndexPipeline), with the scores in between.
StoreScores ==
    /\ stage = "store" /\ stage' = "awards" /\ earned' = Earned(inputs)
    /\ UNCHANGED <<listed, registry, chain, fetch, loads, facts, inputs, awards, pos, counts, steady, absent>>
----------------------------------------------------------------------------
(* syncAwards and revokeStaleBadges: one write at a time *)

Award_KeepsRevoked(c) == awards' = [awards EXCEPT ![c] = IF @ = "none" THEN "active" ELSE @]
Award(c) == awards' = [awards EXCEPT ![c] = "active"]

\* The next badge of the catalog that is earned; pos is that of the last one.
SyncAward ==
    LET due == {n \in (pos + 1)..Len(Catalog) : Catalog[n].code \in earned}
    IN  /\ stage = "awards"
        /\ IF due = {} THEN stage' = "revoke" /\ UNCHANGED <<awards, pos>>
           ELSE LET n == CHOOSE n \in due : \A k \in due : n <= k
                IN  Award(Catalog[n].code) /\ pos' = n /\ UNCHANGED stage
        /\ UNCHANGED <<listed, registry, chain, fetch, loads, facts, scoring, counts, steady, absent>>

Revoke ==
    LET stale == {c \in Codes : awards[c] = "active"} \ earned
    IN  /\ stage = "revoke"
        /\ IF stale = {} THEN stage' = "dao" /\ UNCHANGED awards
           ELSE awards' = [awards EXCEPT ![CHOOSE c \in stale : TRUE] = "revoked"] /\ UNCHANGED stage
        /\ UNCHANGED <<listed, registry, job, counts, steady, absent>>
----------------------------------------------------------------------------
(* project, as far as the DAO contributions go *)

\* Without a fact the aggregator is not asked.
Aggregate ==
    /\ stage = "dao"
    /\ IF facts = <<>> \/ daosLoaded THEN UNCHANGED <<treasuries, daosLoaded>>
       ELSE daosLoaded' = TRUE /\ treasuries' = listed \cap {"dao"}
    /\ stage' = IF Unreadable(facts) THEN "failed" ELSE "done"
    /\ UNCHANGED <<listed, known, loaded, job, awards, counts, steady, absent>>
----------------------------------------------------------------------------
(* Around the job *)

\* An admin lists or removes an entry.
Change(e) ==
    /\ changes < MaxChanges /\ changes' = changes + 1
    /\ listed' = IF e \in listed THEN listed \ {e} ELSE listed \cup {e}
    /\ steady' = steady \ {e} /\ absent' = absent \ {e}
    /\ UNCHANGED <<registry, job, stage, awards, jobs, errors>>

\* The database throws.
Throw ==
    /\ stage \in {"classify", "store", "awards", "revoke", "dao"}
    /\ errors < MaxErrors /\ errors' = errors + 1 /\ stage' = "failed"
    /\ UNCHANGED <<listed, registry, job, awards, jobs, changes, steady, absent>>

RestartWorker ==
    /\ errors < MaxErrors /\ errors' = errors + 1 /\ stage' = "idle"
    /\ known' = {} /\ loaded' = FALSE /\ treasuries' = {} /\ daosLoaded' = FALSE
    /\ paused' = FALSE /\ steady' = listed /\ absent' = Entries \ listed
    /\ chain' = <<>> /\ tries' = 0 /\ got' = <<>> /\ loads' = <<>> /\ facts' = <<>> /\ pos' = 0
    /\ inputs' = Inputs(<<>>, Age) /\ earned' = {}
    /\ UNCHANGED <<listed, awards, jobs, changes>>

Step ==
    \/ LatestBlock \/ Rpc \/ RpcFails(TRUE) \/ RpcFails(FALSE) \/ RpcRefuses
    \/ Collect \/ StoreScores \/ SyncAward \/ Revoke \/ Aggregate
    \/ \E i \in DOMAIN loads :
          Fill(i) \/ \E table \in RegistryTables : AnswerOf(i, table)

AnalysisNext ==
    \/ BeginJob \/ Step \/ PauseEnds \/ Throw \/ RestartWorker \/ \E e \in Entries : Change(e)

AnalysisSpec == AnalysisInit /\ [][AnalysisNext]_analysisVars

\* The job goes on (a call to the node has an end, good or bad) and time passes.
FairAnalysisSpec == AnalysisSpec /\ WF_analysisVars(Step) /\ WF_analysisVars(PauseEnds)
----------------------------------------------------------------------------
(* Properties *)

\* From here to the end of the job facts and inputs stay as they are.
Collected == stage = "store"

\* Transactions of the range, each at the position i that satisfies Test.
Counted(Test(_)) == Total([i \in 1..Len(chain) |-> IF Test(i) THEN chain[i] ELSE [chain[i] EXCEPT !.m = 0]])
Transactions == Counted(LAMBDA i : \A j \in 1..(i - 1) : chain[j].hash # chain[i].hash)

\* Those whose first transfer out of the wallet goes back to it.
SelfTransactions ==
    Counted(LAMBDA i : /\ chain[i].dir = "self"
                       /\ \A j \in 1..(i - 1) : chain[j].hash = chain[i].hash => chain[j].dir = "in")

WholePages == Count(chain, Outgoing) <= PageSize /\ Count(chain, Incoming) <= PageSize

\* Two calls, one for each direction, and the removal of duplicates never give more than
\* one fact for a transaction, and exactly one up to the threshold unless a page was full.
\* A wallet is then reported for self-transfers if and only if more than five transactions
\* begin by paying itself, although both calls return each of them.
FactsComplete ==
    Collected =>
        /\ Total(facts) <= Smaller(Threshold, Transactions + Votes)
        /\ WholePages => Total(facts) = Smaller(Threshold, Transactions + Votes)
        /\ WholePages /\ Transactions + Votes <= Threshold =>
              ("high_self_transfer" \in Flags(facts) <=> SelfTransactions > 5)

\* Whichever of the loads that run at once comes first, no fact is classified
\* without an entry that was listed all the time, nor with one that never was.
RegistryRespected ==
    Collected => \A f \in Range(facts) :
        /\ f.peer \in steady => f.entry = f.peer
        /\ f.peer \in absent => f.entry = "none"

\* What the profile shows as received from a DAO and what the score counts of it are two
\* readings of the same facts, by classifier and aggregator, each with its own copy of the
\* registry: they differ by the payments to the DAO or of nothing, which only the score
\* counts, and by those inferred from a router, which only the profile shows.
ContributionsBacked ==
    (stage = "done" /\ "dao" \in steady \cup absent) =>
        DaoRow(facts, treasuries).payments
          + Count(facts, LAMBDA f : /\ f.category = "dao_contribution"
                                    /\ ~ (Incoming(f) /\ f.value = "whole"))
        = inputs.daoPayments
          + Count(facts, LAMBDA f : /\ f.peer = "router" /\ "dao" \in steady
                                    /\ Incoming(f) /\ f.value = "whole")

\* One more vote never lowers the index, although it also adds a transaction.
VotingNeverHurts ==
    Collected =>
        LET vote == [facts[1] EXCEPT !.dir = "out", !.peer = "governance", !.m = 1,
                                     !.category = "governance", !.entry = "governance"]
        IN  facts # <<>> => Score(Inputs(Append(facts, vote), Age)).index >= Score(inputs).index

\* After the awards were written the wallet holds the badges of this scoring, whatever
\* earlier jobs, also those that stopped half way, left behind.
BadgesFollowScore ==
    stage \in {"dao", "done"} => {c \in Codes : awards[c] = "active"} = earned

\* A job comes to its end, however often the node limits the rate.
AnalysisEnds == stage # "idle" ~> stage \in {"idle", "done", "failed"}
==============================================================================
