------------------------- MODULE IndexPipelineProofs -------------------------
(***************************************************************************)
(* Machine-checked proofs about IndexPipeline, for every set of jobs, any  *)
(* number of workers, attempts, exceptions and crashes, and every chain.   *)
(***************************************************************************)
EXTENDS IndexPipeline, FiniteSetTheorems, TLAPS

----------------------------------------------------------------------------
(* Types, and who has a job *)

Snapshot == [run : Runs, inputs : SUBSET Blocks]
Local == [from : 0..(MaxHead + 1), to : Blocks, seen : ProfileStatus, badges : SUBSET Blocks]

\* A job is in work exactly when a worker is at one of its awaits, and has been tried.
Hands ==
    \A j \in Jobs : /\ at[j] # None <=> phase[j] = "running"
                    /\ phase[j] \in {"queued", "running"} => tries[j] # 0

\* Nothing is indexed for a removed wallet.
Gone ==
    ~linked => /\ snapshots = << >> /\ cursor = NoBlock
               /\ \A r \in Runs : runs[r] = None

\* The cursor stays on the chain.
Base == TypeOK /\ Hands /\ Gone

LEMMA Constants ==
    /\ MaxAttempts \in Nat \ {0} /\ MaxHead \in Nat /\ StartHead \in Nat /\ StartHead <= MaxHead
    /\ Lookback \in Nat /\ ApiJobs \subseteq Jobs /\ CronJobs \subseteq Jobs
    /\ Jobs = ApiJobs \cup CronJobs /\ Blocks = 0..MaxHead
  BY PipelineAssumption DEF Blocks

\* The run that a job in work writes.
LEMMA RunType ==
    ASSUME Base, NEW j \in Jobs, at[j] # None \/ phase[j] \in {"queued", "running"}
    PROVE  RunOf(j) \in Runs
  <1>1. tries[j] \in 0..MaxAttempts /\ tries[j] # 0
    BY DEF Base, TypeOK, Hands
  <1>2. tries[j] \in 1..MaxAttempts /\ 1 \in 1..MaxAttempts
    BY <1>1, Constants
  <1>. QED
    BY <1>2 DEF RunOf, Runs

LEMMA FetchedType == ASSUME Base, NEW j \in Jobs PROVE Fetched(j) \in SUBSET Blocks
  BY DEF Base, TypeOK, Fetched

LEMMA AwaitNames ==
    /\ TryAwaits \subseteq Awaits /\ None \in Awaits
    /\ {"load", "findRun", "failRun", "failProfile", "threw", "returned"} \subseteq Awaits
    /\ None \notin TryAwaits
    /\ None \notin {"load", "findRun", "failRun", "failProfile", "threw", "returned"}
  BY DEF Awaits, TryAwaits, None

----------------------------------------------------------------------------
(* What the steps leave alone *)

\* Job j goes on to its next await; no other job moves.
Goes(j, here, next) ==
    /\ at[j] = here /\ at'[j] = next /\ at' \in [Jobs -> Awaits]
    /\ \A k \in Jobs \ {j} : at'[k] = at[k]

\* An await of processJob: delivery, chain and callers stay.
LEMMA Awaiting ==
    ASSUME Base, NEW j \in Jobs, NEW here, NEW next \in Awaits, Await(j, here, next)
    PROVE  /\ Goes(j, here, next)
           /\ UNCHANGED <<phase, tries, head, activity, api, failures, faults>>
  BY DEF Base, TypeOK, Await, Goes, deliveryVars, chainVars, budget

\* The range that a job found stays as the chain grows.
Inside(j) == loc[j].to <= head

LEMMA LocSet ==
    ASSUME Base, NEW j \in Jobs, NEW l \in Local, loc' = [loc EXCEPT ![j] = l]
    PROVE  loc' \in [Jobs -> Local] /\ loc'[j] = l /\ \A k \in Jobs \ {j} : loc'[k] = loc[k]
  BY DEF Base, TypeOK, Local

LEMMA RunSet ==
    ASSUME Base, NEW r \in Runs, NEW s \in RunStatus, runs' = [runs EXCEPT ![r] = s]
    PROVE  runs' \in [Runs -> RunStatus] /\ runs'[r] = s /\ \A q \in Runs \ {r} : runs'[q] = runs[q]
  BY DEF Base, TypeOK

\* What an await of processJob has to keep.
LEMMA Closing ==
    ASSUME Base, NEW j \in Jobs, NEW here, NEW next \in Awaits, Await(j, here, next),
           here # None, next # None, linked' = linked,
           runs' \in [Runs -> RunStatus], cursor' \in Blocks \cup {NoBlock},
           snapshots' \in Seq(Snapshot), facts' \subseteq Blocks, awarded' \subseteq Blocks,
           ~linked => runs' = runs /\ cursor' = cursor /\ snapshots' = snapshots,
           status' \in ProfileStatus, loc' \in [Jobs -> Local],
           payload' \in [inputs : SUBSET Blocks, badges : SUBSET Blocks,
                         status : ProfileStatus \cup {None}]
    PROVE  Base'
  <1>1. /\ Goes(j, here, next)
        /\ UNCHANGED <<phase, tries, head, activity, api, failures, faults>>
    BY Awaiting
  <1>2. TypeOK'
    BY <1>1 DEF Base, TypeOK, Goes, Snapshot, Local
  <1>3. Hands'
    BY <1>1 DEF Base, Hands, Goes
  <1>4. Gone'
    BY DEF Base, Gone
  <1>. QED
    BY <1>2, <1>3, <1>4 DEF Base

\* The types of what an await may leave alone.
LEMMA Parts ==
    ASSUME Base
    PROVE  /\ runs \in [Runs -> RunStatus] /\ cursor \in Blocks \cup {NoBlock}
           /\ snapshots \in Seq(Snapshot) /\ facts \subseteq Blocks /\ awarded \subseteq Blocks
           /\ status \in ProfileStatus /\ loc \in [Jobs -> Local]
           /\ payload \in [inputs : SUBSET Blocks, badges : SUBSET Blocks,
                           status : ProfileStatus \cup {None}]
           /\ \A j \in Jobs : loc[j] \in Local /\ loc[j].from \in 0..(MaxHead + 1)
                              /\ loc[j].to \in Blocks /\ loc[j].seen \in ProfileStatus
                              /\ loc[j].badges \in SUBSET Blocks
           /\ head \in Blocks /\ linked \in BOOLEAN
  <1>1. /\ runs \in [Runs -> RunStatus] /\ cursor \in Blocks \cup {NoBlock}
        /\ snapshots \in Seq(Snapshot) /\ facts \subseteq Blocks /\ awarded \subseteq Blocks
        /\ status \in ProfileStatus /\ loc \in [Jobs -> Local]
        /\ payload \in [inputs : SUBSET Blocks, badges : SUBSET Blocks,
                        status : ProfileStatus \cup {None}]
        /\ linked \in BOOLEAN
    BY DEF Base, TypeOK, Snapshot, Local
  <1>2. \A j \in Jobs : loc[j] \in Local /\ loc[j].from \in 0..(MaxHead + 1)
                        /\ loc[j].to \in Blocks /\ loc[j].seen \in ProfileStatus
                        /\ loc[j].badges \in SUBSET Blocks
    BY <1>1 DEF Local
  <1>3. head \in Blocks
    BY Constants DEF Base, TypeOK
  <1>. QED
    BY <1>1, <1>2, <1>3

----------------------------------------------------------------------------
(* The awaits of processJob *)

Elsewhere == UNCHANGED <<phase, tries, head, activity, api, failures, faults>>

\* The run of job j has status s, and the others what they had.
Wrote(j, s) == runs'[RunOf(j)] = s /\ \A r \in Runs \ {RunOf(j)} : runs'[r] = runs[r]

LEMMA Writing ==
    ASSUME Base, NEW j \in Jobs, at[j] # None, NEW s \in RunStatus,
           runs' = [runs EXCEPT ![RunOf(j)] = s]
    PROVE  runs' \in [Runs -> RunStatus] /\ Wrote(j, s)
  <1>1. PICK r \in Runs : r = RunOf(j)
    BY RunType
  <1>2. runs' = [runs EXCEPT ![r] = s]
    BY <1>1
  <1>3. runs' \in [Runs -> RunStatus] /\ runs'[r] = s /\ \A q \in Runs \ {r} : runs'[q] = runs[q]
    BY <1>2, RunSet
  <1>. QED
    BY <1>1, <1>3 DEF Wrote

LEMMA LoadWalletEffect ==
    ASSUME Base, NEW j \in Jobs, LoadWallet(j)
    PROVE  /\ Base' /\ Elsewhere
           /\ UNCHANGED <<linked, runs, cursor, facts, snapshots, awarded, status, payload, loc>>
           /\ linked => Goes(j, "load", "findRun")
           /\ ~linked => Goes(j, "load", "returned")
  <1>1. /\ UNCHANGED <<linked, runs, cursor, facts, snapshots, awarded, status, payload, loc>>
        /\ "load" # None /\ {"findRun", "returned"} \subseteq Awaits
        /\ "findRun" # None /\ "returned" # None
    BY DEF LoadWallet, walletVars, profileVars, Awaits, None
  <1>2. CASE linked
    <2>1. Await(j, "load", "findRun")
      BY <1>2 DEF LoadWallet
    <2>. QED
      BY <1>1, <1>2, <2>1, Parts, Closing, Awaiting DEF Elsewhere
  <1>3. CASE ~linked
    <2>1. Await(j, "load", "returned")
      BY <1>3 DEF LoadWallet
    <2>. QED
      BY <1>1, <1>3, <2>1, Parts, Closing, Awaiting DEF Elsewhere
  <1>. QED
    BY <1>2, <1>3

LEMMA LoadRunEffect ==
    ASSUME Base, NEW j \in Jobs, LoadRun(j)
    PROVE  /\ Base' /\ Elsewhere
           /\ UNCHANGED <<linked, cursor, facts, snapshots, awarded, status, payload, loc>>
           /\ \/ Goes(j, "findRun", "head") /\ runs' = runs /\ j \in ApiJobs
              \/ Goes(j, "findRun", "head") /\ linked /\ Wrote(j, "pending")
              \/ /\ Goes(j, "findRun", "returned") /\ runs' = runs
                 /\ j \in ApiJobs /\ runs[RunOf(j)] = None
              \/ Goes(j, "findRun", "threw") /\ runs' = runs /\ ~linked
  <1>1. /\ UNCHANGED <<linked, cursor, facts, snapshots, awarded, status, payload, loc>>
        /\ "findRun" # None /\ {"head", "returned", "threw"} \subseteq Awaits
        /\ "head" # None /\ "returned" # None /\ "threw" # None
    BY DEF LoadRun, profileVars, Awaits, TryAwaits, None
  <1>2. CASE j \in ApiJobs
    <2>1. PICK next \in {"head", "returned"} :
              /\ Await(j, "findRun", next) /\ runs' = runs
              /\ next = "returned" => runs[RunOf(j)] = None
      BY <1>2 DEF LoadRun
    <2>2. Base'
      BY <1>1, <2>1, Parts, Closing
    <2>3. Goes(j, "findRun", next) /\ Elsewhere
      BY <1>1, <2>1, Awaiting DEF Elsewhere
    <2>. QED
      BY <1>1, <1>2, <2>1, <2>2, <2>3
  <1>3. CASE j \notin ApiJobs /\ linked
    <2>1. Await(j, "findRun", "head") /\ runs' = [runs EXCEPT ![RunOf(j)] = "pending"]
      BY <1>3 DEF LoadRun
    <2>2. Goes(j, "findRun", "head") /\ Elsewhere
      BY <1>1, <2>1, Awaiting DEF Elsewhere
    <2>3. at[j] # None /\ "pending" \in RunStatus
      BY <1>1, <2>2 DEF Goes, RunStatus
    <2>4. runs' \in [Runs -> RunStatus] /\ Wrote(j, "pending")
      BY <2>1, <2>3, Writing
    <2>5. Base'
      BY <1>1, <1>3, <2>1, <2>4, Parts, Closing
    <2>. QED
      BY <1>1, <1>3, <2>2, <2>4, <2>5
  <1>4. CASE j \notin ApiJobs /\ ~linked
    <2>1. Await(j, "findRun", "threw") /\ runs' = runs
      BY <1>4 DEF LoadRun
    <2>2. Base'
      BY <1>1, <2>1, Parts, Closing
    <2>3. Goes(j, "findRun", "threw") /\ Elsewhere
      BY <1>1, <2>1, Awaiting DEF Elsewhere
    <2>. QED
      BY <1>1, <1>4, <2>1, <2>2, <2>3
  <1>. QED
    BY <1>2, <1>3, <1>4

LEMMA ReadHeadEffect ==
    ASSUME Base, NEW j \in Jobs, ReadHead(j)
    PROVE  /\ Base' /\ Elsewhere /\ Goes(j, "head", "cursor")
           /\ UNCHANGED <<linked, runs, cursor, facts, snapshots, awarded, status, payload>>
           /\ loc'[j].to = head /\ \A k \in Jobs \ {j} : loc'[k] = loc[k]
  <1>1. /\ Await(j, "head", "cursor") /\ loc' = [loc EXCEPT ![j].to = head]
        /\ UNCHANGED <<linked, runs, cursor, facts, snapshots, awarded, status, payload>>
        /\ "cursor" \in Awaits /\ "cursor" # None /\ "head" # None
    BY DEF ReadHead, walletVars, profileVars, Awaits, TryAwaits, None
  <1>. DEFINE l == [loc[j] EXCEPT !.to = head]
  <1>2. l \in Local /\ l.to = head
    BY Parts DEF Local
  <1>3. loc' = [loc EXCEPT ![j] = l]
    BY <1>1
  <1>. HIDE DEF l
  <1>4. loc' \in [Jobs -> Local] /\ loc'[j] = l /\ \A k \in Jobs \ {j} : loc'[k] = loc[k]
    BY <1>2, <1>3, LocSet
  <1>5. Base'
    BY <1>1, <1>4, Parts, Closing
  <1>. QED
    BY <1>1, <1>2, <1>4, <1>5, Awaiting DEF Elsewhere

LEMMA FromType ==
    ASSUME Base, NEW to \in Blocks
    PROVE  /\ FromBlock(to) \in 0..(MaxHead + 1)
           /\ cursor # NoBlock => FromBlock(to) = cursor + 1
           /\ cursor = NoBlock => FromBlock(to) = 0 \/ FromBlock(to) = to - Lookback
  BY Constants, Parts DEF FromBlock, FirstBlock

LEMMA ReadCursorEffect ==
    ASSUME Base, NEW j \in Jobs, ReadCursor(j)
    PROVE  /\ Base' /\ Elsewhere /\ Goes(j, "cursor", "mark")
           /\ UNCHANGED <<linked, runs, cursor, facts, snapshots, awarded, status, payload>>
           /\ loc'[j].from = FromBlock(loc[j].to) /\ loc'[j].to = loc[j].to
           /\ \A k \in Jobs \ {j} : loc'[k] = loc[k]
  <1>1. /\ Await(j, "cursor", "mark") /\ loc' = [loc EXCEPT ![j].from = FromBlock(loc[j].to)]
        /\ UNCHANGED <<linked, runs, cursor, facts, snapshots, awarded, status, payload>>
        /\ "mark" \in Awaits /\ "mark" # None /\ "cursor" # None
    BY DEF ReadCursor, walletVars, profileVars, Awaits, TryAwaits, None
  <1>2. PICK f \in 0..(MaxHead + 1) : f = FromBlock(loc[j].to)
    BY Parts, FromType
  <1>. DEFINE l == [loc[j] EXCEPT !.from = f]
  <1>3. l \in Local /\ l.from = f /\ l.to = loc[j].to
    BY Parts DEF Local
  <1>4. loc' = [loc EXCEPT ![j] = l]
    BY <1>1, <1>2
  <1>. HIDE DEF l
  <1>5. loc' \in [Jobs -> Local] /\ loc'[j] = l /\ \A k \in Jobs \ {j} : loc'[k] = loc[k]
    BY <1>3, <1>4, LocSet
  <1>6. Base'
    BY <1>1, <1>5, Parts, Closing
  <1>. QED
    BY <1>1, <1>2, <1>3, <1>5, <1>6, Awaiting DEF Elsewhere

\* Mark, Complete and FailRun: a status for the run, if the row is there.
LEMMA MarkEffect ==
    ASSUME Base, NEW j \in Jobs, Mark(j)
    PROVE  /\ Base' /\ Elsewhere
           /\ UNCHANGED <<linked, cursor, facts, snapshots, awarded, status, payload, loc>>
           /\ linked => Goes(j, "mark", "reconcile") /\ Wrote(j, "running")
           /\ ~linked => Goes(j, "mark", "failRun") /\ runs' = runs
  <1>1. /\ UNCHANGED <<linked, cursor, facts, snapshots, awarded, status, payload, loc>>
        /\ "mark" # None /\ {"reconcile", "failRun"} \subseteq Awaits
        /\ "reconcile" # None /\ "failRun" # None
    BY DEF Mark, profileVars, Awaits, TryAwaits, None
  <1>2. CASE linked
    <2>1. Await(j, "mark", "reconcile") /\ runs' = [runs EXCEPT ![RunOf(j)] = "running"]
      BY <1>2 DEF Mark, IfLinked
    <2>2. Goes(j, "mark", "reconcile") /\ Elsewhere
      BY <1>1, <2>1, Awaiting DEF Elsewhere
    <2>3. at[j] # None /\ "running" \in RunStatus
      BY <1>1, <2>2 DEF Goes, RunStatus
    <2>4. runs' \in [Runs -> RunStatus] /\ Wrote(j, "running")
      BY <2>1, <2>3, Writing
    <2>5. Base'
      BY <1>1, <1>2, <2>1, <2>4, Parts, Closing
    <2>. QED
      BY <1>1, <1>2, <2>2, <2>4, <2>5
  <1>3. CASE ~linked
    <2>1. Await(j, "mark", "failRun") /\ runs' = runs
      BY <1>3 DEF Mark, IfLinked
    <2>. QED
      BY <1>1, <1>3, <2>1, Parts, Closing, Awaiting DEF Elsewhere
  <1>. QED
    BY <1>2, <1>3

LEMMA CompleteEffect ==
    ASSUME Base, NEW j \in Jobs, Complete(j)
    PROVE  /\ Base' /\ Elsewhere
           /\ UNCHANGED <<linked, cursor, facts, snapshots, awarded, status, payload, loc>>
           /\ linked => Goes(j, "complete", "activate") /\ Wrote(j, "completed")
           /\ ~linked => Goes(j, "complete", "failRun") /\ runs' = runs
  <1>1. /\ UNCHANGED <<linked, cursor, facts, snapshots, awarded, status, payload, loc>>
        /\ "complete" # None /\ {"activate", "failRun"} \subseteq Awaits
        /\ "activate" # None /\ "failRun" # None
    BY DEF Complete, profileVars, Awaits, TryAwaits, None
  <1>2. CASE linked
    <2>1. Await(j, "complete", "activate") /\ runs' = [runs EXCEPT ![RunOf(j)] = "completed"]
      BY <1>2 DEF Complete, IfLinked
    <2>2. Goes(j, "complete", "activate") /\ Elsewhere
      BY <1>1, <2>1, Awaiting DEF Elsewhere
    <2>3. at[j] # None /\ "completed" \in RunStatus
      BY <1>1, <2>2 DEF Goes, RunStatus
    <2>4. runs' \in [Runs -> RunStatus] /\ Wrote(j, "completed")
      BY <2>1, <2>3, Writing
    <2>5. Base'
      BY <1>1, <1>2, <2>1, <2>4, Parts, Closing
    <2>. QED
      BY <1>1, <1>2, <2>2, <2>4, <2>5
  <1>3. CASE ~linked
    <2>1. Await(j, "complete", "failRun") /\ runs' = runs
      BY <1>3 DEF Complete, IfLinked
    <2>. QED
      BY <1>1, <1>3, <2>1, Parts, Closing, Awaiting DEF Elsewhere
  <1>. QED
    BY <1>2, <1>3

LEMMA FailRunEffect ==
    ASSUME Base, NEW j \in Jobs, FailRun(j)
    PROVE  /\ Base' /\ Elsewhere
           /\ UNCHANGED <<linked, cursor, facts, snapshots, awarded, status, payload, loc>>
           /\ linked => Goes(j, "failRun", "failProfile") /\ Wrote(j, "failed")
           /\ ~linked => Goes(j, "failRun", "threw") /\ runs' = runs
  <1>1. /\ UNCHANGED <<linked, cursor, facts, snapshots, awarded, status, payload, loc>>
        /\ "failRun" # None /\ {"failProfile", "threw"} \subseteq Awaits
        /\ "failProfile" # None /\ "threw" # None
    BY DEF FailRun, profileVars, Awaits, None
  <1>2. CASE linked
    <2>1. Await(j, "failRun", "failProfile") /\ runs' = [runs EXCEPT ![RunOf(j)] = "failed"]
      BY <1>2 DEF FailRun
    <2>2. Goes(j, "failRun", "failProfile") /\ Elsewhere
      BY <1>1, <2>1, Awaiting DEF Elsewhere
    <2>3. at[j] # None /\ "failed" \in RunStatus
      BY <1>1, <2>2 DEF Goes, RunStatus
    <2>4. runs' \in [Runs -> RunStatus] /\ Wrote(j, "failed")
      BY <2>1, <2>3, Writing
    <2>5. Base'
      BY <1>1, <1>2, <2>1, <2>4, Parts, Closing
    <2>. QED
      BY <1>1, <1>2, <2>2, <2>4, <2>5
  <1>3. CASE ~linked
    <2>1. Await(j, "failRun", "threw") /\ runs' = runs
      BY <1>3 DEF FailRun
    <2>. QED
      BY <1>1, <1>3, <2>1, Parts, Closing, Awaiting DEF Elsewhere
  <1>. QED
    BY <1>2, <1>3

LEMMA ReconcileEffect ==
    ASSUME Base, NEW j \in Jobs, Reconcile(j)
    PROVE  /\ Base' /\ Elsewhere /\ Goes(j, "reconcile", "store") /\ facts' \subseteq facts
           /\ UNCHANGED <<linked, runs, cursor, snapshots, awarded, status, payload, loc>>
  <1>1. /\ UNCHANGED <<linked, runs, cursor, snapshots, awarded, status, payload, loc>>
        /\ Await(j, "reconcile", "store") /\ facts' \subseteq facts
        /\ "store" \in Awaits /\ "store" # None /\ "reconcile" # None
    BY DEF Reconcile, profileVars, Awaits, TryAwaits, None
  <1>. QED
    BY <1>1, Parts, Closing, Awaiting DEF Elsewhere

LEMMA StoreEffect ==
    ASSUME Base, NEW j \in Jobs, Store(j)
    PROVE  /\ Base' /\ Elsewhere
           /\ UNCHANGED <<linked, runs, cursor, snapshots, awarded, status, payload, loc>>
           /\ \/ Goes(j, "store", "advance") /\ facts' = facts \cup Fetched(j)
              \/ /\ Goes(j, "store", "failRun") /\ facts' = facts
                 /\ Fetched(j) # {} /\ ~(linked /\ NullKeyOk)
  <1>1. /\ UNCHANGED <<linked, runs, cursor, snapshots, awarded, status, payload, loc>>
        /\ {"advance", "failRun"} \subseteq Awaits
        /\ "advance" # None /\ "failRun" # None /\ "store" # None
    BY DEF Store, profileVars, Awaits, TryAwaits, None
  <1>2. CASE Fetched(j) = {} \/ (linked /\ NullKeyOk)
    <2>1. Await(j, "store", "advance") /\ facts' = facts \cup Fetched(j)
      BY <1>2 DEF Store
    <2>2. facts' \subseteq Blocks
      BY <2>1, Parts, FetchedType
    <2>. QED
      BY <1>1, <2>1, <2>2, Parts, Closing, Awaiting DEF Elsewhere
  <1>3. CASE ~(Fetched(j) = {} \/ (linked /\ NullKeyOk))
    <2>1. Await(j, "store", "failRun") /\ facts' = facts
      BY <1>3 DEF Store
    <2>. QED
      BY <1>1, <1>3, <2>1, Parts, Closing, Awaiting DEF Elsewhere
  <1>. QED
    BY <1>2, <1>3

LEMMA AdvanceEffect ==
    ASSUME Base, NEW j \in Jobs, Advance(j)
    PROVE  /\ Base' /\ Elsewhere
           /\ UNCHANGED <<linked, runs, facts, snapshots, awarded, status, payload, loc>>
           /\ linked => Goes(j, "advance", "snapshot") /\ cursor' = loc[j].to
           /\ ~linked => Goes(j, "advance", "failRun") /\ cursor' = cursor
  <1>1. /\ UNCHANGED <<linked, runs, facts, snapshots, awarded, status, payload, loc>>
        /\ {"snapshot", "failRun"} \subseteq Awaits
        /\ "snapshot" # None /\ "failRun" # None /\ "advance" # None
    BY DEF Advance, profileVars, Awaits, TryAwaits, None
  <1>2. CASE linked
    <2>1. Await(j, "advance", "snapshot") /\ cursor' = loc[j].to
      BY <1>2 DEF Advance, IfLinked
    <2>2. Base'
      BY <1>1, <1>2, <2>1, Parts, Closing
    <2>. QED
      BY <1>1, <1>2, <2>1, <2>2, Awaiting DEF Elsewhere
  <1>3. CASE ~linked
    <2>1. Await(j, "advance", "failRun") /\ cursor' = cursor
      BY <1>3 DEF Advance, IfLinked
    <2>2. Base'
      BY <1>1, <1>3, <2>1, Parts, Closing
    <2>. QED
      BY <1>1, <1>3, <2>1, <2>2, Awaiting DEF Elsewhere
  <1>. QED
    BY <1>2, <1>3

\* The snapshot that job j takes now.
Taken(j) == [run |-> RunOf(j), inputs |-> Fetched(j)]

LEMMA TakenType == ASSUME Base, NEW j \in Jobs, at[j] # None PROVE Taken(j) \in Snapshot
  BY RunType, FetchedType DEF Taken, Snapshot

LEMMA PersistEffect ==
    ASSUME Base, NEW j \in Jobs, Persist(j)
    PROVE  /\ Base' /\ Elsewhere
           /\ UNCHANGED <<linked, runs, cursor, facts, awarded, status, payload, loc>>
           /\ linked => /\ Goes(j, "snapshot", "badges") /\ Taken(j) \in Snapshot
                        /\ snapshots' = Append(snapshots, Taken(j))
           /\ ~linked => Goes(j, "snapshot", "failRun") /\ snapshots' = snapshots
  <1>1. /\ UNCHANGED <<linked, runs, cursor, facts, awarded, status, payload, loc>>
        /\ {"badges", "failRun"} \subseteq Awaits
        /\ "badges" # None /\ "failRun" # None /\ "snapshot" # None
    BY DEF Persist, profileVars, Awaits, TryAwaits, None
  <1>2. CASE linked
    <2>1. Await(j, "snapshot", "badges") /\ snapshots' = Append(snapshots, Taken(j))
      BY <1>2 DEF Persist, IfLinked, Taken
    <2>2. Goes(j, "snapshot", "badges") /\ Elsewhere
      BY <1>1, <2>1, Awaiting DEF Elsewhere
    <2>3. Taken(j) \in Snapshot
      BY <1>1, <2>2, TakenType DEF Goes
    <2>4. snapshots' \in Seq(Snapshot)
      <3>1. snapshots \in Seq(Snapshot)
        BY Parts
      <3>. QED
        BY <2>1, <2>3, <3>1
    <2>5. Base'
      BY <1>1, <1>2, <2>1, <2>4, Parts, Closing
    <2>. QED
      BY <1>1, <1>2, <2>1, <2>2, <2>3, <2>5
  <1>3. CASE ~linked
    <2>1. Await(j, "snapshot", "failRun") /\ snapshots' = snapshots
      BY <1>3 DEF Persist, IfLinked
    <2>2. Base'
      BY <1>1, <1>3, <2>1, Parts, Closing
    <2>. QED
      BY <1>1, <1>3, <2>1, <2>2, Awaiting DEF Elsewhere
  <1>. QED
    BY <1>2, <1>3

LEMMA SyncAwardsEffect ==
    ASSUME Base, NEW j \in Jobs, SyncAwards(j)
    PROVE  /\ Base' /\ Elsewhere
           /\ UNCHANGED <<linked, runs, cursor, facts, snapshots, status, payload, loc>>
           /\ \/ Goes(j, "badges", "project") /\ (linked => awarded' = Fetched(j))
              \/ Goes(j, "badges", "failRun") /\ ~linked
  <1>1. /\ UNCHANGED <<linked, runs, cursor, facts, snapshots, status, payload, loc>>
        /\ {"project", "failRun"} \subseteq Awaits
        /\ "project" # None /\ "failRun" # None /\ "badges" # None
    BY DEF SyncAwards, profileVars, Awaits, TryAwaits, None
  <1>2. awarded' \subseteq Blocks /\ (linked => awarded' = Fetched(j))
    BY Parts, FetchedType DEF SyncAwards
  <1>3. PICK next \in {"project", "failRun"} :
            Await(j, "badges", next) /\ (next = "failRun" => ~linked)
    BY DEF SyncAwards
  <1>4. Base'
    BY <1>1, <1>2, <1>3, Parts, Closing
  <1>. QED
    BY <1>1, <1>2, <1>3, <1>4, Awaiting DEF Elsewhere

LEMMA ReadProfileEffect ==
    ASSUME Base, NEW j \in Jobs, ReadProfile(j)
    PROVE  /\ Base' /\ Elsewhere /\ Goes(j, "project", "awards")
           /\ UNCHANGED <<linked, runs, cursor, facts, snapshots, awarded, status, payload>>
           /\ loc'[j].from = loc[j].from /\ loc'[j].to = loc[j].to
           /\ \A k \in Jobs \ {j} : loc'[k] = loc[k]
  <1>1. /\ Await(j, "project", "awards") /\ loc' = [loc EXCEPT ![j].seen = status]
        /\ UNCHANGED <<linked, runs, cursor, facts, snapshots, awarded, status, payload>>
        /\ "awards" \in Awaits /\ "awards" # None /\ "project" # None
    BY DEF ReadProfile, walletVars, profileVars, Awaits, TryAwaits, None
  <1>. DEFINE l == [loc[j] EXCEPT !.seen = status]
  <1>2. l \in Local /\ l.from = loc[j].from /\ l.to = loc[j].to
    BY Parts DEF Local
  <1>3. loc' = [loc EXCEPT ![j] = l]
    BY <1>1
  <1>. HIDE DEF l
  <1>4. loc' \in [Jobs -> Local] /\ loc'[j] = l /\ \A k \in Jobs \ {j} : loc'[k] = loc[k]
    BY <1>2, <1>3, LocSet
  <1>5. Base'
    BY <1>1, <1>4, Parts, Closing
  <1>. QED
    BY <1>1, <1>2, <1>4, <1>5, Awaiting DEF Elsewhere

LEMMA ReadAwardsEffect ==
    ASSUME Base, NEW j \in Jobs, ReadAwards(j)
    PROVE  /\ Base' /\ Elsewhere /\ Goes(j, "awards", "dao")
           /\ UNCHANGED <<linked, runs, cursor, facts, snapshots, awarded, status, payload>>
           /\ loc'[j].from = loc[j].from /\ loc'[j].to = loc[j].to /\ loc'[j].badges = awarded
           /\ \A k \in Jobs \ {j} : loc'[k] = loc[k]
  <1>1. /\ Await(j, "awards", "dao") /\ loc' = [loc EXCEPT ![j].badges = awarded]
        /\ UNCHANGED <<linked, runs, cursor, facts, snapshots, awarded, status, payload>>
        /\ "dao" \in Awaits /\ "dao" # None /\ "awards" # None
    BY DEF ReadAwards, walletVars, profileVars, Awaits, TryAwaits, None
  <1>. DEFINE l == [loc[j] EXCEPT !.badges = awarded]
  <1>2. l \in Local /\ l.from = loc[j].from /\ l.to = loc[j].to /\ l.badges = awarded
    BY Parts DEF Local
  <1>3. loc' = [loc EXCEPT ![j] = l]
    BY <1>1
  <1>. HIDE DEF l
  <1>4. loc' \in [Jobs -> Local] /\ loc'[j] = l /\ \A k \in Jobs \ {j} : loc'[k] = loc[k]
    BY <1>2, <1>3, LocSet
  <1>5. Base'
    BY <1>1, <1>4, Parts, Closing
  <1>. QED
    BY <1>1, <1>2, <1>4, <1>5, Awaiting DEF Elsewhere

LEMMA AggregateEffect ==
    ASSUME Base, NEW j \in Jobs, Aggregate(j)
    PROVE  /\ Base' /\ Elsewhere
           /\ UNCHANGED <<linked, runs, cursor, facts, snapshots, awarded, status, payload, loc>>
           /\ \/ Goes(j, "dao", "metrics")
              \/ Goes(j, "dao", "failRun") /\ Fetched(j) \cap Fractional # {}
  <1>1. /\ UNCHANGED <<linked, runs, cursor, facts, snapshots, awarded, status, payload, loc>>
        /\ "dao" # None /\ {"metrics", "failRun"} \subseteq Awaits
        /\ "metrics" # None /\ "failRun" # None
    BY DEF Aggregate, walletVars, profileVars, Awaits, TryAwaits, None
  <1>2. PICK next \in {"metrics", "failRun"} :
            /\ Await(j, "dao", next)
            /\ next = "failRun" => Fetched(j) \cap Fractional # {}
    BY DEF Aggregate
  <1>3. Base'
    BY <1>1, <1>2, Parts, Closing
  <1>. QED
    BY <1>1, <1>2, <1>3, Awaiting DEF Elsewhere

LEMMA AroundEffect ==
    ASSUME Base, NEW j \in Jobs, Around(j)
    PROVE  /\ Base' /\ Elsewhere
           /\ UNCHANGED <<linked, runs, cursor, facts, snapshots, awarded, status, payload, loc>>
           /\ \/ Goes(j, "metrics", "version") \/ Goes(j, "version", "publish")
              \/ Goes(j, "announce", "complete")
  <1>1. /\ UNCHANGED <<linked, runs, cursor, facts, snapshots, awarded, status, payload, loc>>
        /\ {"version", "publish", "complete"} \subseteq Awaits
        /\ None \notin {"metrics", "version", "publish", "announce", "complete"}
    BY DEF Around, walletVars, profileVars, Awaits, TryAwaits, None
  <1>2. PICK here \in {"metrics", "version", "announce"},
             next \in {"version", "publish", "complete"} :
            /\ Await(j, here, next)
            /\ <<here, next>> \in {<<"metrics", "version">>, <<"version", "publish">>,
                                   <<"announce", "complete">>}
    BY DEF Around
  <1>3. Base'
    BY <1>1, <1>2, Parts, Closing
  <1>4. Goes(j, here, next) /\ Elsewhere
    BY <1>1, <1>2, Awaiting DEF Elsewhere
  <1>. QED
    BY <1>1, <1>2, <1>3, <1>4

LEMMA PublishEffect ==
    ASSUME Base, NEW j \in Jobs, Publish(j)
    PROVE  /\ Base' /\ Elsewhere /\ Goes(j, "publish", "announce")
           /\ UNCHANGED <<linked, runs, cursor, facts, snapshots, awarded, status, loc>>
           /\ payload'.inputs = Fetched(j) /\ payload'.badges = loc[j].badges
  <1>1. /\ Await(j, "publish", "announce")
        /\ payload' = [inputs |-> Fetched(j), badges |-> loc[j].badges, status |-> loc[j].seen]
        /\ UNCHANGED <<linked, runs, cursor, facts, snapshots, awarded, status, loc>>
        /\ "announce" \in Awaits /\ "announce" # None /\ "publish" # None
    BY DEF Publish, walletVars, Awaits, TryAwaits, None
  <1>2. /\ Fetched(j) \in SUBSET Blocks /\ loc[j].badges \in SUBSET Blocks
        /\ loc[j].seen \in ProfileStatus
    BY Parts, FetchedType
  <1>3. /\ payload' \in [inputs : SUBSET Blocks, badges : SUBSET Blocks,
                         status : ProfileStatus \cup {None}]
        /\ payload'.inputs = Fetched(j) /\ payload'.badges = loc[j].badges
    BY <1>1, <1>2
  <1>4. Base'
    BY <1>1, <1>3, Parts, Closing
  <1>. QED
    BY <1>1, <1>3, <1>4, Awaiting DEF Elsewhere

LEMMA ActivateEffect ==
    ASSUME Base, NEW j \in Jobs, Activate(j)
    PROVE  /\ Base' /\ Elsewhere /\ Goes(j, "activate", "returned") /\ status' = "active"
           /\ UNCHANGED <<linked, runs, cursor, facts, snapshots, awarded, payload, loc>>
  <1>1. /\ Await(j, "activate", "returned") /\ status' = "active" /\ "active" \in ProfileStatus
        /\ UNCHANGED <<linked, runs, cursor, facts, snapshots, awarded, payload, loc>>
        /\ "returned" \in Awaits /\ "returned" # None /\ "activate" # None
    BY DEF Activate, walletVars, Awaits, None, ProfileStatus
  <1>. QED
    BY <1>1, Parts, Closing, Awaiting DEF Elsewhere

LEMMA FailProfileEffect ==
    ASSUME Base, NEW j \in Jobs, FailProfile(j)
    PROVE  /\ Base' /\ Elsewhere /\ Goes(j, "failProfile", "threw") /\ status' = "failed"
           /\ UNCHANGED <<linked, runs, cursor, facts, snapshots, awarded, payload, loc>>
  <1>1. /\ Await(j, "failProfile", "threw") /\ status' = "failed" /\ "failed" \in ProfileStatus
        /\ UNCHANGED <<linked, runs, cursor, facts, snapshots, awarded, payload, loc>>
        /\ "threw" \in Awaits /\ "threw" # None /\ "failProfile" # None
    BY DEF FailProfile, walletVars, Awaits, None, ProfileStatus
  <1>. QED
    BY <1>1, Parts, Closing, Awaiting DEF Elsewhere

----------------------------------------------------------------------------
(* Steps of delivery, failures *)

\* Job j changes its phase, and a worker takes or leaves it; what is indexed stays.
Passes(j, from, to, next) ==
    /\ phase[j] = from /\ phase'[j] = to /\ at'[j] = next
    /\ at' \in [Jobs -> Awaits] /\ phase' \in [Jobs -> Phases]
    /\ \A k \in Jobs \ {j} : at'[k] = at[k] /\ phase'[k] = phase[k] /\ tries'[k] = tries[k]

Kept == UNCHANGED <<head, activity, linked, runs, cursor, facts, snapshots, awarded,
                    status, payload, loc>>

LEMMA Delivering ==
    ASSUME Base, NEW j \in Jobs, NEW from \in Phases, NEW to \in Phases, NEW next \in Awaits,
           Move(j, from, to), at' = [at EXCEPT ![j] = next],
           tries' \in [Jobs -> 0..MaxAttempts], \A k \in Jobs \ {j} : tries'[k] = tries[k],
           next # None <=> to = "running",
           to \in {"queued", "running"} => tries'[j] # 0,
           Kept, api' \in [ApiJobs -> ApiStates],
           failures' = failures, faults' \in 0..MaxFaults
    PROVE  Base' /\ Passes(j, from, to, next)
  <1>1. Passes(j, from, to, next)
    BY DEF Base, TypeOK, Move, Passes
  <1>2. TypeOK'
    BY <1>1 DEF Base, TypeOK, Passes, Kept
  <1>3. Hands'
    BY <1>1 DEF Base, Hands, Passes
  <1>4. Gone'
    BY DEF Base, Gone, Kept
  <1>. QED
    BY <1>1, <1>2, <1>3, <1>4 DEF Base

LEMMA PhaseNames ==
    /\ {"new", "queued", "running", "done", "dead", "lost"} \subseteq Phases
    /\ "load" \in Awaits /\ None \in Awaits /\ "load" # None
  BY DEF Phases, Awaits, None

LEMMA ReceiveEffect ==
    ASSUME Base, NEW j \in Jobs, Receive(j)
    PROVE  /\ Base' /\ Passes(j, "queued", "running", "load") /\ Kept
           /\ UNCHANGED <<tries, api, failures, faults>>
  <1>1. /\ Move(j, "queued", "running") /\ at' = [at EXCEPT ![j] = "load"]
        /\ Kept /\ UNCHANGED <<tries, api, failures, faults>>
    BY DEF Receive, Take, Kept, chainVars, walletVars, profileVars, budget
  <1>2. tries[j] # 0 /\ tries \in [Jobs -> 0..MaxAttempts] /\ api \in [ApiJobs -> ApiStates]
        /\ faults \in 0..MaxFaults
    BY <1>1 DEF Base, Hands, TypeOK, Move
  <1>. QED
    BY <1>1, <1>2, PhaseNames, Delivering

LEMMA ReturnEffect ==
    ASSUME Base, NEW j \in Jobs, Return(j)
    PROVE  /\ Base' /\ Passes(j, "running", "done", None) /\ Kept /\ at[j] = "returned"
           /\ UNCHANGED <<tries, api, failures, faults>>
  <1>1. /\ Move(j, "running", "done") /\ at' = [at EXCEPT ![j] = None] /\ at[j] = "returned"
        /\ Kept /\ UNCHANGED <<tries, api, failures, faults>>
    BY DEF Return, Finish, Kept, chainVars, walletVars, profileVars, budget
  <1>2. tries \in [Jobs -> 0..MaxAttempts] /\ api \in [ApiJobs -> ApiStates]
        /\ faults \in 0..MaxFaults
    BY DEF Base, TypeOK
  <1>. QED
    BY <1>1, <1>2, PhaseNames, Delivering

LEMMA TryAgainEffect ==
    ASSUME Base, NEW j \in Jobs, TryAgain(j)
    PROVE  /\ Base' /\ Kept /\ at[j] = "threw" /\ UNCHANGED <<api, failures, faults>>
           /\ \/ /\ Passes(j, "running", "queued", None) /\ tries'[j] = tries[j] + 1
                 /\ tries[j] < MaxAttempts
              \/ /\ Passes(j, "running", "dead", None) /\ tries' = tries
                 /\ tries[j] = MaxAttempts
  <1>1. /\ at' = [at EXCEPT ![j] = None] /\ at[j] = "threw"
        /\ Kept /\ UNCHANGED <<api, failures, faults>>
    BY DEF TryAgain, Kept, chainVars, walletVars, profileVars, budget
  <1>2. tries \in [Jobs -> 0..MaxAttempts] /\ api \in [ApiJobs -> ApiStates]
        /\ faults \in 0..MaxFaults
    BY DEF Base, TypeOK
  <1>3. CASE Retry(j)
    <2>1. /\ Move(j, "running", "queued") /\ tries' = [tries EXCEPT ![j] = @ + 1]
          /\ tries[j] < MaxAttempts
      BY <1>3 DEF Retry
    <2>2. /\ tries' \in [Jobs -> 0..MaxAttempts] /\ tries'[j] = tries[j] + 1 /\ tries'[j] # 0
          /\ \A k \in Jobs \ {j} : tries'[k] = tries[k]
      BY <1>2, <2>1, Constants
    <2>. QED
      BY <1>1, <1>2, <2>1, <2>2, PhaseNames, Delivering
  <1>4. CASE Bury(j)
    <2>1. Move(j, "running", "dead") /\ tries' = tries /\ tries[j] = MaxAttempts
      BY <1>4 DEF Bury
    <2>. QED
      BY <1>1, <1>2, <2>1, PhaseNames, Delivering
  <1>. QED
    BY <1>3, <1>4 DEF TryAgain

LEMMA DiesEffect ==
    ASSUME Base, NEW j \in Jobs, WorkerDies(j)
    PROVE  /\ Base' /\ Passes(j, "running", "lost", None) /\ Kept
           /\ UNCHANGED <<tries, api, failures>> /\ faults' = faults + 1 /\ faults \in Nat
  <1>1. /\ Move(j, "running", "lost") /\ at' = [at EXCEPT ![j] = None]
        /\ Kept /\ UNCHANGED <<tries, api, failures>> /\ faults < MaxFaults /\ faults' = faults + 1
    BY DEF WorkerDies, Lose, Trouble, Kept, chainVars, profileVars
  <1>2. tries \in [Jobs -> 0..MaxAttempts] /\ api \in [ApiJobs -> ApiStates]
        /\ faults \in Nat /\ faults' \in 0..MaxFaults
    BY <1>1, PipelineAssumption DEF Base, TypeOK
  <1>. QED
    BY <1>1, <1>2, PhaseNames, Delivering

\* An await throws; what was stored before stays.
LEMMA ThrowEffect ==
    ASSUME Base, NEW j \in Jobs, Throw(j)
    PROVE  /\ Base' /\ UNCHANGED <<phase, tries, head, activity, api, faults>>
           /\ UNCHANGED <<linked, runs, cursor, snapshots, awarded, status, payload, loc>>
           /\ at[j] \in TryAwaits /\ Goes(j, at[j], "failRun")
           /\ failures' = failures + 1 /\ failures \in Nat
           /\ facts \subseteq facts'
  <1>1. /\ UNCHANGED <<phase, tries, head, activity, api, faults>>
        /\ UNCHANGED <<linked, runs, cursor, snapshots, awarded, status, payload, loc>>
        /\ at' = [at EXCEPT ![j] = "failRun"] /\ at[j] \in TryAwaits
        /\ failures < MaxFailures /\ failures' = failures + 1
    BY DEF Throw, Trouble, deliveryVars, chainVars, profileVars
  <1>2. facts \subseteq facts' /\ facts' \subseteq Blocks
    BY Parts, FetchedType DEF Throw
  <1>3. Goes(j, at[j], "failRun")
    BY <1>1, AwaitNames DEF Base, TypeOK, Goes
  <1>4. failures \in Nat /\ failures' \in 0..MaxFailures
    BY <1>1, PipelineAssumption DEF Base, TypeOK
  <1>5. TypeOK'
    BY <1>1, <1>2, <1>3, <1>4 DEF Base, TypeOK, Goes
  <1>6. Hands' /\ Gone'
    BY <1>1, <1>3, AwaitNames DEF Base, Hands, Gone, Goes
  <1>. QED
    BY <1>1, <1>2, <1>3, <1>4, <1>5, <1>6 DEF Base

LEMMA ThrowOutsideEffect ==
    ASSUME Base, NEW j \in Jobs, ThrowOutside(j)
    PROVE  /\ Base' /\ Kept /\ UNCHANGED <<phase, tries, api, failures>>
           /\ Goes(j, at[j], "threw") /\ at[j] # None
           /\ faults' = faults + 1 /\ faults \in Nat
  <1>1. /\ Kept /\ UNCHANGED <<phase, tries, api, failures>>
        /\ at' = [at EXCEPT ![j] = "threw"]
        /\ at[j] \in {"load", "findRun", "failRun", "failProfile", "returned"}
        /\ faults < MaxFaults /\ faults' = faults + 1
    BY DEF ThrowOutside, Trouble, Kept, deliveryVars, chainVars, profileVars
  <1>2. Goes(j, at[j], "threw") /\ at[j] # None
    BY <1>1, AwaitNames DEF Base, TypeOK, Goes
  <1>3. faults \in Nat /\ faults' \in 0..MaxFaults
    BY <1>1, PipelineAssumption DEF Base, TypeOK
  <1>4. TypeOK'
    BY <1>1, <1>2, <1>3 DEF Base, TypeOK, Goes, Kept
  <1>5. Hands' /\ Gone'
    BY <1>1, <1>2, AwaitNames DEF Base, Hands, Gone, Goes, Kept
  <1>. QED
    BY <1>1, <1>2, <1>3, <1>4, <1>5 DEF Base

----------------------------------------------------------------------------
(* Chain, user, API and cron *)

LEMMA MineEffect ==
    ASSUME Base, Mine
    PROVE  /\ Base' /\ head' = head + 1 /\ activity' \in {activity, activity \cup {head + 1}}
           /\ UNCHANGED <<phase, tries, linked, runs, cursor, facts, snapshots, awarded,
                          status, payload, api, at, loc, failures, faults>>
  <1>1. /\ head < MaxHead /\ head' = head + 1
        /\ activity' \in {activity, activity \cup {head + 1}}
        /\ UNCHANGED <<phase, tries, linked, runs, cursor, facts, snapshots, awarded,
                       status, payload, api, at, loc, failures, faults>>
    BY DEF Mine, deliveryVars, walletVars, profileVars, budget
  <1>2. head' \in StartHead..MaxHead /\ activity' \subseteq Blocks
    BY <1>1, Constants DEF Base, TypeOK
  <1>3. TypeOK'
    BY <1>1, <1>2 DEF Base, TypeOK
  <1>4. Hands' /\ Gone'
    BY <1>1 DEF Base, Hands, Gone
  <1>. QED
    BY <1>1, <1>3, <1>4 DEF Base

LEMMA UnlinkEffect ==
    ASSUME Base, Unlink
    PROVE  /\ Base' /\ linked /\ ~linked' /\ snapshots' = << >> /\ cursor' = NoBlock
           /\ \A r \in Runs : runs'[r] = None
           /\ UNCHANGED <<phase, tries, head, activity, status, payload, api, at, loc,
                          failures, faults>>
  <1>1. /\ linked /\ linked' = FALSE /\ runs' = [r \in Runs |-> None] /\ cursor' = NoBlock
        /\ facts' = {} /\ snapshots' = << >> /\ awarded' = {}
        /\ UNCHANGED <<phase, tries, head, activity, status, payload, api, at, loc,
                       failures, faults>>
    BY DEF Unlink, deliveryVars, chainVars, profileVars, budget
  <1>2. runs' \in [Runs -> RunStatus] /\ snapshots' \in Seq(Snapshot)
    BY <1>1 DEF RunStatus
  <1>3. TypeOK'
    BY <1>1, <1>2 DEF Base, TypeOK, Snapshot
  <1>4. Hands' /\ Gone'
    BY <1>1 DEF Base, Hands, Gone
  <1>. QED
    BY <1>1, <1>3, <1>4 DEF Base

\* The call behind job j goes on; jobs in work stay where they are.
Calls(j, here, next) ==
    /\ api[j] = here /\ api'[j] = next
    /\ \A k \in ApiJobs \ {j} : api'[k] = api[k]

LEMMA ApiSet ==
    ASSUME Base, NEW j \in ApiJobs, NEW here, NEW next \in ApiStates,
           api[j] = here, api' = [api EXCEPT ![j] = next]
    PROVE  api' \in [ApiJobs -> ApiStates] /\ Calls(j, here, next)
  BY DEF Base, TypeOK, Calls

LEMMA ApiStatusEffect ==
    ASSUME Base, NEW j \in ApiJobs, ApiStatus(j)
    PROVE  /\ Base' /\ Calls(j, None, "status")
           /\ UNCHANGED <<phase, tries, head, activity, linked, runs, cursor, facts, snapshots,
                          awarded, payload, at, loc, failures, faults>>
  <1>1. /\ api[j] = None /\ api' = [api EXCEPT ![j] = "status"] /\ status' = "indexing"
        /\ UNCHANGED <<phase, tries, head, activity, linked, runs, cursor, facts, snapshots,
                       awarded, payload, at, loc, failures, faults>>
    BY DEF ApiStatus, deliveryVars, chainVars, walletVars, budget
  <1>2. api' \in [ApiJobs -> ApiStates] /\ Calls(j, None, "status")
    BY <1>1, ApiSet DEF ApiStates
  <1>3. TypeOK'
    BY <1>1, <1>2 DEF Base, TypeOK, ProfileStatus
  <1>4. Hands' /\ Gone'
    BY <1>1 DEF Base, Hands, Gone
  <1>. QED
    BY <1>1, <1>2, <1>3, <1>4 DEF Base

LEMMA ApiRunEffect ==
    ASSUME Base, NEW j \in ApiJobs, ApiRun(j)
    PROVE  /\ Base' /\ <<j, 1>> \in Runs
           /\ linked => /\ Calls(j, "status", "row") /\ runs'[<<j, 1>>] = "pending"
                        /\ \A r \in Runs \ {<<j, 1>>} : runs'[r] = runs[r]
           /\ ~linked => Calls(j, "status", "failed") /\ runs' = runs
           /\ UNCHANGED <<phase, tries, head, activity, linked, cursor, facts, snapshots,
                          awarded, status, payload, at, loc, failures, faults>>
  <1>1. /\ api[j] = "status"
        /\ UNCHANGED <<phase, tries, head, activity, linked, cursor, facts, snapshots,
                       awarded, status, payload, at, loc, failures, faults>>
    BY DEF ApiRun, deliveryVars, chainVars, profileVars, budget
  <1>2. PICK r \in Runs : r = <<j, 1>>
    <2>1. j \in Jobs /\ 1 \in 1..MaxAttempts
      BY Constants
    <2>. QED
      BY <2>1 DEF Runs
  <1>3. CASE linked
    <2>1. api' = [api EXCEPT ![j] = "row"] /\ runs' = [runs EXCEPT ![r] = "pending"]
      BY <1>2, <1>3 DEF ApiRun
    <2>2. api' \in [ApiJobs -> ApiStates] /\ Calls(j, "status", "row")
      BY <1>1, <2>1, ApiSet DEF ApiStates
    <2>3. /\ runs' \in [Runs -> RunStatus] /\ runs'[r] = "pending"
          /\ \A q \in Runs \ {r} : runs'[q] = runs[q]
      BY <2>1, RunSet DEF RunStatus
    <2>4. TypeOK'
      BY <1>1, <2>2, <2>3 DEF Base, TypeOK
    <2>5. Hands' /\ Gone'
      BY <1>1, <1>3 DEF Base, Hands, Gone
    <2>. QED
      BY <1>1, <1>2, <1>3, <2>2, <2>3, <2>4, <2>5 DEF Base
  <1>4. CASE ~linked
    <2>1. api' = [api EXCEPT ![j] = "failed"] /\ runs' = runs
      BY <1>4 DEF ApiRun
    <2>2. api' \in [ApiJobs -> ApiStates] /\ Calls(j, "status", "failed")
      BY <1>1, <2>1, ApiSet DEF ApiStates
    <2>3. TypeOK'
      BY <1>1, <2>1, <2>2 DEF Base, TypeOK
    <2>4. Hands' /\ Gone'
      BY <1>1, <2>1 DEF Base, Hands, Gone
    <2>. QED
      BY <1>1, <1>2, <1>4, <2>1, <2>2, <2>3, <2>4 DEF Base
  <1>. QED
    BY <1>3, <1>4

LEMMA SubmitEffect ==
    ASSUME Base, NEW j \in Jobs, Submit(j), Kept, at' = at,
           api' \in [ApiJobs -> ApiStates], UNCHANGED <<failures, faults>>
    PROVE  Base' /\ Passes(j, "new", "queued", None) /\ tries'[j] = 1
  <1>1. Move(j, "new", "queued") /\ tries' = [tries EXCEPT ![j] = 1]
    BY DEF Submit
  <1>2. /\ tries' \in [Jobs -> 0..MaxAttempts] /\ tries'[j] = 1
        /\ \A k \in Jobs \ {j} : tries'[k] = tries[k]
    BY <1>1, Constants DEF Base, TypeOK
  <1>3. at[j] = None
    BY <1>1 DEF Base, Hands, Move
  <1>4. at' = [at EXCEPT ![j] = None]
    BY <1>3 DEF Base, TypeOK
  <1>5. faults' \in 0..MaxFaults /\ failures' = failures
    BY DEF Base, TypeOK
  <1>6. /\ "new" \in Phases /\ "queued" \in Phases /\ None \in Awaits /\ tries'[j] # 0
        /\ (None # None <=> "queued" = "running")
    BY <1>2, PhaseNames
  <1>7. Base' /\ Passes(j, "new", "queued", None)
    BY <1>1, <1>2, <1>4, <1>5, <1>6, Delivering
  <1>. QED
    BY <1>2, <1>7

LEMMA ApiSendEffect ==
    ASSUME Base, NEW j \in ApiJobs, ApiSend(j)
    PROVE  /\ Base' /\ Calls(j, "row", "sent") /\ Passes(j, "new", "queued", None)
           /\ tries'[j] = 1 /\ Kept /\ UNCHANGED <<failures, faults>>
  <1>1. /\ api[j] = "row" /\ api' = [api EXCEPT ![j] = "sent"] /\ Submit(j) /\ Kept
        /\ UNCHANGED <<at, failures, faults>> /\ j \in Jobs
    BY Constants DEF ApiSend, chainVars, walletVars, profileVars, budget, Kept
  <1>2. api' \in [ApiJobs -> ApiStates] /\ Calls(j, "row", "sent")
    BY <1>1, ApiSet DEF ApiStates
  <1>. QED
    BY <1>1, <1>2, SubmitEffect

LEMMA CronSendEffect ==
    ASSUME Base, NEW j \in CronJobs, CronSend(j)
    PROVE  /\ Base' /\ Passes(j, "new", "queued", None)
           /\ tries'[j] = 1 /\ Kept /\ UNCHANGED <<api, failures, faults>>
  <1>1. /\ Submit(j) /\ Kept /\ UNCHANGED <<api, at, failures, faults>> /\ j \in Jobs
    BY Constants DEF CronSend, chainVars, walletVars, profileVars, budget, Kept
  <1>2. api' \in [ApiJobs -> ApiStates]
    BY <1>1 DEF Base, TypeOK
  <1>. QED
    BY <1>1, <1>2, SubmitEffect

LEMMA ApiFailsEffect ==
    ASSUME Base, NEW j \in ApiJobs, ApiFails(j)
    PROVE  /\ Base' /\ Calls(j, api[j], "failed") /\ Kept
           /\ UNCHANGED <<phase, tries, at, failures>> /\ faults' = faults + 1 /\ faults \in Nat
  <1>1. /\ api' = [api EXCEPT ![j] = "failed"] /\ Kept
        /\ UNCHANGED <<phase, tries, at, failures>> /\ faults < MaxFaults /\ faults' = faults + 1
    BY DEF ApiFails, deliveryVars, chainVars, walletVars, profileVars, Kept
  <1>2. api' \in [ApiJobs -> ApiStates] /\ Calls(j, api[j], "failed")
    BY <1>1, ApiSet DEF ApiStates
  <1>3. faults \in Nat /\ faults' \in 0..MaxFaults
    BY <1>1, PipelineAssumption DEF Base, TypeOK
  <1>4. TypeOK'
    BY <1>1, <1>2, <1>3 DEF Base, TypeOK, Kept
  <1>5. Hands' /\ Gone'
    BY <1>1 DEF Base, Hands, Gone, Kept
  <1>. QED
    BY <1>1, <1>2, <1>3, <1>4, <1>5 DEF Base

LEMMA InitBase == Init => Base
  <1>. SUFFICES ASSUME Init PROVE Base
    OBVIOUS
  <1>1. /\ phase = [j \in Jobs |-> "new"] /\ tries = [j \in Jobs |-> 0]
        /\ at = [j \in Jobs |-> None]
    BY DEF Init, DeliveryInit
  <1>2. phase \in [Jobs -> Phases] /\ tries \in [Jobs -> 0..MaxAttempts] /\ at \in [Jobs -> Awaits]
    BY <1>1, PhaseNames, Constants
  <1>3. /\ head = StartHead /\ activity \subseteq 0..StartHead /\ linked = TRUE
        /\ runs = [r \in Runs |-> None] /\ cursor = NoBlock /\ facts = {} /\ snapshots = << >>
        /\ awarded = {} /\ status = "created" /\ payload = NoPayload
        /\ api = [j \in ApiJobs |-> None] /\ failures = 0 /\ faults = 0
        /\ loc = [j \in Jobs |-> [from |-> 0, to |-> 0, seen |-> "created", badges |-> {}]]
    BY DEF Init
  <1>4. /\ head \in StartHead..MaxHead /\ activity \subseteq Blocks
        /\ runs \in [Runs -> RunStatus] /\ snapshots \in Seq(Snapshot)
        /\ status \in ProfileStatus /\ api \in [ApiJobs -> ApiStates]
        /\ failures \in 0..MaxFailures /\ faults \in 0..MaxFaults
    BY <1>3, Constants, PipelineAssumption DEF RunStatus, ProfileStatus, ApiStates
  <1>5. payload \in [inputs : SUBSET Blocks, badges : SUBSET Blocks,
                     status : ProfileStatus \cup {None}]
    BY <1>3 DEF NoPayload
  <1>6. loc \in [Jobs -> Local]
    BY <1>3, Constants DEF Local, ProfileStatus
  <1>7. TypeOK
    BY <1>2, <1>3, <1>4, <1>5, <1>6 DEF TypeOK, Local, Snapshot
  <1>8. Hands
    BY <1>1 DEF Hands
  <1>9. Gone
    BY <1>3 DEF Gone
  <1>. QED
    BY <1>7, <1>8, <1>9 DEF Base

LEMMA BaseStep == Base /\ [Next]_vars => Base'
  <1>. SUFFICES ASSUME Base, [Next]_vars PROVE Base'
    OBVIOUS
  <1>1. CASE Mine \/ Unlink
    BY <1>1, MineEffect, UnlinkEffect
  <1>2. ASSUME NEW j \in ApiJobs, ApiStatus(j) \/ ApiStep(j) \/ ApiFails(j) PROVE Base'
    BY <1>2, ApiStatusEffect, ApiRunEffect, ApiSendEffect, ApiFailsEffect DEF ApiStep
  <1>3. ASSUME NEW j \in CronJobs, CronSend(j) PROVE Base'
    BY <1>3, CronSendEffect
  <1>4. ASSUME NEW j \in Jobs, JobStep(j) PROVE Base'
    <2>1. CASE \/ Receive(j) \/ LoadWallet(j) \/ LoadRun(j) \/ ReadHead(j) \/ ReadCursor(j)
               \/ Mark(j) \/ Reconcile(j) \/ Store(j) \/ Advance(j) \/ Persist(j)
               \/ SyncAwards(j)
      BY <2>1, ReceiveEffect, LoadWalletEffect, LoadRunEffect, ReadHeadEffect,
         ReadCursorEffect, MarkEffect, ReconcileEffect, StoreEffect, AdvanceEffect,
         PersistEffect, SyncAwardsEffect
    <2>2. CASE \/ ReadProfile(j) \/ ReadAwards(j) \/ Aggregate(j) \/ Around(j) \/ Publish(j)
               \/ Complete(j) \/ Activate(j) \/ FailRun(j) \/ FailProfile(j) \/ Return(j)
               \/ TryAgain(j)
      BY <2>2, ReadProfileEffect, ReadAwardsEffect, AggregateEffect, AroundEffect,
         PublishEffect, CompleteEffect, ActivateEffect, FailRunEffect, FailProfileEffect,
         ReturnEffect, TryAgainEffect
    <2>. QED
      BY <1>4, <2>1, <2>2 DEF JobStep
  <1>5. ASSUME NEW j \in Jobs, JobTrouble(j) PROVE Base'
    BY <1>5, ThrowEffect, ThrowOutsideEffect, DiesEffect DEF JobTrouble
  <1>6. CASE UNCHANGED vars
    BY <1>6 DEF vars, deliveryVars, chainVars, walletVars, profileVars, budget,
                Base, TypeOK, Hands, Gone
  <1>. QED
    BY <1>1, <1>2, <1>3, <1>4, <1>5, <1>6 DEF Next

LEMMA BaseHolds == Spec => []Base
  BY InitBase, BaseStep, PTL DEF Spec

\* IndexPipeline!TypeOK: wallet, runs, jobs and their ranges keep their shape, for any number
\* of jobs and workers; a block range never leaves the chain.
THEOREM TypeCorrect == Spec => []TypeOK
  <1>1. Base => TypeOK
    BY DEF Base
  <1>. QED
    BY <1>1, BaseHolds, PTL

----------------------------------------------------------------------------
(* A completed run has a snapshot *)

Snap(r) == \E i \in 1..Len(snapshots) : snapshots[i].run = r

\* The awaits behind the snapshot.
After == {"badges", "project", "awards", "dao", "metrics", "version", "publish", "announce",
          "complete"}

Scored ==
    /\ \A r \in Runs : runs[r] = "completed" => Snap(r)
    /\ linked => \A j \in Jobs : at[j] \in After => Snap(RunOf(j))

\* No snapshot is added, no run completed, and no job gets behind its snapshot.
LEMMA ScoredStays ==
    ASSUME Base, Scored, snapshots' = snapshots, linked' = linked,
           \A r \in Runs : runs'[r] = "completed" => runs[r] = "completed",
           \A j \in Jobs : at'[j] \in After => at[j] \in After /\ tries'[j] = tries[j]
    PROVE  Scored'
  <1>1. \A r : Snap(r)' <=> Snap(r)
    BY DEF Snap
  <1>2. \A j \in Jobs : at'[j] \in After => RunOf(j)' = RunOf(j)
    BY DEF RunOf
  <1>3. ASSUME NEW j \in Jobs, linked', at'[j] \in After PROVE Snap(RunOf(j))'
    <2>1. Snap(RunOf(j)) /\ RunOf(j)' = RunOf(j)
      BY <1>2, <1>3 DEF Scored
    <2>. QED
      BY <2>1 DEF Snap
  <1>4. \A r \in Runs : runs'[r] = "completed" => Snap(r)'
    BY <1>1 DEF Scored
  <1>. QED
    BY <1>3, <1>4 DEF Scored

\* A status that is not "completed", written by job j.
LEMMA WroteOther ==
    ASSUME NEW j \in Jobs, NEW s, s # "completed", Wrote(j, s)
    PROVE  \A r \in Runs : runs'[r] = "completed" => runs[r] = "completed"
  BY DEF Wrote

LEMMA ScoredJob ==
    ASSUME Base, Scored, NEW j \in Jobs, JobStep(j)
    PROVE  Scored'
  <1>1. ASSUME LoadWallet(j) \/ LoadRun(j) PROVE Scored'
    <2>1. /\ Elsewhere /\ UNCHANGED <<linked, snapshots>>
          /\ \E here : \E next \in {"findRun", "head", "returned", "threw"} : Goes(j, here, next)
          /\ runs' = runs \/ Wrote(j, "pending")
      BY <1>1, LoadWalletEffect, LoadRunEffect
    <2>2. \A r \in Runs : runs'[r] = "completed" => runs[r] = "completed"
      BY <2>1, WroteOther
    <2>3. \A k \in Jobs : at'[k] \in After => at[k] \in After /\ tries'[k] = tries[k]
      BY <2>1 DEF Goes, After, Elsewhere
    <2>. QED
      BY <2>1, <2>2, <2>3, ScoredStays
  <1>2. ASSUME Mark(j) \/ FailRun(j) PROVE Scored'
    <2>1. /\ Elsewhere /\ UNCHANGED <<linked, snapshots>>
          /\ \E here : \E next \in {"reconcile", "failRun", "failProfile", "threw"} :
                 Goes(j, here, next)
          /\ runs' = runs \/ Wrote(j, "running") \/ Wrote(j, "failed")
      BY <1>2, MarkEffect, FailRunEffect
    <2>2. \A r \in Runs : runs'[r] = "completed" => runs[r] = "completed"
      BY <2>1, WroteOther
    <2>3. \A k \in Jobs : at'[k] \in After => at[k] \in After /\ tries'[k] = tries[k]
      BY <2>1 DEF Goes, After, Elsewhere
    <2>. QED
      BY <2>1, <2>2, <2>3, ScoredStays
  <1>3. ASSUME \/ ReadHead(j) \/ ReadCursor(j) \/ Reconcile(j) \/ Store(j) \/ Advance(j)
               \/ Activate(j) \/ FailProfile(j)
        PROVE  Scored'
    <2>1. /\ Elsewhere /\ UNCHANGED <<linked, snapshots, runs>>
          /\ \E here : \E next \in {"cursor", "mark", "store", "advance", "snapshot", "failRun",
                                   "returned", "threw"} : Goes(j, here, next)
      BY <1>3, ReadHeadEffect, ReadCursorEffect, ReconcileEffect, StoreEffect, AdvanceEffect,
         ActivateEffect, FailProfileEffect
    <2>2. \A k \in Jobs : at'[k] \in After => at[k] \in After /\ tries'[k] = tries[k]
      BY <2>1 DEF Goes, After, Elsewhere
    <2>. QED
      BY <2>1, <2>2, ScoredStays
  <1>4. ASSUME \/ SyncAwards(j) \/ ReadProfile(j) \/ ReadAwards(j) \/ Aggregate(j)
               \/ Around(j) \/ Publish(j)
        PROVE  Scored'
    <2>1. /\ Elsewhere /\ UNCHANGED <<linked, snapshots, runs>>
          /\ \E here \in After : \E next : Goes(j, here, next)
      BY <1>4, SyncAwardsEffect, ReadProfileEffect, ReadAwardsEffect, AggregateEffect,
         AroundEffect, PublishEffect DEF After
    <2>2. \A k \in Jobs : at'[k] \in After => at[k] \in After /\ tries'[k] = tries[k]
      BY <2>1 DEF Goes, Elsewhere
    <2>. QED
      BY <2>1, <2>2, ScoredStays
  <1>5. ASSUME Receive(j) \/ Return(j) \/ TryAgain(j) PROVE Scored'
    <2>1. /\ Kept /\ \E from, to : \E next \in {None, "load"} : Passes(j, from, to, next)
      BY <1>5, ReceiveEffect, ReturnEffect, TryAgainEffect
    <2>2. \A k \in Jobs : at'[k] \in After => at[k] \in After /\ tries'[k] = tries[k]
      BY <2>1 DEF Passes, After, None
    <2>. QED
      BY <2>1, <2>2, ScoredStays DEF Kept
  <1>6. ASSUME Persist(j) PROVE Scored'
    <2>1. Elsewhere /\ UNCHANGED <<linked, runs>>
      BY <1>6, PersistEffect
    <2>2. CASE linked
      <3>1. /\ Goes(j, "snapshot", "badges") /\ Taken(j) \in Snapshot
            /\ snapshots' = Append(snapshots, Taken(j))
        BY <1>6, <2>2, PersistEffect
      <3>2. snapshots \in Seq(Snapshot) /\ Taken(j).run = RunOf(j)
        BY Parts DEF Taken
      <3>3. /\ Len(snapshots') = Len(snapshots) + 1 /\ Len(snapshots) \in Nat
            /\ snapshots'[Len(snapshots) + 1] = Taken(j)
            /\ \A i \in 1..Len(snapshots) : snapshots'[i] = snapshots[i]
        BY <3>1, <3>2
      <3>4. \A r : Snap(r) => Snap(r)'
        BY <3>3 DEF Snap
      <3>5. \A k \in Jobs : RunOf(k)' = RunOf(k)
        BY <2>1 DEF RunOf, Elsewhere
      <3>6. Snap(RunOf(j))'
        <4>1. RunOf(j)' = RunOf(j)
          BY <3>5
        <4>2. Len(snapshots) + 1 \in 1..Len(snapshots') /\ snapshots'[Len(snapshots) + 1].run = RunOf(j)
          BY <3>2, <3>3
        <4>. QED
          BY <4>1, <4>2 DEF Snap
      <3>7. ASSUME NEW k \in Jobs \ {j}, at'[k] \in After PROVE Snap(RunOf(k))'
        <4>1. Snap(RunOf(k)) /\ RunOf(k)' = RunOf(k)
          BY <2>2, <3>1, <3>5, <3>7 DEF Scored, Goes
        <4>. QED
          BY <3>3, <4>1 DEF Snap
      <3>8. \A r \in Runs : runs'[r] = "completed" => Snap(r)'
        BY <2>1, <3>4 DEF Scored
      <3>. QED
        BY <3>6, <3>7, <3>8 DEF Scored
    <2>3. CASE ~linked
      <3>1. Goes(j, "snapshot", "failRun") /\ snapshots' = snapshots
        BY <1>6, <2>3, PersistEffect
      <3>2. \A k \in Jobs : at'[k] \in After => at[k] \in After /\ tries'[k] = tries[k]
        BY <2>1, <3>1 DEF Goes, After, Elsewhere
      <3>. QED
        BY <2>1, <3>1, <3>2, ScoredStays
    <2>. QED
      BY <2>2, <2>3
  <1>7. ASSUME Complete(j) PROVE Scored'
    <2>1. /\ Elsewhere /\ UNCHANGED <<linked, snapshots>>
          /\ \E next \in {"activate", "failRun"} : Goes(j, "complete", next)
      BY <1>7, CompleteEffect
    <2>2. \A r : Snap(r)' <=> Snap(r)
      BY <2>1 DEF Snap
    <2>3. \A r \in Runs : runs'[r] = "completed" => Snap(r)
      <3>1. CASE linked
        <4>1. Wrote(j, "completed") /\ Snap(RunOf(j))
          BY <1>7, <2>1, <3>1, CompleteEffect DEF Scored, Goes, After
        <4>. QED
          BY <4>1 DEF Wrote, Scored
      <3>2. CASE ~linked
        BY <1>7, <3>2, CompleteEffect DEF Scored
      <3>. QED
        BY <3>1, <3>2
    <2>4. ASSUME NEW k \in Jobs, linked', at'[k] \in After PROVE Snap(RunOf(k))'
      <3>1. k # j /\ at[k] \in After /\ RunOf(k)' = RunOf(k)
        BY <2>1, <2>4 DEF Goes, After, Elsewhere, RunOf
      <3>2. Snap(RunOf(k))
        BY <2>1, <2>4, <3>1 DEF Scored
      <3>. QED
        BY <2>1, <3>1, <3>2 DEF Snap
    <2>. QED
      BY <2>2, <2>3, <2>4 DEF Scored
  <1>. QED
    BY <1>1, <1>2, <1>3, <1>4, <1>5, <1>6, <1>7 DEF JobStep

LEMMA ScoredStep == Base /\ Scored /\ [Next]_vars => Scored'
  <1>. SUFFICES ASSUME Base, Scored, [Next]_vars PROVE Scored'
    OBVIOUS
  <1>1. ASSUME Mine PROVE Scored'
    BY <1>1, MineEffect, ScoredStays
  <1>2. ASSUME Unlink PROVE Scored'
    BY <1>2, UnlinkEffect DEF Scored, None
  <1>3. ASSUME NEW j \in ApiJobs, ApiStatus(j) \/ ApiStep(j) \/ ApiFails(j) PROVE Scored'
    <2>1. CASE ApiStatus(j)
      BY <2>1, ApiStatusEffect, ScoredStays
    <2>2. CASE ApiRun(j)
      <3>1. UNCHANGED <<tries, linked, snapshots, at>>
        BY <2>2, ApiRunEffect
      <3>2. \A r \in Runs : runs'[r] = "completed" => runs[r] = "completed"
        BY <2>2, ApiRunEffect
      <3>. QED
        BY <3>1, <3>2, ScoredStays
    <2>3. CASE ApiSend(j)
      <3>1. Kept /\ Passes(j, "new", "queued", None)
        BY <2>3, ApiSendEffect
      <3>2. \A k \in Jobs : at'[k] \in After => at[k] \in After /\ tries'[k] = tries[k]
        BY <3>1 DEF Passes, After, None
      <3>. QED
        BY <3>1, <3>2, ScoredStays DEF Kept
    <2>4. CASE ApiFails(j)
      BY <2>4, ApiFailsEffect, ScoredStays DEF Kept
    <2>. QED
      BY <1>3, <2>1, <2>2, <2>3, <2>4 DEF ApiStep
  <1>4. ASSUME NEW j \in CronJobs, CronSend(j) PROVE Scored'
    <2>1. Kept /\ Passes(j, "new", "queued", None)
      BY <1>4, CronSendEffect
    <2>2. \A k \in Jobs : at'[k] \in After => at[k] \in After /\ tries'[k] = tries[k]
      BY <2>1 DEF Passes, After, None
    <2>. QED
      BY <2>1, <2>2, ScoredStays DEF Kept
  <1>5. ASSUME NEW j \in Jobs, JobTrouble(j) PROVE Scored'
    <2>1. CASE Throw(j)
      <3>1. UNCHANGED <<tries, linked, snapshots, runs>> /\ Goes(j, at[j], "failRun")
        BY <2>1, ThrowEffect
      <3>2. \A k \in Jobs : at'[k] \in After => at[k] \in After /\ tries'[k] = tries[k]
        BY <3>1 DEF Goes, After
      <3>. QED
        BY <3>1, <3>2, ScoredStays
    <2>2. CASE ThrowOutside(j)
      <3>1. Kept /\ UNCHANGED tries /\ Goes(j, at[j], "threw")
        BY <2>2, ThrowOutsideEffect
      <3>2. \A k \in Jobs : at'[k] \in After => at[k] \in After /\ tries'[k] = tries[k]
        BY <3>1 DEF Goes, After
      <3>. QED
        BY <3>1, <3>2, ScoredStays DEF Kept
    <2>3. CASE WorkerDies(j)
      <3>1. Kept /\ UNCHANGED tries /\ Passes(j, "running", "lost", None)
        BY <2>3, DiesEffect
      <3>2. \A k \in Jobs : at'[k] \in After => at[k] \in After /\ tries'[k] = tries[k]
        BY <3>1 DEF Passes, After, None
      <3>. QED
        BY <3>1, <3>2, ScoredStays DEF Kept
    <2>. QED
      BY <1>5, <2>1, <2>2, <2>3 DEF JobTrouble
  <1>6. CASE UNCHANGED vars
    BY <1>6, ScoredStays DEF vars, deliveryVars, chainVars, walletVars
  <1>. QED
    BY <1>1, <1>2, <1>3, <1>4, <1>5, <1>6, ScoredJob DEF Next

\* IndexPipeline!CompletedHasSnapshot: processJob marks a run completed only after its score
\* snapshot, whatever is retried, throws or dies, and with any number of workers on the wallet.
THEOREM CompletedRunsScored == Spec => []CompletedHasSnapshot
  <1>1. Init => Scored
    BY DEF Init, Scored, After, None
  <1>2. Scored => CompletedHasSnapshot
    BY DEF Scored, CompletedHasSnapshot, Snap
  <1>. QED
    BY <1>1, <1>2, ScoredStep, BaseHolds, PTL DEF Spec

----------------------------------------------------------------------------
(* While a profile is "indexing" something is under way *)

Idle == {None, "returned", "threw"}

Working ==
    \/ \E j \in ApiJobs : api[j] \in {"status", "row"}
    \/ \E j \in Jobs : phase[j] = "queued" \/ at[j] \notin Idle

\* A job that was sent has a run, as long as the wallet is there.
Rows ==
    /\ \A j \in ApiJobs : phase[j] # "new" => api[j] = "sent"
    /\ linked => \A j \in ApiJobs : api[j] \in {"row", "sent"} => runs[<<j, 1>>] # None

Settling == (status = "indexing" /\ linked /\ faults = 0) => Working

LEMMA RowsStay ==
    ASSUME Rows, api' = api, linked' = linked,
           \A j \in ApiJobs : phase'[j] # "new" => phase[j] # "new",
           \A r \in Runs : runs'[r] = None => runs[r] = None
    PROVE  Rows'
  <1>1. \A j \in ApiJobs : <<j, 1>> \in Runs
    <2>1. \A j \in ApiJobs : j \in Jobs /\ 1 \in 1..MaxAttempts
      BY Constants
    <2>. QED
      BY <2>1 DEF Runs
  <1>. QED
    BY <1>1 DEF Rows

LEMMA StillWorking ==
    ASSUME NEW j \in Jobs, NEW here, NEW next, Goes(j, here, next), next \notin Idle
    PROVE  Working'
  BY DEF Goes, Working

LEMMA WrittenRuns ==
    ASSUME NEW j \in Jobs, NEW s, s # None, runs' = runs \/ Wrote(j, s)
    PROVE  \A r \in Runs : runs'[r] = None => runs[r] = None
  BY DEF Wrote

LEMMA SettlingJob ==
    ASSUME Base, Rows, Settling, NEW j \in Jobs, JobStep(j)
    PROVE  Rows' /\ Settling'
  <1>0. ASSUME LoadWallet(j) PROVE Rows' /\ Settling'
    <2>1. Elsewhere /\ UNCHANGED <<linked, status, runs>>
      BY <1>0, LoadWalletEffect
    <2>2. Rows'
      BY <2>1, RowsStay DEF Elsewhere
    <2>3. ASSUME linked PROVE Working'
      BY <1>0, <2>3, LoadWalletEffect, StillWorking DEF Idle, None
    <2>. QED
      BY <2>1, <2>2, <2>3 DEF Settling
  <1>1. ASSUME LoadRun(j) PROVE Rows' /\ Settling'
    <2>1. Elsewhere /\ UNCHANGED <<linked, status>>
      BY <1>1, LoadRunEffect
    <2>2. \A r \in Runs : runs'[r] = None => runs[r] = None
      <3>1. runs' = runs \/ Wrote(j, "pending")
        BY <1>1, LoadRunEffect
      <3>. QED
        BY <3>1, WrittenRuns DEF None
    <2>3. Rows'
      BY <2>1, <2>2, RowsStay DEF Elsewhere
    <2>4. ASSUME linked PROVE Working'
      <3>1. CASE Goes(j, "findRun", "head")
        BY <3>1, StillWorking DEF Idle, None
      <3>2. CASE Goes(j, "findRun", "returned") /\ j \in ApiJobs /\ runs[RunOf(j)] = None
        <4>1. RunOf(j) = <<j, 1>>
          BY <3>2 DEF RunOf
        <4>2. phase[j] = "running"
          BY <3>2 DEF Goes, Base, Hands, None
        <4>3. runs[<<j, 1>>] # None
          BY <2>4, <3>2, <4>2 DEF Rows
        <4>. QED
          BY <3>2, <4>1, <4>3
      <3>. QED
        BY <1>1, <2>4, <3>1, <3>2, LoadRunEffect
    <2>. QED
      BY <2>1, <2>3, <2>4 DEF Settling
  <1>2. ASSUME Mark(j) \/ Complete(j) \/ FailRun(j) PROVE Rows' /\ Settling'
    <2>1. /\ Elsewhere /\ UNCHANGED <<linked, status>>
          /\ \E s \in {"running", "completed", "failed"} : runs' = runs \/ Wrote(j, s)
      BY <1>2, MarkEffect, CompleteEffect, FailRunEffect
    <2>2. \A r \in Runs : runs'[r] = None => runs[r] = None
      BY <2>1, WrittenRuns DEF None
    <2>3. Rows'
      BY <2>1, <2>2, RowsStay DEF Elsewhere
    <2>4. ASSUME linked PROVE Working'
      <3>1. \E here : \E next \in {"reconcile", "activate", "failProfile"} : Goes(j, here, next)
        BY <1>2, <2>4, MarkEffect, CompleteEffect, FailRunEffect
      <3>. QED
        BY <3>1, StillWorking DEF Idle, None
    <2>. QED
      BY <2>1, <2>3, <2>4 DEF Settling
  <1>3. ASSUME \/ ReadHead(j) \/ ReadCursor(j) \/ Reconcile(j) \/ Store(j) \/ Advance(j)
               \/ Persist(j) \/ SyncAwards(j) \/ ReadProfile(j) \/ ReadAwards(j)
               \/ Aggregate(j) \/ Around(j) \/ Publish(j)
        PROVE  Rows' /\ Settling'
    <2>1. /\ Elsewhere /\ UNCHANGED <<linked, status, runs>>
          /\ \E here : \E next \in TryAwaits \cup {"failRun"} : Goes(j, here, next)
      <3>1. CASE \/ ReadHead(j) \/ ReadCursor(j) \/ Reconcile(j) \/ Store(j) \/ Advance(j)
                 \/ Persist(j)
        BY <3>1, ReadHeadEffect, ReadCursorEffect, ReconcileEffect, StoreEffect, AdvanceEffect,
           PersistEffect DEF TryAwaits
      <3>2. CASE \/ SyncAwards(j) \/ ReadProfile(j) \/ ReadAwards(j) \/ Aggregate(j)
                 \/ Around(j) \/ Publish(j)
        BY <3>2, SyncAwardsEffect, ReadProfileEffect, ReadAwardsEffect, AggregateEffect,
           AroundEffect, PublishEffect DEF TryAwaits
      <3>. QED
        BY <1>3, <3>1, <3>2
    <2>2. Rows'
      BY <2>1, RowsStay DEF Elsewhere
    <2>3. Working'
      BY <2>1, StillWorking DEF Idle, None, TryAwaits
    <2>. QED
      BY <2>2, <2>3 DEF Settling
  <1>4. ASSUME Activate(j) \/ FailProfile(j) PROVE Rows' /\ Settling'
    <2>1. Elsewhere /\ UNCHANGED <<linked, runs>> /\ status' # "indexing"
      BY <1>4, ActivateEffect, FailProfileEffect
    <2>2. Rows'
      BY <2>1, RowsStay DEF Elsewhere
    <2>. QED
      BY <2>1, <2>2 DEF Settling
  <1>5. ASSUME Receive(j) PROVE Rows' /\ Settling'
    <2>1. Passes(j, "queued", "running", "load") /\ Kept /\ UNCHANGED api
      BY <1>5, ReceiveEffect
    <2>2. \A k \in ApiJobs : phase'[k] # "new" => phase[k] # "new"
      BY <2>1, Constants DEF Passes
    <2>3. Rows'
      BY <2>1, <2>2, RowsStay DEF Kept
    <2>4. Working'
      BY <2>1 DEF Passes, Working, Idle, None
    <2>. QED
      BY <2>3, <2>4 DEF Settling
  <1>6. ASSUME Return(j) \/ TryAgain(j) PROVE Rows' /\ Settling'
    <2>1. /\ Kept /\ UNCHANGED <<api, faults>> /\ at[j] \in Idle
          /\ \E to \in {"done", "dead", "queued"} : Passes(j, "running", to, None)
      BY <1>6, ReturnEffect, TryAgainEffect DEF Idle
    <2>2. \A k \in ApiJobs : phase'[k] # "new" => phase[k] # "new"
      BY <2>1, Constants DEF Passes
    <2>3. Rows'
      BY <2>1, <2>2, RowsStay DEF Kept
    <2>4. Working => Working'
      BY <2>1 DEF Passes, Working
    <2>. QED
      BY <2>1, <2>3, <2>4 DEF Settling, Kept
  <1>. QED
    BY <1>0, <1>1, <1>2, <1>3, <1>4, <1>5, <1>6 DEF JobStep

LEMMA SettlingCall ==
    ASSUME Base, Rows, Settling, NEW j \in ApiJobs, ApiStatus(j) \/ ApiStep(j) \/ ApiFails(j)
    PROVE  Rows' /\ Settling'
  <1>1. CASE ApiStatus(j)
    <2>1. Calls(j, None, "status") /\ UNCHANGED <<phase, linked, runs>>
      BY <1>1, ApiStatusEffect
    <2>2. Rows'
      BY <2>1 DEF Rows, Calls, None
    <2>3. Working'
      BY <2>1 DEF Working, Calls
    <2>. QED
      BY <2>2, <2>3 DEF Settling
  <1>2. CASE ApiRun(j)
    <2>1. UNCHANGED <<phase, linked>>
      BY <1>2, ApiRunEffect
    <2>2. CASE linked
      <3>1. /\ Calls(j, "status", "row") /\ runs'[<<j, 1>>] = "pending"
            /\ \A r \in Runs \ {<<j, 1>>} : runs'[r] = runs[r]
        BY <1>2, <2>2, ApiRunEffect
      <3>2. \A k \in ApiJobs : <<k, 1>> \in Runs
        <4>1. \A k \in ApiJobs : k \in Jobs /\ 1 \in 1..MaxAttempts
          BY Constants
        <4>. QED
          BY <4>1 DEF Runs
      <3>3. \A k \in ApiJobs : phase'[k] # "new" => api'[k] = "sent"
        BY <2>1, <3>1 DEF Rows, Calls
      <3>4. ASSUME NEW k \in ApiJobs, api'[k] \in {"row", "sent"} PROVE runs'[<<k, 1>>] # None
        <4>1. CASE k = j
          BY <3>1, <4>1 DEF None
        <4>2. CASE k # j
          <5>1. <<k, 1>> # <<j, 1>> /\ api'[k] = api[k]
            BY <3>1, <4>2 DEF Calls
          <5>. QED
            BY <2>2, <3>1, <3>2, <3>4, <5>1 DEF Rows
        <4>. QED
          BY <4>1, <4>2
      <3>5. Working'
        BY <3>1 DEF Working, Calls
      <3>. QED
        BY <3>3, <3>4, <3>5 DEF Rows, Settling
    <2>3. CASE ~linked
      <3>1. Calls(j, "status", "failed")
        BY <1>2, <2>3, ApiRunEffect
      <3>. QED
        BY <2>1, <2>3, <3>1 DEF Rows, Settling, Calls
    <2>. QED
      BY <2>2, <2>3
  <1>3. CASE ApiSend(j)
    <2>1. Calls(j, "row", "sent") /\ Passes(j, "new", "queued", None) /\ Kept /\ j \in Jobs
      BY <1>3, ApiSendEffect, Constants
    <2>2. \A k \in ApiJobs : phase'[k] # "new" => api'[k] = "sent"
      BY <2>1, Constants DEF Rows, Calls, Passes
    <2>3. linked => \A k \in ApiJobs : api'[k] \in {"row", "sent"} => runs'[<<k, 1>>] # None
      BY <2>1 DEF Rows, Calls, Kept
    <2>4. Working'
      BY <2>1 DEF Working, Passes
    <2>. QED
      BY <2>1, <2>2, <2>3, <2>4 DEF Rows, Settling, Kept
  <1>4. CASE ApiFails(j)
    <2>1. /\ Calls(j, api[j], "failed") /\ Kept /\ UNCHANGED phase
          /\ faults' = faults + 1 /\ faults \in Nat
      BY <1>4, ApiFailsEffect
    <2>2. faults' # 0
      BY <2>1
    <2>3. api[j] \in {"status", "row"}
      BY <1>4 DEF ApiFails
    <2>4. Rows'
      BY <2>1, <2>3 DEF Rows, Calls, Kept
    <2>. QED
      BY <2>2, <2>4 DEF Settling
  <1>. QED
    BY <1>1, <1>2, <1>3, <1>4 DEF ApiStep

LEMMA SettlingStep == Base /\ Rows /\ Settling /\ [Next]_vars => Rows' /\ Settling'
  <1>. SUFFICES ASSUME Base, Rows, Settling, [Next]_vars PROVE Rows' /\ Settling'
    OBVIOUS
  <1>1. ASSUME Mine PROVE Rows' /\ Settling'
    <2>1. UNCHANGED <<phase, linked, runs, status, api, at, faults>>
      BY <1>1, MineEffect
    <2>. QED
      BY <2>1 DEF Rows, Settling, Working
  <1>2. ASSUME Unlink PROVE Rows' /\ Settling'
    BY <1>2, UnlinkEffect DEF Rows, Settling
  <1>3. ASSUME NEW j \in CronJobs, CronSend(j) PROVE Rows' /\ Settling'
    <2>1. Passes(j, "new", "queued", None) /\ Kept /\ UNCHANGED api /\ j \in Jobs /\ j \notin ApiJobs
      BY <1>3, CronSendEffect, Constants, PipelineAssumption
    <2>2. \A k \in ApiJobs : phase'[k] # "new" => phase[k] # "new"
      BY <2>1, Constants DEF Passes
    <2>3. Rows'
      BY <2>1, <2>2, RowsStay DEF Kept
    <2>4. Working'
      BY <2>1 DEF Working, Passes
    <2>. QED
      BY <2>3, <2>4 DEF Settling
  <1>4. ASSUME NEW j \in Jobs, JobTrouble(j) PROVE Rows' /\ Settling'
    <2>1. CASE Throw(j)
      <3>1. UNCHANGED <<phase, linked, runs, api>> /\ Goes(j, at[j], "failRun")
        BY <2>1, ThrowEffect
      <3>2. Rows'
        BY <3>1, RowsStay
      <3>3. Working'
        BY <3>1, StillWorking DEF Idle, None
      <3>. QED
        BY <3>2, <3>3 DEF Settling
    <2>2. CASE ThrowOutside(j)
      <3>1. Kept /\ UNCHANGED <<phase, api>> /\ faults' # 0
        BY <2>2, ThrowOutsideEffect
      <3>2. Rows'
        BY <3>1, RowsStay DEF Kept
      <3>. QED
        BY <3>1, <3>2 DEF Settling
    <2>3. CASE WorkerDies(j)
      <3>1. Kept /\ UNCHANGED api /\ Passes(j, "running", "lost", None) /\ faults' # 0
        BY <2>3, DiesEffect
      <3>2. \A k \in ApiJobs : phase'[k] # "new" => phase[k] # "new"
        BY <3>1, Constants DEF Passes
      <3>3. Rows'
        BY <3>1, <3>2, RowsStay DEF Kept
      <3>. QED
        BY <3>1, <3>3 DEF Settling
    <2>. QED
      BY <1>4, <2>1, <2>2, <2>3 DEF JobTrouble
  <1>5. CASE UNCHANGED vars
    BY <1>5 DEF vars, deliveryVars, chainVars, walletVars, profileVars, budget,
                Rows, Settling, Working
  <1>. QED
    BY <1>1, <1>2, <1>3, <1>4, <1>5, SettlingJob, SettlingCall DEF Next

LEMMA SettlingHolds == Spec => [](Rows /\ Settling)
  <1>1. Init => Rows /\ Settling
    <2>. SUFFICES ASSUME Init PROVE Rows /\ Settling
      OBVIOUS
    <2>1. /\ \A j \in ApiJobs : phase[j] = "new" /\ api[j] = None
          /\ status = "created"
      BY Constants DEF Init, DeliveryInit
    <2>. QED
      BY <2>1 DEF Rows, Settling, None
  <1>. QED
    BY <1>1, SettlingStep, BaseHolds, PTL DEF Spec

\* IndexPipeline!StuckExplained: the API sets "indexing" before the run and the job exist, and
\* processJob sets it back; for any number of overlapping calls, jobs and workers, with
\* exceptions at every await, nothing in between leaves the profile "indexing" for good.
THEOREM NotStuck == Spec => []StuckExplained
  <1>1. Base /\ Settling => StuckExplained
    <2>. SUFFICES ASSUME Base, Working PROVE ~Quiet
      BY DEF Settling, StuckExplained
    <2>1. CASE \E j \in ApiJobs : api[j] \in {"status", "row"}
      BY <2>1 DEF Quiet, Calling
    <2>2. CASE \E j \in Jobs : phase[j] = "queued" \/ at[j] \notin Idle
      BY <2>2 DEF Quiet, Base, Hands, Idle
    <2>. QED
      BY <2>1, <2>2 DEF Working
  <1>. QED
    BY <1>1, SettlingHolds, BaseHolds, PTL

----------------------------------------------------------------------------
(* One worker: no transaction is scored twice or skipped *)

Alone == \A j, k \in Jobs : at[j] # None /\ at[k] # None => j = k

\* Every other job waits.
LEMMA AloneStays ==
    ASSUME Alone, \A j \in Jobs : at'[j] # None => at[j] # None
    PROVE  Alone'
  BY DEF Alone

LEMMA AloneReceive ==
    ASSUME WorkerCount = 1, Base, Alone, NEW j \in Jobs, Receive(j)
    PROVE  Alone'
  <1>. DEFINE Run == {k \in Jobs : phase[k] = "running"}
  <1>1. Cardinality(Run) < 1
    BY DEF Receive
  <1>2. ASSUME NEW k \in Run PROVE FALSE
    <2>1. Run = {k}
      BY <1>2 DEF Base, Hands, Alone
    <2>2. Cardinality({k}) = 1
      BY FS_Singleton
    <2>. HIDE DEF Run
    <2>3. Cardinality(Run) = 1
      BY <2>1, <2>2
    <2>. QED
      BY <1>1, <2>3
  <1>3. \A k \in Jobs : at[k] = None
    BY <1>2 DEF Base, Hands
  <1>4. \A k \in Jobs \ {j} : at'[k] = at[k]
    BY ReceiveEffect DEF Passes
  <1>. QED
    BY <1>3, <1>4 DEF Alone

LEMMA AloneStep == ASSUME WorkerCount = 1 PROVE Base /\ Alone /\ [Next]_vars => Alone'
  <1>. SUFFICES ASSUME Base, Alone, [Next]_vars PROVE Alone'
    OBVIOUS
  <1>1. ASSUME NEW j \in Jobs, JobStep(j) PROVE Alone'
    <2>1. CASE Receive(j)
      BY <2>1, AloneReceive
    <2>2. CASE Return(j) \/ TryAgain(j)
      <3>1. \E from, to : Passes(j, from, to, None)
        BY <2>2, ReturnEffect, TryAgainEffect
      <3>2. \A k \in Jobs : at'[k] # None => at[k] # None
        BY <3>1 DEF Passes
      <3>. QED
        BY <3>2, AloneStays
    <2>3. CASE ~(Receive(j) \/ Return(j) \/ TryAgain(j))
      <3>1. \E here \in Awaits \ {None} : \E next : Await(j, here, next)
        BY <1>1, <2>3 DEF JobStep, LoadWallet, LoadRun, ReadHead, ReadCursor, Mark, Reconcile,
           Store, Advance, Persist, SyncAwards, ReadProfile, ReadAwards, Aggregate, Around,
           Publish, Complete, Activate, FailRun, FailProfile, Awaits, TryAwaits, None
      <3>2. at[j] # None /\ \A k \in Jobs \ {j} : at'[k] = at[k]
        BY <3>1 DEF Await, Base, TypeOK
      <3>3. \A k \in Jobs : at'[k] # None => at[k] # None
        BY <3>2
      <3>. QED
        BY <3>3, AloneStays
    <2>. QED
      BY <2>1, <2>2, <2>3
  <1>2. ASSUME NEW j \in Jobs, JobTrouble(j) PROVE Alone'
    <2>1. at[j] # None /\ \A k \in Jobs \ {j} : at'[k] = at[k]
      <3>1. CASE Throw(j)
        BY <3>1, ThrowEffect, AwaitNames DEF Goes
      <3>2. CASE ThrowOutside(j)
        BY <3>2, ThrowOutsideEffect DEF Goes
      <3>3. CASE WorkerDies(j)
        BY <3>3, DiesEffect DEF Passes, Base, Hands
      <3>. QED
        BY <1>2, <3>1, <3>2, <3>3 DEF JobTrouble
    <2>2. \A k \in Jobs : at'[k] # None => at[k] # None
      BY <2>1
    <2>. QED
      BY <2>2, AloneStays
  <1>3. ASSUME NEW j \in ApiJobs, ApiStatus(j) \/ ApiStep(j) \/ ApiFails(j) PROVE Alone'
    <2>1. at' = at
      BY <1>3 DEF ApiStatus, ApiStep, ApiRun, ApiSend, ApiFails
    <2>. QED
      BY <2>1, AloneStays
  <1>4. ASSUME \/ Mine \/ Unlink \/ UNCHANGED vars \/ \E j \in CronJobs : CronSend(j)
        PROVE  Alone'
    <2>1. at' = at
      BY <1>4 DEF Mine, Unlink, vars, CronSend
    <2>. QED
      BY <2>1, AloneStays
  <1>. QED
    BY <1>1, <1>2, <1>3, <1>4 DEF Next

\* While the range is chosen and the cursor has not moved.
Chosen == {"mark", "reconcile", "store", "advance"}
\* While what was fetched is in use.
InUse == Chosen \cup {"cursor", "snapshot"} \cup After

Counts(j) ==
    /\ at[j] \in InUse => Inside(j)
    /\ at[j] \in Chosen \cup {"cursor"} => cursor <= loc[j].to
    /\ at[j] \in Chosen => loc[j].from = FromBlock(loc[j].to)
    /\ at[j] = "advance" => Fetched(j) \subseteq facts
    /\ at[j] = "snapshot" =>
           /\ cursor = loc[j].to
           /\ \A i \in 1..Len(snapshots) : \A b \in snapshots[i].inputs : b < loc[j].from

\* The snapshots lie behind the cursor and apart; the range of a job begins after it.
Apart ==
    /\ cursor <= head
    /\ \A i \in 1..Len(snapshots) : \A b \in snapshots[i].inputs : b <= cursor
    /\ ScoredAtMostOnce

Counted == Apart /\ (linked => \A j \in Jobs : Counts(j))

LEMMA ApartStays ==
    ASSUME Base, Apart, cursor' = cursor, snapshots' = snapshots, head' = head
    PROVE  Apart'
  BY DEF Apart, ScoredAtMostOnce

\* No job goes on with its range.
LEMMA CountedStays ==
    ASSUME Base, Counted, UNCHANGED <<cursor, snapshots, head, activity, linked, loc>>,
           facts \subseteq facts',
           \A j \in Jobs : at'[j] \in InUse => at'[j] = at[j]
    PROVE  Counted'
  <1>1. Apart'
    BY ApartStays DEF Counted
  <1>2. ASSUME linked', NEW j \in Jobs PROVE Counts(j)'
    <2>1. Counts(j) /\ Fetched(j)' = Fetched(j) /\ FromBlock(loc[j].to)' = FromBlock(loc[j].to)
      BY <1>2 DEF Counted, Fetched, FromBlock
    <2>2. Chosen \cup {"cursor", "snapshot", "advance"} \subseteq InUse
      BY DEF InUse, Chosen
    <2>3. CASE at'[j] \in InUse
      <3>1. at'[j] = at[j]
        BY <2>3
      <3>. QED
        BY <2>1, <3>1 DEF Counts, Inside
    <2>4. CASE at'[j] \notin InUse
      BY <2>2, <2>4 DEF Counts
    <2>. QED
      BY <2>3, <2>4
  <1>. QED
    BY <1>1, <1>2 DEF Counted

\* The one job in work goes on.
LEMMA CountedWorks ==
    ASSUME Alone', Apart', NEW j \in Jobs, at'[j] # None, linked' => Counts(j)'
    PROVE  Counted'
  <1>1. \A k \in Jobs : k # j => at'[k] = None
    BY DEF Alone
  <1>2. None \notin InUse /\ Chosen \cup {"cursor", "snapshot", "advance"} \subseteq InUse
    BY DEF InUse, Chosen, After, None
  <1>3. \A k \in Jobs : k # j => Counts(k)'
    BY <1>1, <1>2 DEF Counts
  <1>. QED
    BY <1>3 DEF Counted

LEMMA CountedRange ==
    ASSUME Base, Base', Alone', Counted, NEW j \in Jobs, ReadHead(j) \/ ReadCursor(j) \/ Mark(j)
    PROVE  Counted'
  <1>1. /\ UNCHANGED <<head, activity, linked, cursor, facts, snapshots>>
        /\ head \in Int /\ cursor \in Int /\ Apart
    BY ReadHeadEffect, ReadCursorEffect, MarkEffect, Parts DEF Elsewhere, Counted, Blocks, NoBlock
  <1>2. Apart'
    BY <1>1, ApartStays
  <1>3. CASE ReadHead(j)
    <2>1. Goes(j, "head", "cursor") /\ loc'[j].to = head
      BY <1>3, ReadHeadEffect
    <2>2. Counts(j)'
      BY <1>1, <2>1 DEF Goes, Counts, Inside, Apart, Chosen
    <2>. QED
      BY <1>2, <2>1, <2>2, CountedWorks DEF Goes, None
  <1>4. CASE ReadCursor(j)
    <2>1. /\ Goes(j, "cursor", "mark") /\ loc'[j].to = loc[j].to
          /\ loc'[j].from = FromBlock(loc[j].to)
      BY <1>4, ReadCursorEffect
    <2>2. loc'[j].from = FromBlock(loc[j].to)'
      BY <1>1, <2>1 DEF FromBlock
    <2>3. linked => Inside(j) /\ cursor <= loc[j].to
      BY <2>1 DEF Goes, Counted, Counts, InUse
    <2>4. linked' => Counts(j)'
      BY <1>1, <2>1, <2>2, <2>3 DEF Goes, Counts, Inside, Chosen
    <2>. QED
      BY <1>2, <2>1, <2>4, CountedWorks DEF Goes, None
  <1>5. CASE Mark(j)
    <2>1. loc' = loc
      BY <1>5, MarkEffect
    <2>2. CASE linked
      <3>1. Goes(j, "mark", "reconcile")
        BY <1>5, <2>2, MarkEffect
      <3>2. Inside(j) /\ cursor <= loc[j].to /\ loc[j].from = FromBlock(loc[j].to)
        BY <2>2, <3>1 DEF Goes, Counted, Counts, InUse, Chosen
      <3>3. Counts(j)'
        BY <1>1, <2>1, <3>1, <3>2 DEF Goes, Counts, Inside, Chosen, FromBlock
      <3>. QED
        BY <1>2, <3>1, <3>3, CountedWorks DEF Goes, None
    <2>3. CASE ~linked
      BY <1>1, <1>2, <2>3 DEF Counted
    <2>. QED
      BY <2>2, <2>3
  <1>. QED
    BY <1>3, <1>4, <1>5

LEMMA CountedStore ==
    ASSUME Base, Base', Alone', Counted, NEW j \in Jobs, Reconcile(j) \/ Store(j)
    PROVE  Counted'
  <1>1. /\ UNCHANGED <<head, activity, linked, cursor, snapshots, loc>> /\ Apart
        /\ \/ Goes(j, "reconcile", "store")
           \/ Goes(j, "store", "advance") /\ Fetched(j) \subseteq facts'
           \/ Goes(j, "store", "failRun")
    BY ReconcileEffect, StoreEffect DEF Elsewhere, Counted
  <1>2. Apart'
    BY <1>1, ApartStays
  <1>3. linked => Inside(j) /\ cursor <= loc[j].to /\ loc[j].from = FromBlock(loc[j].to)
    BY <1>1 DEF Goes, Counted, Counts, InUse, Chosen
  <1>4. Fetched(j)' = Fetched(j)
    BY <1>1 DEF Fetched
  <1>5. linked' => Counts(j)'
    <2>1. ASSUME linked PROVE Inside(j)' /\ (cursor <= loc[j].to)' /\ (loc[j].from = FromBlock(loc[j].to))'
      BY <1>1, <1>3, <2>1 DEF Inside, FromBlock
    <2>2. at'[j] \in {"store", "advance", "failRun"} /\ (at'[j] = "advance" => Fetched(j)' \subseteq facts')
      BY <1>1, <1>4 DEF Goes
    <2>. QED
      BY <1>1, <2>1, <2>2 DEF Counts
  <1>. QED
    BY <1>1, <1>2, <1>5, CountedWorks DEF Goes, None

\* The range begins after all that was scored.
LEMMA CountedAdvance ==
    ASSUME Base, Base', Alone', Counted, NEW j \in Jobs, Advance(j)
    PROVE  Counted'
  <1>1. UNCHANGED <<head, linked, snapshots, loc>> /\ Apart
    BY AdvanceEffect DEF Elsewhere, Counted
  <1>2. CASE ~linked
    BY <1>1, <1>2, AdvanceEffect, ApartStays DEF Counted
  <1>3. CASE linked
    <2>1. Goes(j, "advance", "snapshot") /\ cursor' = loc[j].to
      BY <1>3, AdvanceEffect
    <2>2. loc[j].to <= head /\ cursor <= loc[j].to /\ loc[j].from = FromBlock(loc[j].to)
      BY <1>3, <2>1 DEF Goes, Counted, Counts, InUse, Chosen, Inside
    <2>3. /\ cursor \in Int /\ loc[j].to \in Blocks /\ loc[j].from \in Int
          /\ snapshots \in Seq(Snapshot)
      BY Parts, Constants DEF NoBlock
    <2>4. ASSUME NEW i \in 1..Len(snapshots), NEW b \in snapshots[i].inputs
          PROVE  b <= loc[j].to /\ b < loc[j].from
      <3>1. b <= cursor /\ snapshots[i] \in Snapshot
        BY <1>1, <2>3 DEF Apart
      <3>2. b \in Int /\ b >= 0
        BY <3>1, Constants DEF Snapshot
      <3>3. cursor # NoBlock
        BY <3>1, <3>2 DEF NoBlock
      <3>4. loc[j].from = cursor + 1
        BY <2>2, <2>3, <3>3, FromType
      <3>. QED
        BY <2>2, <2>3, <3>1, <3>2, <3>4, Constants
    <2>5. Apart'
      BY <1>1, <2>1, <2>2, <2>4 DEF Apart, ScoredAtMostOnce
    <2>6. Counts(j)'
      BY <1>1, <2>1, <2>2, <2>4 DEF Goes, Counts, Inside, Chosen
    <2>. QED
      BY <2>1, <2>5, <2>6, CountedWorks DEF Goes, None
  <1>. QED
    BY <1>2, <1>3

LEMMA CountedPersist ==
    ASSUME Base, Base', Alone', Counted, NEW j \in Jobs, Persist(j)
    PROVE  Counted'
  <1>1. UNCHANGED <<head, linked, cursor, loc>> /\ Apart
    BY PersistEffect DEF Elsewhere, Counted
  <1>2. CASE ~linked
    BY <1>1, <1>2, PersistEffect, ApartStays DEF Counted
  <1>3. CASE linked
    <2>1. /\ Goes(j, "snapshot", "badges") /\ snapshots' = Append(snapshots, Taken(j))
          /\ Taken(j) \in Snapshot /\ snapshots \in Seq(Snapshot)
      BY <1>3, PersistEffect, Parts
    <2>2. /\ Inside(j) /\ cursor = loc[j].to
          /\ \A i \in 1..Len(snapshots) : \A b \in snapshots[i].inputs : b < loc[j].from
      BY <1>3, <2>1 DEF Goes, Counted, Counts, InUse
    <2>. DEFINE n == Len(snapshots)
    <2>3. /\ n \in Nat /\ Len(snapshots') = n + 1 /\ snapshots'[n + 1] = Taken(j)
          /\ \A i \in 1..n : snapshots'[i] = snapshots[i] /\ snapshots[i] \in Snapshot
      BY <2>1
    <2>4. \A b \in Taken(j).inputs : b \in Int /\ loc[j].from <= b /\ b <= loc[j].to
      BY DEF Taken, Fetched
    <2>5. loc[j].from \in Int /\ \A i \in 1..n : \A b \in snapshots[i].inputs : b \in Int
      BY <2>3, Parts, Constants DEF Snapshot
    <2>. HIDE DEF n
    <2>6. ASSUME NEW i \in 1..n PROVE snapshots'[i].inputs \cap Taken(j).inputs = {}
      <3>1. \A b \in snapshots[i].inputs : b < loc[j].from /\ b \in Int
        BY <2>2, <2>5 DEF n
      <3>. QED
        BY <2>3, <2>4, <2>5, <3>1
    <2>7. ASSUME NEW i \in 1..(n + 1), NEW k \in 1..(n + 1), i # k
          PROVE  snapshots'[i].inputs \cap snapshots'[k].inputs = {}
      <3>1. CASE i = n + 1
        BY <2>3, <2>6, <2>7, <3>1
      <3>2. CASE k = n + 1
        BY <2>3, <2>6, <2>7, <3>2
      <3>3. CASE i # n + 1 /\ k # n + 1
        <4>1. i \in 1..n /\ k \in 1..n
          BY <2>3, <3>3
        <4>. QED
          BY <1>1, <2>3, <2>7, <4>1 DEF Apart, ScoredAtMostOnce, n
      <3>. QED
        BY <3>1, <3>2, <3>3
    <2>8. ASSUME NEW i \in 1..(n + 1), NEW b \in snapshots'[i].inputs PROVE b <= cursor
      <3>1. CASE i = n + 1
        BY <2>2, <2>3, <2>4, <2>8, <3>1
      <3>2. CASE i # n + 1
        <4>1. i \in 1..n
          BY <2>3, <3>2
        <4>. QED
          BY <1>1, <2>3, <2>8, <4>1 DEF Apart, n
      <3>. QED
        BY <3>1, <3>2
    <2>9. Apart'
      BY <1>1, <2>3, <2>7, <2>8 DEF Apart, ScoredAtMostOnce
    <2>10. Counts(j)'
      BY <1>1, <2>1, <2>2 DEF Goes, Counts, Inside, Chosen
    <2>. QED
      BY <2>1, <2>9, <2>10, CountedWorks DEF Goes, None
  <1>. QED
    BY <1>2, <1>3

\* The awaits behind the snapshot keep the range.
LEMMA CountedAfter ==
    ASSUME Base, Base', Alone', Counted, NEW j \in Jobs,
           \/ SyncAwards(j) \/ ReadProfile(j) \/ ReadAwards(j) \/ Aggregate(j)
           \/ Around(j) \/ Publish(j)
    PROVE  Counted'
  <1>1. /\ UNCHANGED <<head, linked, cursor, snapshots>> /\ Apart /\ loc'[j].to = loc[j].to
        /\ \E here \in After : \E next \in (After \ {"badges"}) \cup {"failRun"} :
               Goes(j, here, next)
    BY SyncAwardsEffect, ReadProfileEffect, ReadAwardsEffect, AggregateEffect, AroundEffect,
       PublishEffect DEF Elsewhere, Counted, After
  <1>2. linked => Inside(j)
    BY <1>1 DEF Goes, Counted, Counts, InUse
  <1>3. /\ at'[j] \notin Chosen \cup {"cursor", "advance", "snapshot", None}
        /\ linked' => Inside(j)'
    BY <1>1, <1>2 DEF Goes, Inside, Chosen, After, None
  <1>4. linked' => Counts(j)'
    BY <1>3 DEF Counts
  <1>. QED
    BY <1>1, <1>3, <1>4, ApartStays, CountedWorks

LEMMA CountedStep ==
    Base /\ Base' /\ Alone' /\ Counted /\ [Next]_vars => Counted'
  <1>. SUFFICES ASSUME Base, Base', Alone', Counted, [Next]_vars PROVE Counted'
    OBVIOUS
  <1>0. None \notin InUse /\ {"load", "findRun", "head", "returned", "failRun", "failProfile",
                              "threw", "activate"} \cap InUse = {}
    BY DEF InUse, Chosen, After, None
  <1>1. ASSUME NEW j \in Jobs, JobStep(j) PROVE Counted'
    <2>1. CASE \/ LoadWallet(j) \/ LoadRun(j) \/ Complete(j) \/ Activate(j) \/ FailRun(j)
               \/ FailProfile(j)
      <3>1. /\ UNCHANGED <<cursor, snapshots, head, activity, linked, loc, facts>>
            /\ \E here : \E next \in {"findRun", "head", "returned", "activate", "failRun",
                                     "failProfile", "threw"} : Goes(j, here, next)
        BY <2>1, LoadWalletEffect, LoadRunEffect, CompleteEffect, ActivateEffect,
           FailRunEffect, FailProfileEffect DEF Elsewhere
      <3>2. \A k \in Jobs : at'[k] \in InUse => at'[k] = at[k]
        BY <1>0, <3>1 DEF Goes
      <3>. QED
        BY <3>1, <3>2, CountedStays
    <2>2. CASE Receive(j) \/ Return(j) \/ TryAgain(j)
      <3>1. Kept /\ \E from, to : \E next \in {None, "load"} : Passes(j, from, to, next)
        BY <2>2, ReceiveEffect, ReturnEffect, TryAgainEffect
      <3>2. \A k \in Jobs : at'[k] \in InUse => at'[k] = at[k]
        BY <1>0, <3>1 DEF Passes
      <3>. QED
        BY <3>1, <3>2, CountedStays DEF Kept
    <2>. QED
      BY <1>1, <2>1, <2>2, CountedRange, CountedStore, CountedAdvance, CountedPersist,
         CountedAfter DEF JobStep
  <1>2. ASSUME NEW j \in Jobs, JobTrouble(j) PROVE Counted'
    <2>1. /\ UNCHANGED <<cursor, snapshots, head, activity, linked, loc>> /\ facts \subseteq facts'
          /\ \A k \in Jobs \ {j} : at'[k] = at[k]
          /\ at'[j] \in {"failRun", "threw", None}
      <3>1. CASE Throw(j)
        BY <3>1, ThrowEffect DEF Goes
      <3>2. CASE ThrowOutside(j)
        BY <3>2, ThrowOutsideEffect DEF Goes, Kept
      <3>3. CASE WorkerDies(j)
        BY <3>3, DiesEffect DEF Passes, Kept
      <3>. QED
        BY <1>2, <3>1, <3>2, <3>3 DEF JobTrouble
    <2>2. \A k \in Jobs : at'[k] \in InUse => at'[k] = at[k]
      BY <1>0, <2>1
    <2>. QED
      BY <2>1, <2>2, CountedStays
  <1>3. CASE \/ \E j \in ApiJobs : ApiStatus(j) \/ ApiStep(j) \/ ApiFails(j)
             \/ \E j \in CronJobs : CronSend(j)
             \/ UNCHANGED vars
    <2>1. UNCHANGED <<cursor, snapshots, head, activity, linked, loc, facts, at>>
      BY <1>3 DEF ApiStatus, ApiStep, ApiRun, ApiSend, ApiFails, CronSend, vars, chainVars,
         walletVars, profileVars
    <2>. QED
      BY <2>1, CountedStays
  <1>4. CASE Mine
    <2>1. /\ head' = head + 1 /\ activity' \in {activity, activity \cup {head + 1}}
          /\ UNCHANGED <<linked, cursor, facts, snapshots, at, loc>> /\ head \in Blocks
      BY <1>4, MineEffect, Parts
    <2>2. Apart'
      <3>1. cursor \in Int /\ head \in Int /\ cursor <= head
        BY <2>1, Parts, Constants DEF Counted, Apart, NoBlock
      <3>2. cursor' <= head'
        BY <2>1, <3>1
      <3>. QED
        BY <2>1, <3>2 DEF Counted, Apart, ScoredAtMostOnce
    <2>3. ASSUME linked, NEW j \in Jobs PROVE Counts(j)'
      <3>1. Counts(j) /\ loc[j].to \in Blocks /\ loc[j].from \in 0..(MaxHead + 1)
        BY <2>3, Parts DEF Counted
      <3>2. Inside(j) => Inside(j)'
        BY <2>1, <3>1, Constants DEF Inside
      <3>3. Inside(j) => Fetched(j)' = Fetched(j)
        BY <2>1, <3>1, Constants DEF Inside, Fetched
      <3>4. "advance" \in InUse
        BY DEF InUse, Chosen
      <3>. QED
        BY <2>1, <3>1, <3>2, <3>3, <3>4 DEF Counts, FromBlock
    <2>. QED
      BY <2>1, <2>2, <2>3 DEF Counted
  <1>5. CASE Unlink
    <2>1. ~linked' /\ snapshots' = << >> /\ cursor' = NoBlock /\ head' = head
      BY <1>5, UnlinkEffect
    <2>2. cursor' <= head'
      BY <2>1, Parts, Constants DEF NoBlock
    <2>. QED
      BY <2>1, <2>2 DEF Counted, Apart, ScoredAtMostOnce
  <1>. QED
    BY <1>1, <1>2, <1>3, <1>4, <1>5 DEF Next

LEMMA CountedHolds == ASSUME WorkerCount = 1 PROVE Spec => [](Base /\ Alone /\ Counted)
  <1>1. Init => Alone /\ Counted
    <2>. SUFFICES ASSUME Init PROVE Alone /\ Counted
      OBVIOUS
    <2>1. \A j \in Jobs : at[j] = None
      BY DEF Init
    <2>2. Alone
      BY <2>1 DEF Alone
    <2>3. snapshots = << >> /\ cursor <= head
      BY Constants DEF Init, NoBlock
    <2>4. \A j \in Jobs : Counts(j)
      BY <2>1 DEF Counts, InUse, Chosen, After, None
    <2>. QED
      BY <2>2, <2>3, <2>4 DEF Counted, Apart, ScoredAtMostOnce
  <1>. QED
    BY <1>1, AloneStep, CountedStep, BaseHolds, PTL DEF Spec

\* IndexPipeline!ScoredAtMostOnce: with one worker, each range starts after the cursor, and the
\* cursor moves to its end before the snapshot is written; so no transaction is in two
\* snapshots, whatever throws, dies, is retried or comes while a job is in work.
THEOREM ScoredOnce == ASSUME WorkerCount = 1 PROVE Spec => []ScoredAtMostOnce
  <1>1. Counted => ScoredAtMostOnce
    BY DEF Counted, Apart
  <1>. QED
    BY <1>1, CountedHolds, PTL

LEMMA CursorPasses ==
    ASSUME Base, Counted, [Next]_vars, linked', cursor' # cursor
    PROVE  /\ cursor' > cursor
           /\ activity \cap ((IF cursor = NoBlock THEN cursor' - Lookback ELSE cursor + 1)
                             .. cursor') \subseteq facts
  <1>1. PICK j \in Jobs : Advance(j)
    <2>1. ASSUME NEW j \in Jobs, JobStep(j), ~Advance(j) PROVE FALSE
      BY <2>1 DEF JobStep, Receive, LoadWallet, LoadRun, ReadHead, ReadCursor, Mark, Reconcile,
         Store, Persist, SyncAwards, ReadProfile, ReadAwards, Aggregate, Around, Publish,
         Complete, Activate, FailRun, FailProfile, Return, TryAgain, walletVars
    <2>2. ASSUME NEW j \in Jobs, JobTrouble(j) PROVE FALSE
      BY <2>2 DEF JobTrouble, Throw, ThrowOutside, WorkerDies, Trouble
    <2>3. ASSUME NEW j \in ApiJobs, ApiStatus(j) \/ ApiStep(j) \/ ApiFails(j) PROVE FALSE
      BY <2>3 DEF ApiStatus, ApiStep, ApiRun, ApiSend, ApiFails, walletVars
    <2>4. ~(\/ Mine \/ Unlink \/ UNCHANGED vars \/ \E j \in CronJobs : CronSend(j))
      BY DEF Mine, Unlink, CronSend, vars, walletVars
    <2>. QED
      BY <2>1, <2>2, <2>3, <2>4 DEF Next
  <1>2. linked /\ Goes(j, "advance", "snapshot") /\ cursor' = loc[j].to
    BY <1>1, AdvanceEffect
  <1>3. /\ cursor <= loc[j].to /\ loc[j].from = FromBlock(loc[j].to)
        /\ Fetched(j) \subseteq facts
    BY <1>2 DEF Goes, Counted, Counts, Chosen
  <1>4. /\ cursor \in Int /\ loc[j].to \in Int /\ Lookback \in Int
        /\ \A b \in activity : b \in Int /\ b >= 0
    BY Parts, Constants DEF NoBlock, Base, TypeOK
  <1>5. cursor' > cursor
    BY <1>2, <1>3, <1>4
  <1>6. CASE cursor = NoBlock
    <2>1. loc[j].from = 0 \/ loc[j].from = cursor' - Lookback
      BY <1>2, <1>3, <1>6, Parts, FromType
    <2>2. activity \cap ((cursor' - Lookback) .. cursor') \subseteq Fetched(j)
      BY <1>2, <1>4, <2>1 DEF Fetched
    <2>. QED
      BY <1>3, <1>5, <1>6, <2>2
  <1>7. CASE cursor # NoBlock
    <2>1. loc[j].from = cursor + 1
      BY <1>3, <1>7, Parts, FromType
    <2>. QED
      BY <1>2, <1>3, <1>5, <1>7, <2>1 DEF Fetched
  <1>. QED
    BY <1>6, <1>7

\* IndexPipeline!CursorNeverSkips: with one worker, updateCursor only moves the cursor up, and
\* every transaction that it passes was stored before (its facts then survive until the next
\* reconciliation), for every chain and every lookback.
THEOREM NothingSkipped == ASSUME WorkerCount = 1 PROVE Spec => CursorNeverSkips
  <1>1. Base /\ Counted /\ [Next]_vars =>
            [(linked' /\ cursor' # cursor) =>
                LET since == IF cursor = NoBlock THEN cursor' - Lookback ELSE cursor + 1
                IN  /\ cursor' > cursor
                    /\ activity \cap (since .. cursor') \subseteq facts]_vars
    BY CursorPasses
  <1>. QED
    BY <1>1, CountedHolds, PTL DEF Spec, CursorNeverSkips

----------------------------------------------------------------------------
(* One worker: snapshot, awards and payload come from one scoring *)

\* The awaits at which the run of a job is marked "running".
InWork == {"reconcile", "store", "advance", "snapshot"} \cup After

View(j) ==
    /\ at[j] \in InWork => runs[RunOf(j)] = "running"
    /\ at[j] \in After => snapshots # << >> /\ Last = Taken(j)
    /\ at[j] \in After \ {"badges"} => awarded = Fetched(j)
    /\ at[j] \in {"dao", "metrics", "version", "publish"} => loc[j].badges = Fetched(j)
    /\ at[j] \in {"announce", "complete"} =>
           payload.inputs = Fetched(j) /\ payload.badges = Fetched(j)

Agreed ==
    (snapshots # << >> /\ runs[Last.run] = "completed") =>
        /\ awarded = Last.inputs /\ payload.inputs = Last.inputs
        /\ payload.badges = Last.inputs

Views == linked => Agreed /\ \A j \in Jobs : View(j)

LEMMA LastType == ASSUME Base, snapshots # << >> PROVE Last \in Snapshot /\ Last.run \in Runs
  <1>1. snapshots \in Seq(Snapshot)
    BY Parts
  <1>2. Last \in Snapshot
    BY <1>1 DEF Last
  <1>. QED
    BY <1>2 DEF Snapshot

\* No run gets completed, and no job goes on from its range to the payload.
LEMMA ViewsStays ==
    ASSUME Base, Views, UNCHANGED <<linked, snapshots, awarded, payload>>,
           \A r \in Runs : runs'[r] = "completed" => runs[r] = "completed",
           \A j \in Jobs : at'[j] \in InWork =>
               /\ at'[j] = at[j] /\ Taken(j)' = Taken(j) /\ loc'[j] = loc[j]
               /\ runs'[RunOf(j)] = runs[RunOf(j)]
    PROVE  Views'
  <1>. SUFFICES ASSUME linked PROVE Agreed' /\ \A j \in Jobs : View(j)'
    BY DEF Views
  <1>1. Agreed'
    BY LastType DEF Views, Agreed, Last
  <1>2. ASSUME NEW j \in Jobs PROVE View(j)'
    <2>1. CASE at'[j] \in InWork
      <3>1. /\ View(j) /\ at'[j] = at[j] /\ Taken(j)' = Taken(j) /\ loc'[j] = loc[j]
            /\ runs'[RunOf(j)] = runs[RunOf(j)]
        BY <2>1 DEF Views
      <3>2. RunOf(j)' = RunOf(j) /\ Fetched(j)' = Fetched(j)
        BY <3>1 DEF Taken
      <3>. QED
        BY <3>1, <3>2 DEF View, Last
    <2>2. CASE at'[j] \notin InWork
      BY <2>2 DEF View, InWork, After
    <2>. QED
      BY <2>1, <2>2
  <1>. QED
    BY <1>1, <1>2

\* The one job in work goes on.
LEMMA ViewsWorks ==
    ASSUME Alone', NEW j \in Jobs, at'[j] # None, linked' => Agreed' /\ View(j)'
    PROVE  Views'
  <1>1. \A k \in Jobs : k # j => at'[k] = None
    BY DEF Alone
  <1>2. \A k \in Jobs : k # j => View(k)'
    BY <1>1 DEF View, InWork, After, None
  <1>. QED
    BY <1>2 DEF Views

\* The awaits before and behind the scoring.
LEMMA ViewsOutside ==
    ASSUME Base, Alone, Views, NEW j \in Jobs,
           \/ LoadWallet(j) \/ LoadRun(j) \/ ReadHead(j) \/ ReadCursor(j) \/ FailRun(j)
           \/ Activate(j) \/ FailProfile(j) \/ Receive(j) \/ Return(j) \/ TryAgain(j) \/ JobTrouble(j)
    PROVE  Views'
  <1>1. CASE \/ LoadWallet(j) \/ LoadRun(j) \/ ReadHead(j) \/ ReadCursor(j) \/ FailRun(j)
             \/ Activate(j) \/ FailProfile(j)
    <2>1. /\ Elsewhere /\ UNCHANGED <<linked, snapshots, awarded, payload>>
          /\ \E here \in {"load", "findRun", "head", "cursor", "failRun", "activate",
                          "failProfile"} :
             \E next \in {"findRun", "head", "returned", "cursor", "mark", "failProfile",
                          "threw"} :
                 Goes(j, here, next)
          /\ runs' = runs \/ Wrote(j, "pending") \/ Wrote(j, "failed")
      BY <1>1, LoadWalletEffect, LoadRunEffect, ReadHeadEffect, ReadCursorEffect,
         FailRunEffect, ActivateEffect, FailProfileEffect
    <2>2. at[j] # None /\ at'[j] \notin InWork /\ \A k \in Jobs \ {j} : at'[k] = at[k]
      BY <2>1 DEF Goes, None, InWork, After
    <2>3. \A k \in Jobs : at'[k] \notin InWork
      BY <2>2 DEF Alone, InWork, After, None
    <2>4. \A r \in Runs : runs'[r] = "completed" => runs[r] = "completed"
      BY <2>1, WroteOther
    <2>. QED
      BY <2>1, <2>3, <2>4, ViewsStays
  <1>2. CASE Receive(j) \/ Return(j) \/ TryAgain(j) \/ JobTrouble(j)
    <2>1. /\ UNCHANGED <<linked, snapshots, awarded, payload, runs, activity, loc>>
          /\ at'[j] \in {None, "load", "failRun", "threw"}
          /\ \A k \in Jobs \ {j} : at'[k] = at[k] /\ tries'[k] = tries[k]
      <3>1. CASE Receive(j) \/ Return(j) \/ TryAgain(j) \/ WorkerDies(j)
        BY <3>1, ReceiveEffect, ReturnEffect, TryAgainEffect, DiesEffect DEF Kept, Passes
      <3>2. CASE Throw(j) \/ ThrowOutside(j)
        BY <3>2, ThrowEffect, ThrowOutsideEffect DEF Kept, Goes
      <3>. QED
        BY <1>2, <3>1, <3>2 DEF JobTrouble
    <2>2. ASSUME NEW k \in Jobs, at'[k] \in InWork
          PROVE  /\ at'[k] = at[k] /\ Taken(k)' = Taken(k) /\ loc'[k] = loc[k]
                 /\ runs'[RunOf(k)] = runs[RunOf(k)]
      BY <2>1, <2>2 DEF Taken, RunOf, Fetched, InWork, After, None
    <2>. QED
      BY <2>1, <2>2, ViewsStays
  <1>. QED
    BY <1>1, <1>2

\* From "running" to the snapshot.
LEMMA ViewsBefore ==
    ASSUME Base, Alone, Alone', Views, NEW j \in Jobs,
           Mark(j) \/ Reconcile(j) \/ Store(j) \/ Advance(j)
    PROVE  Views'
  <1>1. Elsewhere /\ UNCHANGED <<linked, snapshots, awarded, payload, loc>>
    BY MarkEffect, ReconcileEffect, StoreEffect, AdvanceEffect
  <1>2. RunOf(j)' = RunOf(j)
    BY <1>1 DEF RunOf, Elsewhere
  <1>3. CASE ~linked
    BY <1>1, <1>3 DEF Views
  <1>4. CASE linked
    <2>1. /\ at'[j] \in {"reconcile", "store", "advance", "snapshot", "failRun"}
          /\ at'[j] # "failRun" => runs'[RunOf(j)] = "running"
          /\ \A r \in Runs : runs'[r] = "completed" => runs[r] = "completed"
      <3>1. CASE Mark(j)
        BY <1>4, <3>1, MarkEffect, WroteOther DEF Goes, Wrote
      <3>2. CASE Reconcile(j) \/ Store(j) \/ Advance(j)
        <4>1. at[j] \in InWork /\ runs' = runs
              /\ at'[j] \in {"store", "advance", "snapshot", "failRun"}
          BY <1>4, <3>2, ReconcileEffect, StoreEffect, AdvanceEffect DEF Goes, InWork
        <4>. QED
          BY <1>4, <4>1 DEF Views, View
      <3>. QED
        BY <3>1, <3>2
    <2>2. Agreed'
      BY <1>1, <1>4, <2>1, LastType DEF Views, Agreed, Last
    <2>3. View(j)'
      BY <1>2, <2>1 DEF View, InWork, After
    <2>4. at'[j] # None
      BY <2>1 DEF None
    <2>. QED
      BY <2>2, <2>3, <2>4, ViewsWorks
  <1>. QED
    BY <1>3, <1>4

\* The awaits of project that leave snapshot, awards and payload alone.
Reads(j) == ReadProfile(j) \/ ReadAwards(j) \/ Aggregate(j) \/ Around(j)

LEMMA ReadsEffect ==
    ASSUME Base, NEW j \in Jobs, Reads(j)
    PROVE  /\ Base' /\ Elsewhere
           /\ UNCHANGED <<linked, runs, cursor, facts, snapshots, awarded, status, payload>>
           /\ loc'[j].from = loc[j].from /\ loc'[j].to = loc[j].to
           /\ at[j] \in After \ {"badges"}
           /\ at'[j] \in (After \ {"badges"}) \cup {"failRun"}
           /\ \A k \in Jobs \ {j} : at'[k] = at[k]
  <1>1. CASE ReadProfile(j) \/ ReadAwards(j)
    BY <1>1, ReadProfileEffect, ReadAwardsEffect DEF Goes, After
  <1>2. CASE Aggregate(j) \/ Around(j)
    BY <1>2, AggregateEffect, AroundEffect DEF Goes, After
  <1>. QED
    BY <1>1, <1>2 DEF Reads

\* The DAO payments cannot be read: the run stays "running" until it is failed.
LEMMA ViewsRefused ==
    ASSUME Base, Alone, Views, NEW j \in Jobs, Aggregate(j), at'[j] = "failRun"
    PROVE  Views'
  <1>1. UNCHANGED <<linked, snapshots, awarded, payload, runs>>
    BY AggregateEffect
  <1>2. at[j] # None /\ \A k \in Jobs \ {j} : at'[k] = at[k]
    BY AggregateEffect DEF Goes, None
  <1>3. \A k \in Jobs : at'[k] \notin InWork
    BY <1>2 DEF Alone, InWork, After, None
  <1>. QED
    BY <1>1, <1>3, ViewsStays

\* From the snapshot to the payload: the run of the latest snapshot is not completed.
LEMMA ViewsScored ==
    ASSUME Base, Base', Alone', Views, NEW j \in Jobs,
           \/ Persist(j) \/ SyncAwards(j) \/ Reads(j) \/ Publish(j),
           ~linked \/ at'[j] # "failRun"
    PROVE  Views'
  <1>1. /\ Elsewhere /\ UNCHANGED <<linked, runs>>
        /\ loc'[j].from = loc[j].from /\ loc'[j].to = loc[j].to
    BY PersistEffect, SyncAwardsEffect, ReadsEffect, PublishEffect
  <1>2. Taken(j)' = Taken(j) /\ RunOf(j)' = RunOf(j) /\ Fetched(j)' = Fetched(j)
    BY <1>1 DEF Taken, RunOf, Fetched, Elsewhere
  <1>3. CASE ~linked
    BY <1>1, <1>3 DEF Views
  <1>4. CASE linked
    <2>1. at[j] \in InWork /\ at'[j] \in After
      <3>1. CASE Reads(j)
        <4>1. at[j] \in After /\ (at'[j] \in After \/ at'[j] = "failRun")
          BY <3>1, ReadsEffect DEF After
        <4>. QED
          BY <1>4, <4>1 DEF InWork
      <3>2. CASE Persist(j) \/ SyncAwards(j) \/ Publish(j)
        BY <1>4, <3>2, PersistEffect, SyncAwardsEffect, PublishEffect DEF Goes, InWork, After
      <3>. QED
        BY <3>1, <3>2
    <2>2. runs'[RunOf(j)] = "running" /\ View(j)
      BY <1>1, <1>4, <2>1 DEF Views, View
    <2>3. snapshots' # << >> /\ Last' = Taken(j)
      <3>1. CASE Persist(j)
        <4>1. /\ snapshots' = Append(snapshots, Taken(j)) /\ snapshots \in Seq(Snapshot)
              /\ Taken(j) \in Snapshot
          BY <1>4, <3>1, PersistEffect, Parts
        <4>. QED
          BY <4>1 DEF Last
      <3>2. CASE ~Persist(j)
        <4>1. snapshots' = snapshots /\ at[j] \in After
          BY <3>2, SyncAwardsEffect, ReadsEffect, PublishEffect DEF Goes, After
        <4>. QED
          BY <2>2, <4>1 DEF View, Last
      <3>. QED
        BY <3>1, <3>2
    <2>4. Agreed'
      BY <2>2, <2>3 DEF Agreed, Taken
    <2>5. at'[j] # "badges" => awarded' = Fetched(j)
      <3>1. CASE Persist(j)
        BY <1>4, <3>1, PersistEffect DEF Goes
      <3>2. CASE SyncAwards(j)
        BY <1>4, <3>2, SyncAwardsEffect DEF Goes
      <3>3. CASE Reads(j) \/ Publish(j)
        <4>1. awarded' = awarded /\ at[j] \in After \ {"badges"}
          BY <3>3, ReadsEffect, PublishEffect DEF Goes, After
        <4>. QED
          BY <2>2, <4>1 DEF View
      <3>. QED
        BY <3>1, <3>2, <3>3
    <2>6. at'[j] \in {"dao", "metrics", "version", "publish"} => loc'[j].badges = Fetched(j)
      <3>1. CASE Reads(j)
        <4>1. CASE ReadAwards(j)
          BY <2>2, <4>1, ReadAwardsEffect DEF Goes, View, After
        <4>2. CASE ~ReadAwards(j) /\ at'[j] \in {"dao", "metrics", "version", "publish"}
          <5>1. loc' = loc /\ at[j] \in {"dao", "metrics", "version"}
            BY <3>1, <4>2, ReadProfileEffect, AggregateEffect, AroundEffect DEF Reads, Goes
          <5>. QED
            BY <2>2, <5>1 DEF View
        <4>. QED
          BY <4>1, <4>2
      <3>2. CASE Persist(j) \/ SyncAwards(j) \/ Publish(j)
        BY <1>4, <3>2, PersistEffect, SyncAwardsEffect, PublishEffect DEF Goes
      <3>. QED
        BY <3>1, <3>2
    <2>9. at'[j] \in {"announce", "complete"} =>
              payload'.inputs = Fetched(j) /\ payload'.badges = Fetched(j)
      <3>1. CASE Publish(j)
        <4>1. at[j] = "publish" /\ payload'.inputs = Fetched(j) /\ payload'.badges = loc[j].badges
          BY <3>1, PublishEffect DEF Goes
        <4>. QED
          BY <2>2, <4>1 DEF View
      <3>2. CASE Reads(j) /\ at'[j] \in {"announce", "complete"}
        <4>1. payload' = payload /\ at[j] = "announce"
          BY <3>2, ReadProfileEffect, ReadAwardsEffect, AggregateEffect, AroundEffect
             DEF Reads, Goes
        <4>. QED
          BY <2>2, <4>1 DEF View
      <3>3. CASE Persist(j) \/ SyncAwards(j)
        BY <1>4, <3>3, PersistEffect, SyncAwardsEffect DEF Goes
      <3>. QED
        BY <3>1, <3>2, <3>3
    <2>7. View(j)'
      BY <1>2, <2>1, <2>2, <2>3, <2>5, <2>6, <2>9 DEF View
    <2>8. at'[j] # None
      BY <2>1 DEF After, None
    <2>. QED
      BY <2>4, <2>7, <2>8, ViewsWorks
  <1>. QED
    BY <1>3, <1>4

LEMMA ViewsComplete ==
    ASSUME Base, Alone', Views, NEW j \in Jobs, Complete(j)
    PROVE  Views'
  <1>1. UNCHANGED <<linked, snapshots, awarded, payload>>
    BY CompleteEffect
  <1>2. CASE ~linked
    BY <1>1, <1>2 DEF Views
  <1>3. CASE linked
    <2>1. Goes(j, "complete", "activate")
      BY <1>3, CompleteEffect
    <2>2. /\ Last = Taken(j) /\ awarded = Fetched(j)
          /\ payload.inputs = Fetched(j) /\ payload.badges = Fetched(j)
      BY <1>3, <2>1 DEF Views, View, Goes, After
    <2>3. Agreed'
      BY <1>1, <2>2 DEF Agreed, Last, Taken
    <2>4. View(j)' /\ at'[j] # None
      BY <2>1 DEF Goes, View, InWork, After, None
    <2>. QED
      BY <2>3, <2>4, ViewsWorks
  <1>. QED
    BY <1>2, <1>3

\* A run row that the API writes is not the run of a job in work.
LEMMA ViewsApi ==
    ASSUME Base, Rows, Views, NEW j \in ApiJobs, ApiRun(j)
    PROVE  Views'
  <1>1. /\ UNCHANGED <<linked, snapshots, awarded, payload, at, tries, loc, activity>>
        /\ api[j] = "status"
        /\ \/ runs' = runs
           \/ /\ runs'[<<j, 1>>] = "pending"
              /\ \A r \in Runs \ {<<j, 1>>} : runs'[r] = runs[r]
    BY ApiRunEffect DEF ApiRun
  <1>2. \A r \in Runs : runs'[r] = "completed" => runs[r] = "completed"
    BY <1>1
  <1>3. ASSUME NEW k \in Jobs, at'[k] \in InWork
        PROVE  /\ at'[k] = at[k] /\ Taken(k)' = Taken(k) /\ loc'[k] = loc[k]
               /\ runs'[RunOf(k)] = runs[RunOf(k)]
    <2>1. Taken(k)' = Taken(k)
      BY <1>1 DEF Taken, RunOf, Fetched
    <2>2. phase[k] = "running" /\ at[k] # None
      BY <1>1, <1>3 DEF Base, Hands, InWork, After, None
    <2>3. k # j
      BY <1>1, <2>2 DEF Rows
    <2>4. RunOf(k) # <<j, 1>> /\ RunOf(k) \in Runs
      BY <2>2, <2>3, RunType DEF RunOf
    <2>. QED
      BY <1>1, <2>1, <2>4
  <1>. QED
    BY <1>1, <1>2, <1>3, ViewsStays

LEMMA ViewsStep ==
    Base /\ Base' /\ Alone /\ Alone' /\ Rows /\ Counted /\ Views /\ [Next]_vars => Views'
  <1>. SUFFICES ASSUME Base, Base', Alone, Alone', Rows, Counted, Views, [Next]_vars
                PROVE  Views'
    OBVIOUS
  <1>1. ASSUME NEW j \in Jobs, JobStep(j) \/ JobTrouble(j) PROVE Views'
    <2>1. CASE Persist(j) \/ SyncAwards(j) \/ Reads(j) \/ Publish(j)
      <3>1. CASE ~linked \/ at'[j] # "failRun"
        BY <2>1, <3>1, ViewsScored
      <3>2. CASE linked /\ at'[j] = "failRun"
        <4>1. Aggregate(j)
          BY <2>1, <3>2, PersistEffect, SyncAwardsEffect, ReadProfileEffect, ReadAwardsEffect,
             AroundEffect, PublishEffect DEF Reads, Goes
        <4>. QED
          BY <3>2, <4>1, ViewsRefused
      <3>. QED
        BY <3>1, <3>2
    <2>2. CASE ~(Persist(j) \/ SyncAwards(j) \/ Reads(j) \/ Publish(j))
      BY <1>1, <2>2, ViewsOutside, ViewsBefore, ViewsComplete DEF JobStep, Reads
    <2>. QED
      BY <2>1, <2>2
  <1>2. CASE Mine
    <2>1. /\ activity' \in {activity, activity \cup {head + 1}} /\ head \in Blocks
          /\ UNCHANGED <<tries, linked, runs, snapshots, awarded, payload, at, loc>>
      BY <1>2, MineEffect, Parts
    <2>2. CASE linked
      <3>1. ASSUME NEW k \in Jobs, at'[k] \in InWork PROVE Taken(k)' = Taken(k)
        <4>1. Inside(k)
          BY <2>1, <2>2, <3>1 DEF Counted, Counts, InUse, InWork, Chosen
        <4>2. /\ loc[k].to \in Int /\ loc[k].from \in Int /\ head \in Int
          BY <2>1, Parts, Constants
        <4>3. Fetched(k)' = Fetched(k)
          BY <2>1, <4>1, <4>2 DEF Inside, Fetched
        <4>. QED
          BY <2>1, <4>3 DEF Taken, RunOf
      <3>2. \A k \in Jobs : runs'[RunOf(k)] = runs[RunOf(k)] /\ at'[k] = at[k]
        BY <2>1
      <3>. QED
        BY <2>1, <3>1, <3>2, ViewsStays
    <2>3. CASE ~linked
      BY <2>1, <2>3 DEF Views
    <2>. QED
      BY <2>2, <2>3
  <1>3. CASE Unlink
    BY <1>3, UnlinkEffect DEF Views
  <1>4. ASSUME NEW j \in ApiJobs, ApiStatus(j) \/ ApiSend(j) \/ ApiFails(j) PROVE Views'
    <2>1. /\ UNCHANGED <<linked, runs, snapshots, awarded, payload, at, loc, activity>>
          /\ \A k \in Jobs : at[k] # None => tries'[k] = tries[k]
      <3>1. CASE ApiStatus(j)
        BY <3>1, ApiStatusEffect
      <3>2. CASE ApiSend(j)
        <4>1. Kept /\ Passes(j, "new", "queued", None) /\ at' = at /\ at[j] = None
          BY <3>2, Constants, ApiSendEffect DEF ApiSend, Base, Hands, Passes
        <4>. QED
          BY <4>1 DEF Kept, Passes
      <3>3. CASE ApiFails(j)
        BY <3>3, ApiFailsEffect DEF Kept
      <3>. QED
        BY <1>4, <3>1, <3>2, <3>3
    <2>2. \A k \in Jobs : at'[k] \in InWork => at[k] # None
      BY <2>1 DEF InWork, After, None
    <2>3. \A k \in Jobs : at'[k] \in InWork => Taken(k)' = Taken(k)
      BY <2>1, <2>2 DEF Taken, RunOf, Fetched
    <2>. QED
      BY <2>1, <2>3, ViewsStays
  <1>5. ASSUME NEW j \in CronJobs, CronSend(j) PROVE Views'
    <2>1. Kept /\ Passes(j, "new", "queued", None) /\ at' = at /\ at[j] = None
      BY <1>5, Constants, CronSendEffect DEF CronSend, Base, Hands, Passes
    <2>2. \A k \in Jobs : at'[k] \in InWork => k # j /\ tries'[k] = tries[k]
      BY <2>1 DEF InWork, After, None, Passes
    <2>3. \A k \in Jobs : at'[k] \in InWork => Taken(k)' = Taken(k)
      BY <2>1, <2>2 DEF Taken, RunOf, Fetched, Kept
    <2>. QED
      BY <2>1, <2>3, ViewsStays DEF Kept
  <1>6. CASE UNCHANGED vars
    <2>1. /\ UNCHANGED <<linked, runs, snapshots, awarded, payload, at, loc, activity, tries>>
      BY <1>6 DEF vars, deliveryVars, chainVars, walletVars, profileVars
    <2>2. \A k \in Jobs : Taken(k)' = Taken(k)
      BY <2>1 DEF Taken, RunOf, Fetched
    <2>. QED
      BY <2>1, <2>2, ViewsStays
  <1>. QED
    BY <1>1, <1>2, <1>3, <1>4, <1>5, <1>6, ViewsApi DEF Next, ApiStep

\* IndexPipeline!ViewsAgree: with one worker, when the run of the latest snapshot is completed
\* the badge awards and the public payload come from that snapshot; a job that breaks off
\* after its snapshot leaves the run "running" or "failed", never completed.
THEOREM ViewsTogether == ASSUME WorkerCount = 1 PROVE Spec => []ViewsAgree
  <1>1. Init => Views
    BY DEF Init, Views, Agreed, View, InWork, After, None
  <1>2. Base /\ Views => ViewsAgree
    BY DEF Views, Agreed, ViewsAgree, Base, Gone
  <1>. QED
    BY <1>1, <1>2, ViewsStep, CountedHolds, SettlingHolds, PTL DEF Spec

----------------------------------------------------------------------------
(* A dead job has met as many exceptions as it had attempts, or its wallet has a *)
(* transaction that the code refuses *)

\* The awaits at which an attempt has failed.
Broken == {"failRun", "failProfile", "threw"}

\* What makes an attempt fail by itself: a fact stored without log index, when the client
\* takes no null in a key, and a transfer whose value BigInt cannot read.
Refused == (activity # {} /\ ~NullKeyOk) \/ activity \cap Fractional # {}

Tried ==
    (linked /\ faults = 0 /\ ~Refused) =>
        \A j \in Jobs : /\ failures + 1 >= tries[j]
                        /\ at[j] \in Broken => failures >= tries[j]
                        /\ phase[j] = "dead" => failures >= MaxAttempts

LEMMA Counters ==
    ASSUME Base
    PROVE  /\ failures \in Nat /\ faults \in Nat /\ MaxAttempts \in Nat
           /\ \A j \in Jobs : tries[j] \in Nat
  <1>1. \A j \in Jobs : tries[j] \in 0..MaxAttempts
    BY DEF Base, TypeOK
  <1>. QED
    BY <1>1, PipelineAssumption DEF Base, TypeOK

\* No attempt begins and none breaks.
LEMMA TriedStays ==
    ASSUME Tried, UNCHANGED <<failures, tries>>, faults' = 0 => faults = 0, linked' => linked,
           activity \subseteq activity',
           \A j \in Jobs : /\ at'[j] \in Broken => at[j] \in Broken
                           /\ phase'[j] = "dead" => phase[j] = "dead"
    PROVE  Tried'
  <1>1. ~Refused' => ~Refused
    BY DEF Refused
  <1>. QED
    BY <1>1 DEF Tried

LEMMA TriedJob ==
    ASSUME Base, Tried, NEW j \in Jobs, JobStep(j)
    PROVE  Tried'
  <1>1. CASE Receive(j) \/ Return(j)
    <2>1. /\ Kept /\ UNCHANGED <<tries, failures, faults>>
          /\ \E from : \/ Passes(j, from, "running", "load") \/ Passes(j, from, "done", None)
      BY <1>1, ReceiveEffect, ReturnEffect
    <2>2. \A k \in Jobs : /\ at'[k] \in Broken => at[k] \in Broken
                          /\ phase'[k] = "dead" => phase[k] = "dead"
      BY <2>1 DEF Passes, Broken, None
    <2>. QED
      BY <2>1, <2>2, TriedStays DEF Kept
  <1>2. CASE TryAgain(j)
    <2>1. /\ Kept /\ at[j] \in Broken /\ UNCHANGED <<failures, faults>>
          /\ \E to : Passes(j, "running", to, None)
          /\ \/ phase'[j] = "queued" /\ tries'[j] = tries[j] + 1
             \/ phase'[j] = "dead" /\ tries'[j] = tries[j] /\ tries[j] = MaxAttempts
      BY <1>2, TryAgainEffect DEF Passes, Broken
    <2>. SUFFICES ASSUME linked, faults = 0, ~Refused, NEW k \in Jobs
                  PROVE  /\ failures + 1 >= tries'[k]
                         /\ at'[k] \in Broken => failures >= tries'[k]
                         /\ phase'[k] = "dead" => failures >= MaxAttempts
      BY <2>1 DEF Tried, Kept, Refused
    <2>2. failures >= tries[j]
      BY <2>1 DEF Tried
    <2>3. CASE k = j
      <3>1. at'[j] \notin Broken
        BY <2>1 DEF Passes, Broken, None
      <3>. QED
        BY <2>1, <2>2, <2>3, <3>1, Counters
    <2>4. CASE k # j
      BY <2>1, <2>4 DEF Passes, Tried
    <2>. QED
      BY <2>3, <2>4
  <1>3. CASE FailRun(j) \/ FailProfile(j)
    <2>1. /\ Elsewhere /\ linked' = linked
          /\ \E here \in Broken : \E next : Goes(j, here, next)
      BY <1>3, FailRunEffect, FailProfileEffect DEF Broken
    <2>2. \A k \in Jobs : at'[k] \in Broken => at[k] \in Broken
      BY <2>1 DEF Goes
    <2>. QED
      BY <2>1, <2>2, TriedStays DEF Elsewhere
  <1>4. CASE ~(Receive(j) \/ Return(j) \/ TryAgain(j) \/ FailRun(j) \/ FailProfile(j))
    <2>. DEFINE Early == \/ LoadWallet(j) \/ LoadRun(j) \/ ReadHead(j) \/ ReadCursor(j) \/ Mark(j)
                         \/ Reconcile(j) \/ Store(j) \/ Advance(j) \/ Persist(j)
                Late == \/ SyncAwards(j) \/ ReadProfile(j) \/ ReadAwards(j) \/ Aggregate(j)
                        \/ Around(j) \/ Publish(j) \/ Complete(j) \/ Activate(j)
    <2>0. Early \/ Late
      BY <1>4 DEF JobStep
    <2>1. Elsewhere /\ linked' = linked
      <3>1. CASE Early
        BY <3>1, LoadWalletEffect, LoadRunEffect, ReadHeadEffect, ReadCursorEffect,
           MarkEffect, ReconcileEffect, StoreEffect, AdvanceEffect, PersistEffect
      <3>2. CASE Late
        BY <3>2, SyncAwardsEffect, ReadProfileEffect, ReadAwardsEffect, AggregateEffect,
           AroundEffect, PublishEffect, CompleteEffect, ActivateEffect
      <3>. QED
        BY <2>0, <3>1, <3>2
    <2>2. CASE ~linked \/ Refused
      BY <2>1, <2>2 DEF Tried, Refused, Elsewhere
    <2>3. CASE linked /\ ~Refused
      <3>. DEFINE Fine == {"findRun", "head", "returned", "cursor", "mark", "reconcile", "store",
                           "advance", "snapshot", "badges", "project", "awards", "dao", "metrics",
                           "version", "publish", "announce", "complete", "activate"}
      <3>1. \E here : \E next \in Fine : Goes(j, here, next)
        <4>1. Fetched(j) \subseteq activity
          BY DEF Fetched
        <4>2. CASE Store(j) \/ Aggregate(j)
          BY <2>3, <4>1, <4>2, StoreEffect, AggregateEffect DEF Refused
        <4>3. CASE Early /\ ~Store(j)
          BY <2>3, <4>3, LoadWalletEffect, LoadRunEffect, ReadHeadEffect, ReadCursorEffect,
             MarkEffect, ReconcileEffect, AdvanceEffect, PersistEffect
        <4>4. CASE Late /\ ~Aggregate(j)
          BY <2>3, <4>4, SyncAwardsEffect, ReadProfileEffect, ReadAwardsEffect, AroundEffect,
             PublishEffect, CompleteEffect, ActivateEffect
        <4>. QED
          BY <2>0, <4>2, <4>3, <4>4
      <3>2. \A k \in Jobs : at'[k] \in Broken => at[k] \in Broken
        BY <3>1 DEF Goes, Broken
      <3>. QED
        BY <2>1, <3>2, TriedStays DEF Elsewhere
    <2>. QED
      BY <2>2, <2>3
  <1>. QED
    BY <1>1, <1>2, <1>3, <1>4

LEMMA TriedSubmit ==
    ASSUME Base, Tried, NEW j \in Jobs, Passes(j, "new", "queued", None), tries'[j] = 1, Kept,
           UNCHANGED <<failures, faults>>
    PROVE  Tried'
  <1>. SUFFICES ASSUME linked, faults = 0, ~Refused, NEW k \in Jobs
                PROVE  /\ failures + 1 >= tries'[k]
                       /\ at'[k] \in Broken => failures >= tries'[k]
                       /\ phase'[k] = "dead" => failures >= MaxAttempts
    BY DEF Tried, Kept, Refused
  <1>1. CASE k = j
    <2>1. at'[j] \notin Broken /\ phase'[j] # "dead"
      BY DEF Passes, Broken, None
    <2>. QED
      BY <1>1, <2>1, Counters
  <1>2. CASE k # j
    BY <1>2 DEF Passes, Tried
  <1>. QED
    BY <1>1, <1>2

LEMMA TriedStep == Base /\ Tried /\ [Next]_vars => Tried'
  <1>. SUFFICES ASSUME Base, Tried, [Next]_vars PROVE Tried'
    OBVIOUS
  <1>1. ASSUME NEW j \in Jobs, JobTrouble(j) PROVE Tried'
    <2>1. CASE Throw(j)
      <3>1. /\ UNCHANGED <<phase, tries, faults, linked, activity>> /\ Goes(j, at[j], "failRun")
            /\ failures' = failures + 1 /\ failures \in Nat
        BY <2>1, ThrowEffect
      <3>. SUFFICES ASSUME linked, faults = 0, ~Refused, NEW k \in Jobs
                    PROVE  /\ failures' + 1 >= tries[k]
                           /\ at'[k] \in Broken => failures' >= tries[k]
                           /\ phase[k] = "dead" => failures' >= MaxAttempts
        BY <3>1 DEF Tried, Refused
      <3>2. failures + 1 >= tries[k] /\ (phase[k] = "dead" => failures >= MaxAttempts)
        BY DEF Tried
      <3>. QED
        BY <3>1, <3>2, Counters
    <2>2. CASE ThrowOutside(j) \/ WorkerDies(j)
      <3>1. faults' # 0
        BY <2>2, ThrowOutsideEffect, DiesEffect
      <3>. QED
        BY <3>1 DEF Tried
    <2>. QED
      BY <1>1, <2>1, <2>2 DEF JobTrouble
  <1>2. ASSUME NEW j \in ApiJobs, ApiStatus(j) \/ ApiStep(j) \/ ApiFails(j) PROVE Tried'
    <2>1. CASE ApiStatus(j) \/ ApiRun(j)
      <3>1. UNCHANGED <<phase, tries, linked, at, activity, failures, faults>>
        BY <2>1, ApiStatusEffect, ApiRunEffect
      <3>. QED
        BY <3>1, TriedStays
    <2>2. CASE ApiSend(j)
      BY <2>2, ApiSendEffect, Constants, TriedSubmit
    <2>3. CASE ApiFails(j)
      <3>1. faults' # 0
        BY <2>3, ApiFailsEffect
      <3>. QED
        BY <3>1 DEF Tried
    <2>. QED
      BY <1>2, <2>1, <2>2, <2>3 DEF ApiStep
  <1>3. ASSUME NEW j \in CronJobs, CronSend(j) PROVE Tried'
    BY <1>3, CronSendEffect, Constants, TriedSubmit
  <1>4. CASE Mine \/ Unlink
    BY <1>4, MineEffect, UnlinkEffect, TriedStays
  <1>5. CASE UNCHANGED vars
    BY <1>5, TriedStays DEF vars, deliveryVars, chainVars, walletVars, budget
  <1>. QED
    BY <1>1, <1>2, <1>3, <1>4, <1>5, TriedJob DEF Next

\* handleFailure and processJob: a job is given up only after an exception for each of its
\* attempts, unless the wallet has a transaction that the code refuses by itself, which are of
\* the two kinds of Refused and no other; for any number of jobs, attempts and workers.  An
\* attempt that broke off at any await does not hinder the next.
THEOREM DeadOnlyAfterFailures == Spec => []((faults = 0 /\ linked) =>
            \A j \in Jobs : phase[j] = "dead" => failures >= MaxAttempts \/ Refused)
  <1>1. Init => Tried
    <2>. SUFFICES ASSUME Init PROVE Tried
      OBVIOUS
    <2>1. failures = 0 /\ \A j \in Jobs : at[j] = None /\ phase[j] = "new" /\ tries[j] = 0
      BY DEF Init, DeliveryInit
    <2>2. \A j \in Jobs : at[j] \notin Broken /\ phase[j] # "dead"
      BY <2>1 DEF Broken, None
    <2>3. ASSUME NEW j \in Jobs PROVE failures + 1 >= tries[j]
      <3>1. failures = 0 /\ tries[j] = 0
        BY <2>1
      <3>. QED
        BY <3>1
    <2>. QED
      BY <2>2, <2>3 DEF Tried
  <1>2. Tried => ((faults = 0 /\ linked) =>
            \A j \in Jobs : phase[j] = "dead" => failures >= MaxAttempts \/ Refused)
    BY DEF Tried
  <1>. QED
    BY <1>1, <1>2, TriedStep, BaseHolds, PTL DEF Spec

==============================================================================
