-------------------------------- MODULE Quotas --------------------------------
(***************************************************************************)
(* What the API counts before it does something: exports per day           *)
(* (ExportsService), refreshes per day (EntitlementsService and            *)
(* IndexerOrchestrator) and anonymous requests per minute (RateLimitGuard),*)
(* with the life of an export and its verification.  One user, one address.*)
(***************************************************************************)
EXTENDS Naturals, Sequences, FiniteSets

CONSTANTS Handlers,      \* requests in flight at a time
          Wallets,       \* wallets rows of the user, those linked later included
          ExportLimit,   \* EXPORT_DAILY_LIMIT
          RefreshLimit,  \* PREMIUM_REFRESH_DAILY_LIMIT
          MaxDays,       \* bound: days
          MaxRequests,   \* bound: requests
          MaxFaults      \* bound: calls that fail

ASSUME QuotasAssumption ==
    /\ IsFiniteSet(Handlers)
    /\ ExportLimit \in Nat \ {0} /\ RefreshLimit \in Nat
    /\ MaxDays \in Nat \ {0} /\ MaxRequests \in Nat /\ MaxFaults \in Nat

VARIABLES
    day,      \* the UTC day
    plan,     \* the effective plan, which billing decides
    linked,   \* wallets rows that are not deleted
    exports,  \* exports rows, in the order of creation
    runs,     \* index_runs rows; those of a deleted wallet are deleted with it
    count,    \* the key ratelimit:anon:{ip}; 0 if there is none
    ttl,      \* the key has a time to live
    at,       \* at[h]: the next await of the request of h
    req,      \* req[h]: what it is about and what it read
    requests, faults,
    inTurn    \* history: a refresh came when the run of the one before had started

minute == <<count, ttl>>
vars == <<day, plan, linked, exports, runs, count, ttl, at, req, requests, faults, inTurn>>

Days == 1..MaxDays
Export == [day : Days, format : {"json", "pdf"}, status : {"pending", "completed"}]
Run == [wallet : Wallets, by : {"owner", "system"}, made : Days, sent : BOOLEAN, started : Days \cup {0}]

Steps == {"idle", "entitled", "count", "profile", "create", "pdf", "complete",
          "plan", "runs", "status", "row", "send", "incr", "expire"}
NoRequest == [format |-> "json", since |-> 1, id |-> 0, wallet |-> {}]
Open == {h \in Handlers : at[h] # "idle"}
Refreshing == {h \in Handlers : at[h] \in {"plan", "runs", "status", "row", "send"}}

Existing == {r \in DOMAIN runs : runs[r].wallet \in linked}

CreatedOn(d) == {e \in DOMAIN exports : exports[e].day = d}

Init ==
    /\ day = 1 /\ plan \in {"free", "premium"}
    /\ linked = Wallets /\ exports = <<>> /\ runs = <<>>
    /\ count = 0 /\ ttl = FALSE
    /\ at = [h \in Handlers |-> "idle"] /\ req = [h \in Handlers |-> NoRequest]
    /\ requests = 0 /\ faults = 0 /\ inTurn = TRUE
----------------------------------------------------------------------------
(* Requests *)

Begin(h, first, r) ==
    /\ at[h] = "idle" /\ requests < MaxRequests
    /\ requests' = requests + 1
    /\ at' = [at EXCEPT ![h] = first] /\ req' = [req EXCEPT ![h] = r]
    /\ UNCHANGED <<day, plan, linked, exports, runs, minute, faults>>

\* An await answers; "idle" is the end of the request.
Proceed(h, here, next, r) ==
    /\ at[h] = here /\ at' = [at EXCEPT ![h] = next]
    /\ req' = [req EXCEPT ![h] = IF next = "idle" THEN NoRequest ELSE r]
    /\ UNCHANGED <<day, plan, linked, requests, faults, inTurn>>

Await(h, here, next) == Proceed(h, here, next, req[h])

\* A call throws, and with it the request; nothing is undone.
Fail(h) ==
    /\ at[h] \notin {"idle", "incr", "expire"} /\ faults < MaxFaults
    /\ faults' = faults + 1
    /\ at' = [at EXCEPT ![h] = "idle"] /\ req' = [req EXCEPT ![h] = NoRequest]
    /\ UNCHANGED <<day, plan, linked, exports, runs, minute, requests, inTurn>>

Midnight ==
    /\ day < MaxDays /\ day' = day + 1
    /\ UNCHANGED <<plan, linked, exports, runs, minute, at, req, requests, faults, inTurn>>

\* A webhook of Stripe.
PlanChanges ==
    /\ plan' = IF plan = "free" THEN "premium" ELSE "free"
    /\ UNCHANGED <<day, linked, exports, runs, minute, at, req, requests, faults, inTurn>>
----------------------------------------------------------------------------
(* createExport *)

\* A tab has one export at a time; the day begins here unless the plan is asked first.
ExportBegins(h) ==
    /\ UNCHANGED inTurn
    /\ \/ Begin(h, "entitled", [NoRequest EXCEPT !.format = "pdf"])
       \/ Begin(h, "count", [NoRequest EXCEPT !.since = day])

Entitled(h) ==
    /\ Proceed(h, "entitled", IF plan = "premium" THEN "count" ELSE "idle",
               [req[h] EXCEPT !.since = day])
    /\ UNCHANGED <<exports, runs, minute>>

CountedSince(d) == {e \in DOMAIN exports : exports[e].day >= d}

\* Only completed exports count.
CountExports_Completed(h) ==
    /\ Await(h, "count",
             IF Cardinality({e \in CountedSince(req[h].since) : exports[e].status = "completed"})
                    >= ExportLimit THEN "idle" ELSE "profile")
    /\ UNCHANGED <<exports, runs, minute>>

CountExports(h) ==
    /\ Await(h, "count",
             IF Cardinality(CountedSince(req[h].since)) >= ExportLimit THEN "idle" ELSE "profile")
    /\ UNCHANGED <<exports, runs, minute>>

\* getOwnerProfile, or a 404.
ReadProfile(h) ==
    /\ \E next \in {"create", "idle"} : Await(h, "profile", next)
    /\ UNCHANGED <<exports, runs, minute>>

CreateExport(h) ==
    /\ Proceed(h, "create", IF req[h].format = "pdf" THEN "pdf" ELSE "complete",
               [req[h] EXCEPT !.id = Len(exports) + 1])
    /\ exports' = Append(exports, [day |-> day, format |-> req[h].format, status |-> "pending"])
    /\ UNCHANGED <<runs, minute>>

\* A generator that reports failure by its result.
GeneratePdf_GivesUp(h) ==
    /\ \E next \in {"complete", "idle"} : Await(h, "pdf", next)
    /\ UNCHANGED <<exports, runs, minute>>

GeneratePdf(h) == Await(h, "pdf", "complete") /\ UNCHANGED <<exports, runs, minute>>

CompleteExport(h) ==
    /\ Await(h, "complete", "idle")
    /\ exports' = [exports EXCEPT ![req[h].id].status = "completed"]
    /\ UNCHANGED <<runs, minute>>
----------------------------------------------------------------------------
(* sign and verify *)

\* The signature is over the keys in this order.
Snapshot == <<"exportedAt", "scoringVersion", "reputationIndex", "dimensions", "badges",
              "slug", "displayName">>

\* JSONB keeps the keys of an object by length, then in byte order.
JsonbOrder == <<"slug", "badges", "signature", "dimensions", "exportedAt", "displayName",
                "scoringVersion", "reputationIndex", "verificationUrl">>

\* What verify reads back, without the two fields that were added after signing.
Verified == SelectSeq(JsonbOrder, LAMBDA k : k \notin {"verificationUrl", "signature"})

\* The answer of verify; "none" is a 404.
Verdict(e) ==
    IF exports[e].status # "completed" THEN "none"
    ELSE IF Verified = Snapshot THEN "signature_match" ELSE "signature_mismatch"
----------------------------------------------------------------------------
(* POST me/profile/refresh and what becomes of the run *)

\* For the primary wallet, which Accounts decides.
RefreshBegins(h) ==
    /\ \E w \in linked : Begin(h, "plan", [NoRequest EXCEPT !.wallet = {w}])
    /\ inTurn' = (inTurn /\ Refreshing = {} /\ \A r \in Existing : runs[r].sent => runs[r].started > 0)

AskPlan(h) ==
    /\ Proceed(h, "plan", IF plan = "premium" THEN "runs" ELSE "idle", [req[h] EXCEPT !.since = day])
    /\ UNCHANGED <<exports, runs, minute>>

UsedSince(d) == {r \in Existing : runs[r].started >= d}

CountRunsThen(h, full) ==
    /\ Await(h, "runs", IF full THEN "idle" ELSE "status")
    /\ UNCHANGED <<exports, runs, minute>>

CountRuns_OneMore(h) == CountRunsThen(h, Cardinality(UsedSince(req[h].since)) > RefreshLimit)
CountRuns(h) == CountRunsThen(h, Cardinality(UsedSince(req[h].since)) >= RefreshLimit)

\* setStatus(indexing); what follows from it is the pipeline's.
SetIndexing(h) == Await(h, "status", "row") /\ UNCHANGED <<exports, runs, minute>>

NewRun(w, by, sent) ==
    Append(runs, [wallet |-> w, by |-> by, made |-> day, sent |-> sent, started |-> 0])

\* The row of a wallet that is gone by now is refused, and the request fails.
CreateRun(h) ==
    /\ \/ /\ \E w \in req[h].wallet \cap linked : runs' = NewRun(w, "owner", FALSE)
          /\ Proceed(h, "row", "send", [req[h] EXCEPT !.id = Len(runs) + 1])
       \/ /\ req[h].wallet \cap linked = {} /\ Await(h, "row", "idle") /\ UNCHANGED runs
    /\ UNCHANGED <<exports, minute>>

Enqueue(h) ==
    /\ Await(h, "send", "idle")
    /\ runs' = [runs EXCEPT ![req[h].id].sent = TRUE]
    /\ UNCHANGED <<exports, minute>>

\* A linked wallet or the cron.
SystemRun ==
    /\ requests < MaxRequests /\ requests' = requests + 1
    /\ \E w \in linked : runs' = NewRun(w, "system", TRUE)
    /\ UNCHANGED <<day, plan, linked, exports, minute, at, req, faults, inTurn>>

\* The worker sets startedAt, again at every attempt.
Start(r) ==
    /\ r \in Existing /\ runs[r].sent /\ runs[r].started # day
    /\ runs' = [runs EXCEPT ![r].started = day]
    /\ UNCHANGED <<day, plan, linked, exports, minute, at, req, requests, faults, inTurn>>

\* The row of a wallet is deleted, but for the last one, and its runs with it.
Unlink(w) ==
    /\ requests < MaxRequests /\ requests' = requests + 1
    /\ w \in linked /\ linked # {w} /\ linked' = linked \ {w}
    /\ UNCHANGED <<day, plan, exports, runs, minute, at, req, faults, inTurn>>
----------------------------------------------------------------------------
(* RateLimitGuard *)

PublicBegins(h) == Begin(h, "incr", NoRequest) /\ UNCHANGED inTurn

\* INCR; the first of a minute goes on to set the time to live.
IncrThen(h, first) ==
    /\ Await(h, "incr", IF first THEN "expire" ELSE "idle")
    /\ count' = count + 1
    /\ UNCHANGED <<exports, runs, ttl>>

Incr_CountBefore(h) == IncrThen(h, count = 1)
Incr(h) == IncrThen(h, count = 0)

Expire(h) ==
    /\ Await(h, "expire", "idle")
    /\ ttl' = (count > 0)
    /\ UNCHANGED <<exports, runs, count>>

MinuteEnds ==
    /\ ttl /\ ttl' = FALSE /\ count' = 0
    /\ UNCHANGED <<day, plan, linked, exports, runs, at, req, requests, faults, inTurn>>

\* Redis fails: the request is let through.
FailOpen(h) ==
    /\ at[h] \in {"incr", "expire"} /\ faults < MaxFaults /\ faults' = faults + 1
    /\ at' = [at EXCEPT ![h] = "idle"] /\ req' = [req EXCEPT ![h] = NoRequest]
    /\ UNCHANGED <<day, plan, linked, exports, runs, minute, requests, inTurn>>
----------------------------------------------------------------------------
ExportStep(h) ==
    \/ Entitled(h) \/ CountExports(h) \/ ReadProfile(h) \/ CreateExport(h)
    \/ GeneratePdf(h) \/ CompleteExport(h)

RefreshStep(h) == AskPlan(h) \/ CountRuns(h) \/ SetIndexing(h) \/ CreateRun(h) \/ Enqueue(h)

PublicStep(h) == Incr(h) \/ Expire(h)

Next ==
    \/ \E h \in Handlers : ExportBegins(h) \/ RefreshBegins(h) \/ PublicBegins(h)
    \/ \E h \in Handlers : ExportStep(h) \/ RefreshStep(h) \/ PublicStep(h) \/ Fail(h) \/ FailOpen(h)
    \/ \E r \in DOMAIN runs : Start(r)
    \/ \E w \in Wallets : Unlink(w)
    \/ Midnight \/ PlanChanges \/ SystemRun \/ MinuteEnds

Spec == Init /\ [][Next]_vars

\* Requests go on and Redis removes expired keys.
FairSpec ==
    /\ Spec /\ WF_vars(MinuteEnds)
    /\ \A h \in Handlers : WF_vars(ExportStep(h) \/ RefreshStep(h) \/ PublicStep(h))
----------------------------------------------------------------------------
(* Properties *)

TypeOK ==
    /\ day \in Days /\ plan \in {"free", "premium"}
    /\ linked \subseteq Wallets /\ exports \in Seq(Export) /\ runs \in Seq(Run)
    /\ count \in Nat /\ ttl \in BOOLEAN
    /\ at \in [Handlers -> Steps]
    /\ req \in [Handlers -> [format : {"json", "pdf"}, since : Days, id : Nat,
                           wallet : SUBSET Wallets]]
    /\ requests \in 0..MaxRequests /\ faults \in 0..MaxFaults /\ inTurn \in BOOLEAN

\* Exports of one day never exceed the limit by more than the other requests in
\* flight: the count and the insert are apart, and midnight may pass in between.
ExportsBounded ==
    \A d \in Days : Cardinality(CreatedOn(d)) + 1 <= ExportLimit + Cardinality(Handlers)

\* An export that counts towards the limit is completed, in work, or one for each
\* failure: what a call that throws leaves pending is never taken up again.
PendingExplained ==
    LET dropped == {e \in DOMAIN exports : /\ exports[e].status = "pending"
                                           /\ \A h \in Handlers : at[h] \in {"pdf", "complete"} => req[h].id # e}
    IN  Cardinality(dropped) <= faults

\* The refreshes of day d of the wallets in W that were sent.
Asked(d, W) == {r \in DOMAIN runs : /\ runs[r].by = "owner" /\ runs[r].sent
                                    /\ runs[r].made = d /\ runs[r].wallet \in W}

\* As long as each refresh waits for the run of the one before to start, those of a
\* day stay within the limit, for the wallets that are linked together and for each
\* wallet that was: only started runs are counted, a retry or another run moves what
\* is counted, midnight may pass between the steps, and a wallet that is unlinked
\* takes its runs out of the count but gives back no more than it used.
RefreshInTurn ==
    inTurn => \A d \in Days :
        /\ Cardinality(Asked(d, linked)) <= RefreshLimit
        /\ \A w \in Wallets : Cardinality(Asked(d, {w})) <= RefreshLimit

\* A blocked address is let in again, unless Redis failed between INCR and EXPIRE.
MinutePasses == count > 0 ~> (count = 0 \/ faults > 0)

\* Every export that was completed can be verified.  The code does not provide it:
\* the signature is over the text of the snapshot, and JSONB reorders its keys.
ExportVerifies ==
    \A e \in DOMAIN exports : exports[e].status = "completed" => Verdict(e) = "signature_match"
==============================================================================
