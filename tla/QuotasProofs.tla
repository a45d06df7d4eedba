----------------------------- MODULE QuotasProofs -----------------------------
(***************************************************************************)
(* Machine-checked proofs about Quotas, for every finite set of handlers,  *)
(* every limit and every number of days, requests and failures.            *)
(***************************************************************************)
EXTENDS Quotas, FiniteSetTheorems, TLAPS

----------------------------------------------------------------------------
(* The inductive invariant *)

\* What a request works on exists, and nothing is dated later than today.
Sound ==
    /\ \A h \in Handlers : req[h].since <= day
    /\ \A h \in Handlers : at[h] \in {"pdf", "complete"} => req[h].id \in DOMAIN exports
    /\ \A h \in Handlers : at[h] = "send" => req[h].id \in DOMAIN runs
    /\ \A e \in DOMAIN exports : exports[e].day <= day
    /\ \A r \in DOMAIN runs : /\ runs[r].made <= day /\ runs[r].started <= day
                              /\ runs[r].started > 0 => runs[r].sent /\ runs[r].started >= runs[r].made

\* Requests past the count that may still create an export.
Passed == {h \in Handlers : at[h] \in {"profile", "create"}}

\* The exports of a day, and today those that may still come.
Weight(d) == Cardinality(CreatedOn(d)) + (IF d = day THEN Cardinality(Passed) ELSE 0)

Counted == \A d \in Days : Weight(d) + 1 <= ExportLimit + Cardinality(Handlers)

\* Pending exports that no request works on.
Dropped == {e \in DOMAIN exports : /\ exports[e].status = "pending"
                                   /\ \A h \in Handlers : at[h] \in {"pdf", "complete"} => req[h].id # e}

DroppedCounted == Cardinality(Dropped) <= faults

\* The request of h, past the count, is about to send a run of day d.
Aims(h, d) == \/ at[h] \in {"status", "row"} /\ d = day
              \/ at[h] = "send" /\ d = runs[req[h].id].made

\* The wallets whose limit it is about to use: those that are linked and, once the row
\* is made, its own, which may have gone since.
Uses(h) == {linked} \cup (IF at[h] = "send" THEN {{runs[req[h].id].wallet}} ELSE {})

\* The sets of wallets that share the limit.
Shares == {linked} \cup {{w} : w \in Wallets}

\* In turn there is one refresh at a time; when it counts, what was asked for has
\* started, and until it has sent its run the count stays true.
TurnTaken ==
    /\ \A g, h \in Refreshing : g = h
    /\ \A h \in Handlers : at[h] \in {"plan", "runs"} =>
          \A r \in Existing : runs[r].by = "owner" /\ runs[r].sent => runs[r].started > 0
    /\ \A h \in Handlers, d \in Days :
          Aims(h, d) => \A W \in Uses(h) : Cardinality(Asked(d, W)) < RefreshLimit
    /\ \A d \in Days, W \in Shares : Cardinality(Asked(d, W)) <= RefreshLimit

InTurnOK == inTurn => TurnTaken

Base == TypeOK /\ Sound

IInv == Base /\ Counted /\ DroppedCounted /\ InTurnOK

Requests == [format : {"json", "pdf"}, since : Days, id : Nat, wallet : SUBSET Wallets]

----------------------------------------------------------------------------
(* Types *)

LEMMA HandlersCounted ==
    /\ IsFiniteSet(Handlers) /\ Cardinality(Handlers) \in Nat
    /\ ExportLimit \in Nat /\ ExportLimit >= 1 /\ RefreshLimit \in Nat
  BY QuotasAssumption, FS_CardinalityType

LEMMA NoRequestOK == NoRequest \in Requests /\ NoRequest.since = 1 /\ 1 \in Days
  BY QuotasAssumption DEF NoRequest, Requests, Days

\* One request goes on, and no row changes: types and soundness.
LEMMA BaseMoves ==
    ASSUME Base, NEW h \in Handlers, NEW next \in Steps, NEW r \in Requests,
           at' = [at EXCEPT ![h] = next], req' = [req EXCEPT ![h] = r],
           r.since <= day,
           next \in {"pdf", "complete"} => r.id \in DOMAIN exports,
           next = "send" => r.id \in DOMAIN runs,
           UNCHANGED <<day, plan, linked, exports, runs>>, requests' \in 0..MaxRequests, faults' \in 0..MaxFaults,
           count' \in Nat, ttl' \in BOOLEAN, inTurn' \in BOOLEAN
    PROVE  Base'
  <1>1. TypeOK'
    BY DEF Base, TypeOK, Requests
  <1>2. /\ at'[h] = next /\ req'[h] = r
        /\ \A g \in Handlers \ {h} : at'[g] = at[g] /\ req'[g] = req[g]
    BY DEF Base, TypeOK
  <1>3. Sound'
    BY <1>2 DEF Base, Sound
  <1>. QED
    BY <1>1, <1>3 DEF Base

\* Rows are added or changed, in the way the actions do it.
LEMMA BaseRows ==
    ASSUME Base, NEW h \in Handlers, NEW next \in Steps, NEW r \in Requests,
           at' = [at EXCEPT ![h] = next], req' = [req EXCEPT ![h] = r],
           r.since <= day,
           next \in {"pdf", "complete"} => r.id \in DOMAIN exports',
           next = "send" => r.id \in DOMAIN runs',
           exports' \in Seq(Export), runs' \in Seq(Run),
           DOMAIN exports \subseteq DOMAIN exports', DOMAIN runs \subseteq DOMAIN runs',
           \A e \in DOMAIN exports' : exports'[e].day <= day,
           \A i \in DOMAIN runs' :
               /\ runs'[i].made <= day /\ runs'[i].started <= day
               /\ runs'[i].started > 0 => runs'[i].sent /\ runs'[i].started >= runs'[i].made,
           UNCHANGED <<day, plan, linked, minute, requests, faults, inTurn>>
    PROVE  Base'
  <1>1. TypeOK'
    BY DEF Base, TypeOK, Requests, minute
  <1>2. /\ at'[h] = next /\ req'[h] = r
        /\ \A g \in Handlers \ {h} : at'[g] = at[g] /\ req'[g] = req[g]
    BY DEF Base, TypeOK
  <1>3. Sound'
    BY <1>2 DEF Base, Sound
  <1>. QED
    BY <1>1, <1>3 DEF Base

\* The outcomes of creating a run: its wallet is gone, or there is one row more.
RunRefused(h) ==
    /\ req[h].wallet \cap linked = {} /\ Await(h, "row", "idle")
    /\ UNCHANGED <<exports, runs, minute>>

RunMade(h, w) ==
    /\ w \in linked /\ runs' = NewRun(w, "owner", FALSE)
    /\ Proceed(h, "row", "send", [req[h] EXCEPT !.id = Len(runs) + 1])
    /\ UNCHANGED <<exports, minute>>

LEMMA TwoOutcomes ==
    ASSUME NEW h, CreateRun(h)
    PROVE  RunRefused(h) \/ \E w \in linked : RunMade(h, w)
  BY DEF CreateRun, RunRefused, RunMade

\* The steps that leave the rows alone.
LEMMA BaseQuiet ==
    ASSUME Base, NEW h \in Handlers,
           \/ ExportBegins(h) \/ RefreshBegins(h) \/ PublicBegins(h)
           \/ Entitled(h) \/ CountExports(h) \/ ReadProfile(h) \/ GeneratePdf(h)
           \/ AskPlan(h) \/ CountRuns(h) \/ SetIndexing(h) \/ RunRefused(h)
           \/ Incr(h) \/ Expire(h) \/ Fail(h) \/ FailOpen(h)
    PROVE  Base'
  <1>. /\ req[h] \in Requests /\ req[h].since <= day /\ day \in Days /\ day \in Nat /\ day >= 1
       /\ requests \in 0..MaxRequests /\ faults \in 0..MaxFaults /\ count \in Nat /\ ttl \in BOOLEAN /\ inTurn \in BOOLEAN
       /\ MaxRequests \in Nat /\ MaxFaults \in Nat
    BY QuotasAssumption DEF Base, TypeOK, Sound, Requests, Days
  <1>a. PICK a, b, c \in Requests :
            /\ a = [NoRequest EXCEPT !.format = "pdf"] /\ b = [NoRequest EXCEPT !.since = day]
            /\ c = [req[h] EXCEPT !.since = day]
            /\ a.since = 1 /\ b.since = day /\ c.since = day
    <2>1. /\ [NoRequest EXCEPT !.format = "pdf"] \in Requests
          /\ [NoRequest EXCEPT !.format = "pdf"].since = 1
      BY NoRequestOK DEF Requests, NoRequest
    <2>2. /\ [NoRequest EXCEPT !.since = day] \in Requests
          /\ [NoRequest EXCEPT !.since = day].since = day
      BY NoRequestOK DEF Requests, NoRequest
    <2>3. /\ [req[h] EXCEPT !.since = day] \in Requests
          /\ [req[h] EXCEPT !.since = day].since = day
      BY DEF Requests
    <2>. QED
      BY <2>1, <2>2, <2>3
  <1>. NoRequest \in Requests /\ NoRequest.since <= day
    BY NoRequestOK
  <1>1. CASE ExportBegins(h) \/ RefreshBegins(h) \/ PublicBegins(h)
    <2>1. ASSUME NEW first \in {"entitled", "count", "plan", "incr"}, NEW r \in Requests,
                 r.since <= day, Begin(h, first, r), inTurn' \in BOOLEAN
          PROVE  Base'
      <3>1. requests' \in 0..MaxRequests
        BY <2>1 DEF Begin
      <3>. QED
        BY <2>1, <3>1, BaseMoves DEF Begin, minute, Steps
    <2>a. a.since <= day /\ b.since <= day
      BY <1>a
    <2>2. inTurn' \in BOOLEAN
      BY <1>1 DEF ExportBegins, RefreshBegins, PublicBegins
    <2>3. CASE ExportBegins(h)
      <3>1. Begin(h, "entitled", a) \/ Begin(h, "count", b)
        BY <1>a, <2>3 DEF ExportBegins
      <3>. QED
        BY <2>1, <2>2, <2>a, <3>1
    <2>4. CASE RefreshBegins(h)
      <3>1. PICK w \in linked : Begin(h, "plan", [NoRequest EXCEPT !.wallet = {w}])
        BY <2>4 DEF RefreshBegins
      <3>2. w \in Wallets
        BY DEF Base, TypeOK
      <3>4. /\ [NoRequest EXCEPT !.wallet = {w}] \in Requests
            /\ [NoRequest EXCEPT !.wallet = {w}].since = 1
        BY <3>2, NoRequestOK DEF Requests, NoRequest
      <3>3. PICK r \in Requests : r = [NoRequest EXCEPT !.wallet = {w}] /\ r.since = 1
        BY <3>4
      <3>. QED
        BY <2>1, <2>2, <3>1, <3>3
    <2>5. CASE PublicBegins(h)
      BY <2>1, <2>2, <2>5 DEF PublicBegins
    <2>. QED
      BY <1>1, <2>3, <2>4, <2>5
  <1>2. CASE Fail(h) \/ FailOpen(h)
    <2>1. faults' \in 0..MaxFaults
      BY <1>2 DEF Fail, FailOpen
    <2>. QED
      BY <1>2, <2>1, BaseMoves DEF Fail, FailOpen, minute, Steps
  <1>3. ASSUME NEW here \in Steps, NEW next \in Steps, NEW r \in Requests, r.since <= day,
               Proceed(h, here, next, r), UNCHANGED <<exports, runs>>,
               next \in {"pdf", "complete"} => r.id \in DOMAIN exports,
               next # "send", count' \in Nat, ttl' \in BOOLEAN
        PROVE  Base'
    <2>. DEFINE q == IF next = "idle" THEN NoRequest ELSE r
    <2>1. q \in Requests /\ q.since <= day /\ (next \in {"pdf", "complete"} => q.id \in DOMAIN exports)
      BY <1>3
    <2>2. at' = [at EXCEPT ![h] = next] /\ req' = [req EXCEPT ![h] = q]
      BY <1>3 DEF Proceed
    <2>3. UNCHANGED <<day, plan, linked, requests, faults, inTurn>>
      BY <1>3 DEF Proceed
    <2>. HIDE DEF q
    <2>. QED
      BY <1>3, <2>1, <2>2, <2>3, BaseMoves
  <1>4. CASE Entitled(h) \/ AskPlan(h)
    <2>1. PICK here \in {"entitled", "plan"}, next \in {"count", "runs", "idle"} :
              Proceed(h, here, next, c)
      BY <1>4, <1>a DEF Entitled, AskPlan
    <2>2. here \in Steps /\ next \in Steps /\ next \notin {"pdf", "complete", "send"}
      BY DEF Steps
    <2>3. UNCHANGED <<exports, runs, count, ttl>> /\ c.since <= day
      BY <1>4, <1>a DEF Entitled, AskPlan, minute
    <2>. QED
      BY <1>3, <2>1, <2>2, <2>3
  <1>5. CASE CountExports(h) \/ ReadProfile(h) \/ CountRuns(h) \/ SetIndexing(h) \/ RunRefused(h)
    BY <1>3, <1>5 DEF CountExports, ReadProfile, CountRuns, CountRunsThen, SetIndexing, RunRefused, Await, minute, Steps
  <1>6. CASE GeneratePdf(h)
    <2>1. at[h] = "pdf"
      BY <1>6 DEF GeneratePdf, Await, Proceed
    <2>2. req[h].id \in DOMAIN exports
      BY <2>1 DEF Base, Sound
    <2>. QED
      BY <1>3, <1>6, <2>2 DEF GeneratePdf, Await, minute, Steps
  <1>7. CASE Incr(h) \/ Expire(h)
    <2>1. PICK here \in {"incr", "expire"}, next \in {"expire", "idle"} :
              Proceed(h, here, next, req[h])
      BY <1>7 DEF Incr, IncrThen, Expire, Await
    <2>2. here \in Steps /\ next \in Steps /\ next \notin {"pdf", "complete", "send"}
      BY DEF Steps
    <2>3. UNCHANGED <<exports, runs>> /\ count' \in Nat
      BY <1>7 DEF Incr, IncrThen, Expire
    <2>4. ttl' \in BOOLEAN
      <3>1. CASE Incr(h)
        BY <3>1 DEF Incr, IncrThen
      <3>2. CASE Expire(h)
        <4>1. (count > 0) \in BOOLEAN
          OBVIOUS
        <4>. QED
          BY <3>2, <4>1, Zenon DEF Expire
      <3>. QED
        BY <1>7, <3>1, <3>2
    <2>. QED
      BY <1>3, <2>1, <2>2, <2>3, <2>4
  <1>. QED
    BY <1>1, <1>2, <1>4, <1>5, <1>6, <1>7

\* What each write does to the rows and to its request.
LEMMA CreateExportEffect ==
    ASSUME Base, NEW h \in Handlers, CreateExport(h)
    PROVE  /\ Base'
           /\ at[h] = "create" /\ at'[h] \in {"pdf", "complete"} /\ req'[h].id = Len(exports) + 1
           /\ \A g \in Handlers \ {h} : at'[g] = at[g] /\ req'[g] = req[g]
           /\ Len(exports) + 1 \notin DOMAIN exports
           /\ DOMAIN exports' = DOMAIN exports \cup {Len(exports) + 1}
           /\ \A e \in DOMAIN exports : exports'[e] = exports[e]
           /\ exports'[Len(exports) + 1].day = day
           /\ UNCHANGED <<day, linked, runs, faults, inTurn>>
  <1>. DEFINE e0 == [day |-> day, format |-> req[h].format, status |-> "pending"]
              n == Len(exports) + 1
              next == IF req[h].format = "pdf" THEN "pdf" ELSE "complete"
  <1>1. /\ req[h] \in Requests /\ req[h].since <= day /\ day \in Days /\ day \in Nat
        /\ at \in [Handlers -> Steps] /\ req \in [Handlers -> Requests]
        /\ exports \in Seq(Export) /\ runs \in Seq(Run)
    BY DEF Base, TypeOK, Sound, Requests, Days
  <1>2. e0 \in Export /\ e0.day = day
    BY <1>1 DEF Requests, Export
  <1>3. next \in Steps /\ next \in {"pdf", "complete"}
    BY DEF Steps
  <1>4. PICK r \in Requests : r = [req[h] EXCEPT !.id = n] /\ r.id = n /\ r.since = req[h].since
    <2>1. n \in Nat
      BY <1>1
    <2>2. [req[h] EXCEPT !.id = n] \in Requests
      BY <1>1, <2>1 DEF Requests
    <2>3. [req[h] EXCEPT !.id = n].id = n /\ [req[h] EXCEPT !.id = n].since = req[h].since
      BY <1>1 DEF Requests
    <2>. QED
      BY <2>2, <2>3
  <1>5. /\ at[h] = "create" /\ at' = [at EXCEPT ![h] = next] /\ req' = [req EXCEPT ![h] = r]
        /\ exports' = Append(exports, e0)
        /\ UNCHANGED <<day, plan, linked, runs, minute, requests, faults, inTurn>>
    BY <1>3, <1>4 DEF CreateExport, Proceed
  <1>. HIDE DEF e0, next
  <1>6. /\ exports' \in Seq(Export) /\ n \notin DOMAIN exports
        /\ DOMAIN exports' = DOMAIN exports \cup {n}
        /\ \A e \in DOMAIN exports : exports'[e] = exports[e]
        /\ exports'[n] = e0
    BY <1>1, <1>2, <1>5
  <1>7. \A e \in DOMAIN exports' : exports'[e].day <= day
    BY <1>1, <1>2, <1>6 DEF Base, Sound
  <1>8. \A i \in DOMAIN runs :
            /\ runs[i].made <= day /\ runs[i].started <= day
            /\ runs[i].started > 0 => runs[i].sent /\ runs[i].started >= runs[i].made
    BY DEF Base, Sound
  <1>9. Base'
    BY <1>1, <1>3, <1>4, <1>5, <1>6, <1>7, <1>8, BaseRows
  <1>. QED
    BY <1>1, <1>2, <1>3, <1>4, <1>5, <1>6, <1>9

LEMMA CompleteExportEffect ==
    ASSUME Base, NEW h \in Handlers, CompleteExport(h)
    PROVE  /\ Base'
           /\ at[h] = "complete" /\ at'[h] = "idle"
           /\ \A g \in Handlers \ {h} : at'[g] = at[g] /\ req'[g] = req[g]
           /\ DOMAIN exports' = DOMAIN exports
           /\ \A e \in DOMAIN exports : exports'[e].day = exports[e].day
           /\ \A e \in DOMAIN exports : e # req[h].id => exports'[e] = exports[e]
           /\ exports'[req[h].id].status = "completed"
           /\ UNCHANGED <<day, linked, runs, faults, inTurn>>
  <1>. DEFINE n == req[h].id
              e0 == [exports[n] EXCEPT !.status = "completed"]
  <1>1. /\ at \in [Handlers -> Steps] /\ req \in [Handlers -> Requests]
        /\ exports \in Seq(Export) /\ runs \in Seq(Run) /\ day \in Days
    BY DEF Base, TypeOK, Requests
  <1>2. /\ at[h] = "complete" /\ at' = [at EXCEPT ![h] = "idle"]
        /\ req' = [req EXCEPT ![h] = NoRequest]
        /\ UNCHANGED <<day, plan, linked, runs, minute, requests, faults, inTurn>>
    BY DEF CompleteExport, Await, Proceed
  <1>3. exports' = [exports EXCEPT ![n] = e0]
    BY DEF CompleteExport
  <1>4. n \in DOMAIN exports /\ n \in 1..Len(exports) /\ exports[n] \in Export
    BY <1>1, <1>2 DEF Base, Sound
  <1>5. e0 \in Export /\ e0.day = exports[n].day /\ e0.status = "completed"
    BY <1>4 DEF Export
  <1>. HIDE DEF e0
  <1>6. /\ exports' \in Seq(Export) /\ DOMAIN exports' = DOMAIN exports
        /\ \A e \in DOMAIN exports : e # n => exports'[e] = exports[e]
        /\ exports'[n] = e0
    BY <1>1, <1>3, <1>4, <1>5
  <1>7. \A e \in DOMAIN exports : exports'[e].day = exports[e].day
    BY <1>4, <1>5, <1>6
  <1>8. \A e \in DOMAIN exports' : exports'[e].day <= day
    BY <1>6, <1>7 DEF Base, Sound
  <1>9. \A i \in DOMAIN runs :
            /\ runs[i].made <= day /\ runs[i].started <= day
            /\ runs[i].started > 0 => runs[i].sent /\ runs[i].started >= runs[i].made
    BY DEF Base, Sound
  <1>10. "idle" \in Steps /\ NoRequest \in Requests /\ NoRequest.since <= day
    BY <1>1, NoRequestOK, QuotasAssumption DEF Steps, Days
  <1>11. Base'
    BY <1>1, <1>2, <1>6, <1>8, <1>9, <1>10, BaseRows
  <1>. QED
    BY <1>1, <1>2, <1>5, <1>6, <1>7, <1>11

LEMMA CreateRunEffect ==
    ASSUME Base, NEW h \in Handlers, NEW w \in linked, RunMade(h, w)
    PROVE  /\ Base'
           /\ at[h] = "row" /\ at'[h] = "send" /\ req'[h].id = Len(runs) + 1
           /\ \A g \in Handlers \ {h} : at'[g] = at[g] /\ req'[g] = req[g]
           /\ Len(runs) + 1 \notin DOMAIN runs
           /\ DOMAIN runs' = DOMAIN runs \cup {Len(runs) + 1}
           /\ \A i \in DOMAIN runs : runs'[i] = runs[i]
           /\ runs'[Len(runs) + 1].made = day /\ ~ runs'[Len(runs) + 1].sent
           /\ runs'[Len(runs) + 1].wallet = w
           /\ UNCHANGED <<day, linked, exports, faults, inTurn>>
  <1>. DEFINE n == Len(runs) + 1
              r0 == [wallet |-> w, by |-> "owner", made |-> day, sent |-> FALSE, started |-> 0]
  <1>1. /\ req[h] \in Requests /\ req[h].since <= day /\ day \in Days /\ day \in Nat
        /\ at \in [Handlers -> Steps] /\ req \in [Handlers -> Requests]
        /\ exports \in Seq(Export) /\ runs \in Seq(Run)
    BY DEF Base, TypeOK, Sound, Requests, Days
  <1>2. r0 \in Run /\ r0.made = day /\ r0.started = 0 /\ ~ r0.sent /\ r0.wallet = w
    BY <1>1 DEF Run, Base, TypeOK
  <1>3. PICK r \in Requests : r = [req[h] EXCEPT !.id = n] /\ r.id = n /\ r.since = req[h].since
    <2>1. n \in Nat
      BY <1>1
    <2>2. [req[h] EXCEPT !.id = n] \in Requests
      BY <1>1, <2>1 DEF Requests
    <2>3. [req[h] EXCEPT !.id = n].id = n /\ [req[h] EXCEPT !.id = n].since = req[h].since
      BY <1>1 DEF Requests
    <2>. QED
      BY <2>2, <2>3
  <1>4. /\ at[h] = "row" /\ at' = [at EXCEPT ![h] = "send"] /\ req' = [req EXCEPT ![h] = r]
        /\ runs' = Append(runs, r0)
        /\ UNCHANGED <<day, plan, linked, exports, minute, requests, faults, inTurn>>
    BY <1>3 DEF RunMade, Proceed, NewRun
  <1>. HIDE DEF r0
  <1>5. /\ runs' \in Seq(Run) /\ n \notin DOMAIN runs
        /\ DOMAIN runs' = DOMAIN runs \cup {n}
        /\ \A i \in DOMAIN runs : runs'[i] = runs[i]
        /\ runs'[n] = r0
    BY <1>1, <1>2, <1>4
  <1>6. \A i \in DOMAIN runs' :
            /\ runs'[i].made <= day /\ runs'[i].started <= day
            /\ runs'[i].started > 0 => runs'[i].sent /\ runs'[i].started >= runs'[i].made
    BY <1>1, <1>2, <1>5 DEF Base, Sound
  <1>7. \A e \in DOMAIN exports : exports[e].day <= day
    BY DEF Base, Sound
  <1>8. "send" \in Steps
    BY DEF Steps
  <1>9. Base'
    BY <1>1, <1>3, <1>4, <1>5, <1>6, <1>7, <1>8, BaseRows
  <1>. QED
    BY <1>1, <1>2, <1>3, <1>4, <1>5, <1>9

LEMMA EnqueueEffect ==
    ASSUME Base, NEW h \in Handlers, Enqueue(h)
    PROVE  /\ Base'
           /\ at[h] = "send" /\ at'[h] = "idle" /\ req[h].id \in DOMAIN runs
           /\ \A g \in Handlers \ {h} : at'[g] = at[g] /\ req'[g] = req[g]
           /\ DOMAIN runs' = DOMAIN runs
           /\ \A i \in DOMAIN runs : i # req[h].id => runs'[i] = runs[i]
           /\ \A i \in DOMAIN runs : runs'[i].made = runs[i].made /\ runs'[i].wallet = runs[i].wallet
           /\ runs'[req[h].id].started = runs[req[h].id].started
           /\ UNCHANGED <<day, linked, exports, faults, inTurn>>
  <1>. DEFINE n == req[h].id
              r0 == [runs[n] EXCEPT !.sent = TRUE]
  <1>1. /\ at \in [Handlers -> Steps] /\ req \in [Handlers -> Requests]
        /\ exports \in Seq(Export) /\ runs \in Seq(Run) /\ day \in Days
    BY DEF Base, TypeOK, Requests
  <1>2. /\ at[h] = "send" /\ at' = [at EXCEPT ![h] = "idle"]
        /\ req' = [req EXCEPT ![h] = NoRequest]
        /\ UNCHANGED <<day, plan, linked, exports, minute, requests, faults, inTurn>>
    BY DEF Enqueue, Await, Proceed
  <1>3. runs' = [runs EXCEPT ![n] = r0]
    BY DEF Enqueue
  <1>4. n \in DOMAIN runs /\ n \in 1..Len(runs) /\ runs[n] \in Run
    BY <1>1, <1>2 DEF Base, Sound
  <1>5. r0 \in Run /\ r0.made = runs[n].made /\ r0.started = runs[n].started /\ r0.sent
        /\ r0.wallet = runs[n].wallet
    BY <1>4 DEF Run
  <1>. HIDE DEF r0
  <1>6. /\ runs' \in Seq(Run) /\ DOMAIN runs' = DOMAIN runs
        /\ \A i \in DOMAIN runs : i # n => runs'[i] = runs[i]
        /\ runs'[n] = r0
    BY <1>1, <1>3, <1>4, <1>5
  <1>7. \A i \in DOMAIN runs' :
            /\ runs'[i].made <= day /\ runs'[i].started <= day
            /\ runs'[i].started > 0 => runs'[i].sent /\ runs'[i].started >= runs'[i].made
    BY <1>4, <1>5, <1>6 DEF Base, Sound
  <1>8. \A e \in DOMAIN exports : exports[e].day <= day
    BY DEF Base, Sound
  <1>9. "idle" \in Steps /\ NoRequest \in Requests /\ NoRequest.since <= day
    BY <1>1, NoRequestOK, QuotasAssumption DEF Steps, Days
  <1>10. Base'
    BY <1>1, <1>2, <1>6, <1>7, <1>8, <1>9, BaseRows
  <1>. QED
    BY <1>1, <1>2, <1>4, <1>5, <1>6, <1>10

\* A step that leaves the rows alone moves one request, and only so.
Quiet(h) ==
    \/ ExportBegins(h) \/ RefreshBegins(h) \/ PublicBegins(h)
    \/ Entitled(h) \/ CountExports(h) \/ ReadProfile(h) \/ GeneratePdf(h)
    \/ AskPlan(h) \/ CountRuns(h) \/ SetIndexing(h) \/ RunRefused(h)
    \/ Incr(h) \/ Expire(h) \/ Fail(h) \/ FailOpen(h)

LEMMA QuietEffect ==
    ASSUME Base, NEW h \in Handlers, Quiet(h)
    PROVE  /\ \A g \in Handlers \ {h} : at'[g] = at[g] /\ req'[g] = req[g]
           /\ UNCHANGED <<day, linked, exports, runs>>
           /\ \/ at[h] \in {"pdf", "complete"} /\ at'[h] = "idle" /\ faults' = faults + 1
              \/ at[h] = "pdf" /\ at'[h] = "complete" /\ req'[h].id = req[h].id /\ faults' = faults
              \/ /\ {at[h], at'[h]} \cap {"pdf", "complete"} = {}
                 /\ faults' \in {faults, faults + 1}
           /\ at'[h] \in {"profile", "create"} =>
                 \/ at[h] = "profile"
                 \/ at[h] = "count" /\ Cardinality(CountedSince(req[h].since)) < ExportLimit
           /\ at'[h] # "send" /\ (at'[h] = "row" => at[h] = "status") /\ (at'[h] = "runs" => at[h] = "plan")
           /\ at'[h] = "status" => at[h] = "runs" /\ Cardinality(UsedSince(req[h].since)) < RefreshLimit
           /\ \/ inTurn' = inTurn /\ (at'[h] = "plan" => FALSE) /\ (at'[h] \in {"runs", "status", "row"} => at[h] # "idle")
              \/ RefreshBegins(h) /\ at'[h] = "plan"
  <1>. at \in [Handlers -> Steps] /\ req \in [Handlers -> Requests]
    BY DEF Base, TypeOK, Requests
  <1>1. CASE RefreshBegins(h)
    BY <1>1 DEF RefreshBegins, Begin
  <1>2. CASE ExportBegins(h) \/ PublicBegins(h)
    BY <1>2 DEF ExportBegins, PublicBegins, Begin
  <1>3. CASE Fail(h) \/ FailOpen(h)
    BY <1>3 DEF Fail, FailOpen
  <1>4. CASE Entitled(h) \/ AskPlan(h)
    BY <1>4 DEF Entitled, AskPlan, Proceed
  <1>5. CASE CountExports(h)
    <2>1. Cardinality(CountedSince(req[h].since)) \in Nat
      <3>1. CountedSince(req[h].since) \in SUBSET (1..Len(exports)) /\ Len(exports) \in Nat
        BY DEF CountedSince, Base, TypeOK
      <3>2. IsFiniteSet(1..Len(exports))
        BY <3>1, FS_Interval
      <3>. QED
        BY <3>1, <3>2, FS_Subset, FS_CardinalityType
    <2>2. ExportLimit \in Nat
      BY HandlersCounted
    <2>. QED
      BY <1>5, <2>1, <2>2 DEF CountExports, Await, Proceed
  <1>6. CASE CountRuns(h)
    <2>1. Cardinality(UsedSince(req[h].since)) \in Nat
      <3>1. UsedSince(req[h].since) \in SUBSET (1..Len(runs)) /\ Len(runs) \in Nat
        BY DEF UsedSince, Existing, Base, TypeOK
      <3>2. IsFiniteSet(1..Len(runs))
        BY <3>1, FS_Interval
      <3>. QED
        BY <3>1, <3>2, FS_Subset, FS_CardinalityType
    <2>2. RefreshLimit \in Nat
      BY HandlersCounted
    <2>. QED
      BY <1>6, <2>1, <2>2 DEF CountRuns, CountRunsThen, Await, Proceed
  <1>7. CASE ReadProfile(h) \/ GeneratePdf(h) \/ SetIndexing(h) \/ RunRefused(h)
    BY <1>7 DEF ReadProfile, GeneratePdf, SetIndexing, RunRefused, Await, Proceed
  <1>8. CASE Incr(h) \/ Expire(h)
    BY <1>8 DEF Incr, IncrThen, Expire, Await, Proceed
  <1>. QED
    BY <1>1, <1>2, <1>3, <1>4, <1>5, <1>6, <1>7, <1>8 DEF Quiet

\* Steps of nobody's request.
LEMMA BaseAround ==
    ASSUME Base, \/ \E r \in DOMAIN runs : Start(r)
                 \/ \E w \in Wallets : Unlink(w)
                 \/ Midnight \/ PlanChanges \/ SystemRun \/ MinuteEnds \/ UNCHANGED vars
    PROVE  Base'
  <1>1. /\ day \in Days /\ day \in Nat /\ day >= 1 /\ runs \in Seq(Run) /\ exports \in Seq(Export)
        /\ at \in [Handlers -> Steps] /\ req \in [Handlers -> Requests]
        /\ MaxRequests \in Nat /\ requests \in 0..MaxRequests /\ MaxDays \in Nat
    BY QuotasAssumption DEF Base, TypeOK, Days, Requests
  <1>a. /\ \A e \in DOMAIN exports : exports[e] \in Export
        /\ \A r \in DOMAIN runs : runs[r] \in Run
    BY <1>1
  <1>2. CASE Midnight
    <2>1. day + 1 \in Days
      BY <1>1, <1>2 DEF Midnight, Days
    <2>2. TypeOK'
      BY <1>2, <2>1 DEF Midnight, Base, TypeOK, minute
    <2>3. Sound'
      <3>1. \A h \in Handlers : req[h].since \in Nat
        BY <1>1 DEF Requests, Days
      <3>2. \A e \in DOMAIN exports : exports[e].day \in Nat
        BY <1>a DEF Export, Days
      <3>3. \A r \in DOMAIN runs : runs[r].made \in Nat /\ runs[r].started \in Nat
        <4>1. ASSUME NEW r \in DOMAIN runs PROVE runs[r].made \in Days /\ runs[r].started \in Days \cup {0}
          BY <1>a DEF Run
        <4>. QED
          BY <4>1 DEF Days
      <3>. QED
        BY <1>1, <1>2, <3>1, <3>2, <3>3 DEF Midnight, Base, Sound
    <2>. QED
      BY <2>2, <2>3 DEF Base
  <1>3. CASE (\E w \in Wallets : Unlink(w)) \/ PlanChanges \/ MinuteEnds \/ UNCHANGED vars
    <2>1. TypeOK'
      <3>1. CASE PlanChanges
        BY <3>1 DEF PlanChanges, minute, Base, TypeOK
      <3>2. CASE MinuteEnds
        BY <3>2 DEF MinuteEnds, Base, TypeOK
      <3>3. CASE UNCHANGED vars
        BY <3>3 DEF vars, minute, Base, TypeOK
      <3>4. ASSUME NEW w \in Wallets, Unlink(w) PROVE TypeOK'
        <4>1. requests' \in 0..MaxRequests
          BY <1>1, <3>4 DEF Unlink
        <4>. QED
          BY <3>4, <4>1 DEF Unlink, minute, Base, TypeOK
      <3>. QED
        BY <1>3, <3>1, <3>2, <3>3, <3>4
    <2>2. UNCHANGED <<day, exports, runs, at, req>>
      BY <1>3 DEF Unlink, PlanChanges, MinuteEnds, vars
    <2>. QED
      BY <2>1, <2>2 DEF Base, Sound
  <1>4. CASE SystemRun
    <2>0. PICK w \in linked : runs' = NewRun(w, "system", TRUE)
      BY <1>4 DEF SystemRun
    <2>. DEFINE r0 == [wallet |-> w, by |-> "system", made |-> day, sent |-> TRUE, started |-> 0]
    <2>1. r0 \in Run /\ r0.made = day /\ r0.started = 0
      BY <1>1 DEF Run, Base, TypeOK
    <2>2. runs' = Append(runs, r0)
      BY <2>0 DEF NewRun
    <2>. HIDE DEF r0
    <2>3. /\ runs' \in Seq(Run) /\ DOMAIN runs' = DOMAIN runs \cup {Len(runs) + 1}
          /\ \A i \in DOMAIN runs : runs'[i] = runs[i]
          /\ runs'[Len(runs) + 1] = r0
      BY <1>1, <2>1, <2>2
    <2>4. TypeOK'
      <3>1. requests' \in 0..MaxRequests
        BY <1>1, <1>4 DEF SystemRun
      <3>. QED
        BY <1>4, <2>3, <3>1 DEF SystemRun, Base, TypeOK, minute
    <2>5. Sound'
      <3>1. UNCHANGED <<day, exports, at, req>>
        BY <1>4 DEF SystemRun
      <3>2. \A i \in DOMAIN runs' : /\ runs'[i].made <= day /\ runs'[i].started <= day
                                    /\ runs'[i].started > 0 => runs'[i].sent /\ runs'[i].started >= runs'[i].made
        BY <1>1, <2>1, <2>3 DEF Base, Sound
      <3>. QED
        BY <2>3, <3>1, <3>2 DEF Base, Sound
    <2>. QED
      BY <2>4, <2>5 DEF Base
  <1>5. CASE \E r \in DOMAIN runs : Start(r)
    <2>1. PICK n \in DOMAIN runs : Start(n)
      BY <1>5
    <2>. DEFINE r0 == [runs[n] EXCEPT !.started = day]
    <2>2. runs[n] \in Run /\ n \in 1..Len(runs)
      BY <1>1
    <2>3. r0 \in Run /\ r0.made = runs[n].made /\ r0.started = day /\ r0.sent = runs[n].sent
      BY <1>1, <2>2 DEF Run
    <2>4. runs' = [runs EXCEPT ![n] = r0]
      BY <2>1 DEF Start
    <2>. HIDE DEF r0
    <2>5. /\ runs' \in Seq(Run) /\ DOMAIN runs' = DOMAIN runs
          /\ \A i \in DOMAIN runs : i # n => runs'[i] = runs[i]
          /\ runs'[n] = r0
      BY <1>1, <2>2, <2>3, <2>4
    <2>6. TypeOK'
      BY <2>1, <2>5 DEF Start, Base, TypeOK, minute
    <2>7. runs[n].sent /\ runs[n].made <= day
      BY <2>1 DEF Start, Base, Sound
    <2>8. UNCHANGED <<day, exports, at, req>>
      BY <2>1 DEF Start
    <2>9. \A i \in DOMAIN runs' : /\ runs'[i].made <= day /\ runs'[i].started <= day
                                  /\ runs'[i].started > 0 => runs'[i].sent /\ runs'[i].started >= runs'[i].made
      <3>1. ASSUME NEW i \in DOMAIN runs', i # n
            PROVE  /\ runs'[i].made <= day /\ runs'[i].started <= day
                   /\ runs'[i].started > 0 => runs'[i].sent /\ runs'[i].started >= runs'[i].made
        BY <2>5, <3>1 DEF Base, Sound
      <3>2. runs'[n].made <= day /\ runs'[n].started = day /\ day >= runs'[n].made
        BY <1>1, <2>1, <2>3, <2>5, <2>7, <1>a DEF Run, Days
      <3>3. runs'[n].sent
        BY <2>3, <2>5, <2>7
      <3>. QED
        BY <1>1, <3>1, <3>2, <3>3
    <2>10. Sound'
      BY <2>5, <2>8, <2>9 DEF Base, Sound
    <2>. QED
      BY <2>6, <2>10 DEF Base
  <1>. QED
    BY <1>2, <1>3, <1>4, <1>5

\* The next-state relation, sorted by what the steps do.
LEMMA Sorted ==
    ASSUME [Next]_vars
    PROVE  \/ \E h \in Handlers : Quiet(h)
           \/ \E h \in Handlers : CreateExport(h)
           \/ \E h \in Handlers : CompleteExport(h)
           \/ \E h \in Handlers, w \in linked : RunMade(h, w)
           \/ \E h \in Handlers : Enqueue(h)
           \/ \E r \in DOMAIN runs : Start(r)
           \/ \E w \in Wallets : Unlink(w)
           \/ Midnight \/ PlanChanges \/ SystemRun \/ MinuteEnds \/ UNCHANGED vars
  BY TwoOutcomes DEF Next, ExportStep, RefreshStep, PublicStep, Quiet

LEMMA BaseInit == Init => Base
  <1>. SUFFICES ASSUME Init PROVE Base
    OBVIOUS
  <1>1. 1 \in Days /\ 1 \in Nat /\ 0 \in 0..MaxRequests /\ 0 \in 0..MaxFaults
    BY QuotasAssumption DEF Days
  <1>2. TypeOK
    <2>1. at \in [Handlers -> Steps]
      BY DEF Init, Steps
    <2>2. req \in [Handlers -> Requests]
      BY NoRequestOK DEF Init
    <2>. QED
      <3>1. exports \in Seq(Export) /\ runs \in Seq(Run)
        BY DEF Init
      <3>2. ttl \in BOOLEAN /\ inTurn \in BOOLEAN
        BY DEF Init
      <3>3. day \in Days /\ plan \in {"free", "premium"} /\ count \in Nat /\ requests \in 0..MaxRequests /\ faults \in 0..MaxFaults
        BY <1>1 DEF Init
      <3>4. linked \subseteq Wallets
        BY DEF Init
      <3>. QED
        BY <2>1, <2>2, <3>1, <3>2, <3>3, <3>4 DEF TypeOK, Requests
  <1>3. Sound
    BY NoRequestOK DEF Init, Sound
  <1>. QED
    BY <1>2, <1>3 DEF Base

LEMMA BaseNext == Base /\ [Next]_vars => Base'
  <1>. SUFFICES ASSUME Base, [Next]_vars PROVE Base'
    OBVIOUS
  <1>1. CASE \E h \in Handlers : Quiet(h)
    BY <1>1, BaseQuiet DEF Quiet
  <1>2. CASE \E h \in Handlers : CreateExport(h)
    BY <1>2, CreateExportEffect
  <1>3. CASE \E h \in Handlers : CompleteExport(h)
    BY <1>3, CompleteExportEffect
  <1>4. CASE \E h \in Handlers, w \in linked : RunMade(h, w)
    BY <1>4, CreateRunEffect
  <1>5. CASE \E h \in Handlers : Enqueue(h)
    BY <1>5, EnqueueEffect
  <1>. QED
    BY <1>1, <1>2, <1>3, <1>4, <1>5, Sorted, BaseAround

----------------------------------------------------------------------------
(* Exports *)

\* What one element adds.
LEMMA OneMore ==
    ASSUME NEW S, IsFiniteSet(S), NEW x
    PROVE  /\ IsFiniteSet(S \cup {x}) /\ Cardinality(S) \in Nat /\ Cardinality(S \cup {x}) \in Nat
           /\ Cardinality(S \cup {x}) <= Cardinality(S) + 1
  <1>1. /\ IsFiniteSet(S \cup {x}) /\ Cardinality(S) \in Nat
        /\ Cardinality(S \cup {x}) = IF x \in S THEN Cardinality(S) ELSE Cardinality(S) + 1
    BY FS_AddElement, FS_CardinalityType
  <1>. QED
    BY <1>1

\* The sets that are counted are finite.
LEMMA Finite ==
    ASSUME Base
    PROVE  /\ \A d : IsFiniteSet(CreatedOn(d)) /\ Cardinality(CreatedOn(d)) \in Nat
           /\ \A d : IsFiniteSet(CountedSince(d)) /\ Cardinality(CountedSince(d)) \in Nat
           /\ \A d : IsFiniteSet(UsedSince(d)) /\ Cardinality(UsedSince(d)) \in Nat
           /\ \A d, W : IsFiniteSet(Asked(d, W)) /\ Cardinality(Asked(d, W)) \in Nat
           /\ IsFiniteSet(Dropped) /\ Cardinality(Dropped) \in Nat
           /\ IsFiniteSet(Passed) /\ Cardinality(Passed) \in Nat
           /\ Cardinality(Passed) <= Cardinality(Handlers)
  <1>1. DOMAIN exports = 1..Len(exports) /\ DOMAIN runs = 1..Len(runs)
        /\ Len(exports) \in Nat /\ Len(runs) \in Nat
    BY DEF Base, TypeOK
  <1>2. IsFiniteSet(DOMAIN exports) /\ IsFiniteSet(DOMAIN runs) /\ IsFiniteSet(Handlers)
    BY <1>1, FS_Interval, HandlersCounted
  <1>3. /\ \A d : CreatedOn(d) \in SUBSET DOMAIN exports /\ CountedSince(d) \in SUBSET DOMAIN exports
        /\ \A d, W : UsedSince(d) \in SUBSET DOMAIN runs /\ Asked(d, W) \in SUBSET DOMAIN runs
        /\ Dropped \in SUBSET DOMAIN exports /\ Passed \in SUBSET Handlers
    BY DEF CreatedOn, CountedSince, UsedSince, Existing, Asked, Dropped, Passed
  <1>. QED
    BY <1>2, <1>3, FS_Subset, FS_CardinalityType

\* A step that adds no export of a day and no request that may create one.
LEMMA NotHeavier ==
    ASSUME Base, Base', Counted, NEW d \in Days, day' = day,
           CreatedOn(d)' \subseteq CreatedOn(d), Passed' \subseteq Passed
    PROVE  Weight(d)' + 1 <= ExportLimit + Cardinality(Handlers)
  <1>1. Cardinality(CreatedOn(d)') <= Cardinality(CreatedOn(d)) /\ Cardinality(CreatedOn(d)') \in Nat
    BY Finite, FS_Subset, FS_CardinalityType
  <1>2. Cardinality(Passed') <= Cardinality(Passed) /\ Cardinality(Passed') \in Nat
    BY Finite, FS_Subset, FS_CardinalityType
  <1>3. Weight(d) + 1 <= ExportLimit + Cardinality(Handlers)
    BY DEF Counted
  <1>. QED
    BY <1>1, <1>2, <1>3, Finite, HandlersCounted DEF Weight

\* The check passes below the limit; whoever is past it then is a handler.
LEMMA CountedQuiet ==
    ASSUME Base, Base', Counted, NEW h \in Handlers, Quiet(h)
    PROVE  Counted'
  <1>. SUFFICES ASSUME NEW d \in Days
                PROVE  Weight(d)' + 1 <= ExportLimit + Cardinality(Handlers)
    BY DEF Counted
  <1>1. /\ \A g \in Handlers \ {h} : at'[g] = at[g]
        /\ day' = day /\ CreatedOn(d)' = CreatedOn(d)
    BY QuietEffect DEF CreatedOn
  <1>2. CASE at'[h] \in {"profile", "create"} /\ at[h] # "profile"
    <2>1. Cardinality(CountedSince(req[h].since)) < ExportLimit
      BY <1>2, QuietEffect
    <2>2. CASE d = day
      <3>1. CreatedOn(d) \subseteq CountedSince(req[h].since)
        <4>1. req[h].since \in Nat /\ day \in Nat /\ req[h].since <= day
          <5>1. req[h].since \in Days /\ day \in Days /\ req[h].since <= day
            BY DEF Base, TypeOK, Sound
          <5>. QED
            BY <5>1 DEF Days
        <4>. QED
          BY <2>2, <4>1 DEF CreatedOn, CountedSince
      <3>2. Cardinality(CreatedOn(d)) <= Cardinality(CountedSince(req[h].since))
        BY <3>1, Finite, FS_Subset
      <3>3. Cardinality(Passed') <= Cardinality(Handlers) /\ Cardinality(Passed') \in Nat
        <4>1. Passed' \in SUBSET Handlers
          BY DEF Passed
        <4>. QED
          BY <4>1, HandlersCounted, FS_Subset, FS_CardinalityType
      <3>. QED
        BY <1>1, <2>1, <3>2, <3>3, Finite, HandlersCounted DEF Weight
    <2>3. CASE d # day
      <3>1. Weight(d)' = Weight(d)
        BY <1>1, <2>3 DEF Weight
      <3>. QED
        BY <3>1 DEF Counted
    <2>. QED
      BY <2>2, <2>3
  <1>3. CASE ~ (at'[h] \in {"profile", "create"} /\ at[h] # "profile")
    <2>1. Passed' \subseteq Passed
      BY <1>1, <1>3 DEF Passed
    <2>. QED
      BY <1>1, <2>1, NotHeavier
  <1>. QED
    BY <1>2, <1>3

\* The request that creates an export stops counting as the export starts to.
LEMMA CountedCreate ==
    ASSUME Base, Base', Counted, NEW h \in Handlers, CreateExport(h)
    PROVE  Counted'
  <1>. SUFFICES ASSUME NEW d \in Days
                PROVE  Weight(d)' + 1 <= ExportLimit + Cardinality(Handlers)
    BY DEF Counted
  <1>. DEFINE n == Len(exports) + 1
  <1>1. /\ at[h] = "create" /\ at'[h] \in {"pdf", "complete"}
        /\ \A g \in Handlers \ {h} : at'[g] = at[g]
        /\ n \notin DOMAIN exports /\ DOMAIN exports' = DOMAIN exports \cup {n}
        /\ \A e \in DOMAIN exports : exports'[e] = exports[e]
        /\ exports'[n].day = day /\ day' = day
    BY CreateExportEffect
  <1>2. Passed' = Passed \ {h} /\ h \in Passed
    BY <1>1 DEF Passed
  <1>3. CASE d = day
    <2>1. CreatedOn(d)' = CreatedOn(d) \cup {n} /\ n \notin CreatedOn(d)
      BY <1>1, <1>3 DEF CreatedOn
    <2>2. Cardinality(CreatedOn(d)') = Cardinality(CreatedOn(d)) + 1
      BY <2>1, Finite, FS_AddElement
    <2>3. Cardinality(Passed') = Cardinality(Passed) - 1
      BY <1>2, Finite, FS_RemoveElement
    <2>4. Weight(d)' = Weight(d)
      BY <1>1, <1>3, <2>2, <2>3, Finite DEF Weight
    <2>. QED
      BY <2>4 DEF Counted
  <1>4. CASE d # day
    <2>1. CreatedOn(d)' = CreatedOn(d)
      BY <1>1, <1>4 DEF CreatedOn
    <2>. QED
      BY <1>1, <1>2, <2>1, NotHeavier
  <1>. QED
    BY <1>3, <1>4

LEMMA CountedNext ==
    ASSUME Base, Base', Counted, [Next]_vars
    PROVE  Counted'
  <1>1. CASE \E h \in Handlers : CompleteExport(h)
    <2>1. PICK h \in Handlers : CompleteExport(h)
      BY <1>1
    <2>2. /\ at'[h] = "idle" /\ \A g \in Handlers \ {h} : at'[g] = at[g]
          /\ DOMAIN exports' = DOMAIN exports /\ day' = day
          /\ \A e \in DOMAIN exports : exports'[e].day = exports[e].day
      BY <2>1, CompleteExportEffect
    <2>3. Passed' \subseteq Passed /\ \A d \in Days : CreatedOn(d)' \subseteq CreatedOn(d)
      BY <2>2 DEF Passed, CreatedOn
    <2>. QED
      BY <2>2, <2>3, NotHeavier DEF Counted
  <1>2. CASE \E h \in Handlers : (\E w \in linked : RunMade(h, w)) \/ Enqueue(h)
    <2>1. PICK h \in Handlers : (\E w \in linked : RunMade(h, w)) \/ Enqueue(h)
      BY <1>2
    <2>2. /\ at'[h] \in {"send", "idle"} /\ \A g \in Handlers \ {h} : at'[g] = at[g]
          /\ exports' = exports /\ day' = day
      BY <2>1, CreateRunEffect, EnqueueEffect
    <2>3. Passed' \subseteq Passed /\ \A d \in Days : CreatedOn(d)' \subseteq CreatedOn(d)
      BY <2>2 DEF Passed, CreatedOn
    <2>. QED
      BY <2>2, <2>3, NotHeavier DEF Counted
  <1>3. CASE \/ (\E r \in DOMAIN runs : Start(r)) \/ \E w \in Wallets : Unlink(w)
             \/ PlanChanges \/ SystemRun \/ MinuteEnds \/ UNCHANGED vars
    <2>1. UNCHANGED <<day, exports, at>>
      BY <1>3 DEF Start, Unlink, PlanChanges, SystemRun, MinuteEnds, vars
    <2>2. Passed' \subseteq Passed /\ \A d \in Days : CreatedOn(d)' \subseteq CreatedOn(d)
      BY <2>1 DEF Passed, CreatedOn
    <2>. QED
      BY <2>1, <2>2, NotHeavier DEF Counted
  <1>4. CASE Midnight
    <2>1. UNCHANGED <<exports, at>> /\ day' = day + 1
      BY <1>4 DEF Midnight
    <2>. SUFFICES ASSUME NEW d \in Days
                  PROVE  Weight(d)' + 1 <= ExportLimit + Cardinality(Handlers)
      BY DEF Counted
    <2>2. CreatedOn(d)' = CreatedOn(d) /\ Passed' = Passed
      BY <2>1 DEF CreatedOn, Passed
    <2>3. CASE d = day + 1
      <3>1. CreatedOn(d) = {}
        <4>1. day \in Nat /\ \A e \in DOMAIN exports : exports[e].day <= day
          BY DEF Base, TypeOK, Sound, Days
        <4>. QED
          BY <2>3, <4>1 DEF CreatedOn
      <3>2. Cardinality(CreatedOn(d)') = 0
        BY <2>2, <3>1, FS_EmptySet
      <3>. QED
        BY <2>1, <2>2, <2>3, <3>2, Finite, HandlersCounted DEF Weight
    <2>4. CASE d # day + 1
      <3>1. Weight(d) + 1 <= ExportLimit + Cardinality(Handlers)
        BY DEF Counted
      <3>. QED
        BY <2>1, <2>2, <2>4, <3>1, Finite, HandlersCounted DEF Weight
    <2>. QED
      BY <2>3, <2>4
  <1>. QED
    BY <1>1, <1>2, <1>3, <1>4, Sorted, CountedQuiet, CountedCreate

\* Only a failure leaves an export behind.
LEMMA DroppedNext ==
    ASSUME Base, Base', DroppedCounted, [Next]_vars
    PROVE  DroppedCounted'
  <1>1. faults \in Nat /\ faults' \in Nat
    BY QuotasAssumption DEF Base, TypeOK
  <1>2. ASSUME Dropped' \subseteq Dropped, faults' \in {faults, faults + 1}
        PROVE  DroppedCounted'
    <2>1. Cardinality(Dropped') <= Cardinality(Dropped) /\ Cardinality(Dropped') \in Nat
      BY <1>2, Finite, FS_Subset, FS_CardinalityType
    <2>. QED
      BY <1>1, <1>2, <2>1, Finite DEF DroppedCounted
  <1>3. CASE \E h \in Handlers : Quiet(h)
    <2>1. PICK h \in Handlers : Quiet(h)
      BY <1>3
    <2>2. (\A g \in Handlers \ {h} : at'[g] = at[g] /\ req'[g] = req[g]) /\ exports' = exports
      BY <2>1, QuietEffect
    <2>3. CASE at[h] \in {"pdf", "complete"} /\ at'[h] = "idle" /\ faults' = faults + 1
      <3>1. Dropped' \subseteq Dropped \cup {req[h].id}
        BY <2>2 DEF Dropped
      <3>2. /\ IsFiniteSet(Dropped \cup {req[h].id})
            /\ Cardinality(Dropped \cup {req[h].id}) <= Cardinality(Dropped) + 1
            /\ Cardinality(Dropped \cup {req[h].id}) \in Nat
        BY Finite, OneMore
      <3>3. Cardinality(Dropped') <= Cardinality(Dropped \cup {req[h].id}) /\ Cardinality(Dropped') \in Nat
        BY <3>1, <3>2, FS_Subset, FS_CardinalityType
      <3>. QED
        BY <1>1, <2>3, <3>2, <3>3, Finite DEF DroppedCounted
    <2>4. CASE at[h] = "pdf" /\ at'[h] = "complete" /\ req'[h].id = req[h].id /\ faults' = faults
      <3>1. Dropped' \subseteq Dropped
        BY <2>2, <2>4 DEF Dropped
      <3>. QED
        BY <1>2, <2>4, <3>1
    <2>5. CASE {at[h], at'[h]} \cap {"pdf", "complete"} = {} /\ faults' \in {faults, faults + 1}
      <3>1. at[h] \notin {"pdf", "complete"}
        BY <2>5
      <3>2. Dropped' \subseteq Dropped
        BY <2>2, <3>1 DEF Dropped
      <3>. QED
        BY <1>2, <2>5, <3>2
    <2>. QED
      BY <2>1, <2>3, <2>4, <2>5, QuietEffect
  <1>4. CASE \E h \in Handlers : CreateExport(h)
    <2>1. PICK h \in Handlers : CreateExport(h)
      BY <1>4
    <2>2. Dropped' \subseteq Dropped /\ faults' = faults
      BY <2>1, CreateExportEffect DEF Dropped
    <2>. QED
      BY <1>2, <2>2
  <1>5. CASE \E h \in Handlers : CompleteExport(h)
    <2>1. PICK h \in Handlers : CompleteExport(h)
      BY <1>5
    <2>2. Dropped' \subseteq Dropped /\ faults' = faults
      BY <2>1, CompleteExportEffect DEF Dropped
    <2>. QED
      BY <1>2, <2>2
  <1>6. CASE \E h \in Handlers : (\E w \in linked : RunMade(h, w)) \/ Enqueue(h)
    <2>1. PICK h \in Handlers : (\E w \in linked : RunMade(h, w)) \/ Enqueue(h)
      BY <1>6
    <2>2. Dropped' \subseteq Dropped /\ faults' = faults
      BY <2>1, CreateRunEffect, EnqueueEffect DEF Dropped
    <2>. QED
      BY <1>2, <2>2
  <1>7. CASE \/ (\E r \in DOMAIN runs : Start(r)) \/ \E w \in Wallets : Unlink(w)
             \/ Midnight \/ PlanChanges \/ SystemRun \/ MinuteEnds \/ UNCHANGED vars
    <2>1. UNCHANGED <<exports, at, req, faults>>
      BY <1>7 DEF Start, Unlink, Midnight, PlanChanges, SystemRun, MinuteEnds, vars
    <2>2. Dropped' \subseteq Dropped
      BY <2>1 DEF Dropped
    <2>. QED
      BY <1>2, <2>1, <2>2
  <1>. QED
    BY <1>3, <1>4, <1>5, <1>6, <1>7, Sorted

----------------------------------------------------------------------------
(* Refreshes *)

\* Fewer wallets have asked for no more.
LEMMA AskedFewer ==
    ASSUME Base, NEW d, NEW V, NEW W, V \subseteq W
    PROVE  /\ Cardinality(Asked(d, V)) <= Cardinality(Asked(d, W))
           /\ Cardinality(Asked(d, V)) \in Nat /\ Cardinality(Asked(d, W)) \in Nat
  <1>1. Asked(d, V) \subseteq Asked(d, W)
    BY DEF Asked
  <1>. QED
    BY <1>1, Finite, FS_Subset

\* What the limit says of the wallets there are says it of those that remain.
LEMMA LimitStays ==
    ASSUME Base, TurnTaken, linked' \subseteq linked,
           \A d, W : Asked(d, W)' = Asked(d, W)
    PROVE  \A d \in Days, W \in Shares' : Cardinality(Asked(d, W)') <= RefreshLimit
  <1>. SUFFICES ASSUME NEW d \in Days, NEW W \in Shares'
                PROVE  Cardinality(Asked(d, W)) <= RefreshLimit
    OBVIOUS
  <1>1. PICK V \in Shares : W \subseteq V
    BY DEF Shares
  <1>2. Cardinality(Asked(d, V)) <= RefreshLimit
    BY DEF TurnTaken
  <1>. QED
    BY <1>1, <1>2, AskedFewer, HandlersCounted

\* A request that stays where it is has the room it had.
LEMMA RoomStays ==
    ASSUME Base, TurnTaken, linked' \subseteq linked,
           \A d, W : Asked(d, W)' = Asked(d, W),
           NEW h \in Handlers, NEW d \in Days, Aims(h, d),
           at'[h] = "send" =>
               \/ runs'[req'[h].id].wallet \in linked
               \/ at[h] = "send" /\ runs'[req'[h].id].wallet = runs[req[h].id].wallet
    PROVE  \A W \in Uses(h)' : Cardinality(Asked(d, W)') < RefreshLimit
  <1>. SUFFICES ASSUME NEW W \in Uses(h)' PROVE Cardinality(Asked(d, W)) < RefreshLimit
    OBVIOUS
  <1>1. PICK V \in Uses(h) : W \subseteq V
    BY DEF Uses
  <1>2. Cardinality(Asked(d, V)) < RefreshLimit
    BY DEF TurnTaken
  <1>. QED
    BY <1>1, <1>2, AskedFewer, HandlersCounted

\* No request asks for anything new, and no refresh goes on to another step.
LEMMA TurnKept ==
    ASSUME Base, Base', TurnTaken,
           \A h \in Handlers : at'[h] \in {"plan", "runs", "status", "row", "send"} =>
               at'[h] = at[h] /\ req'[h] = req[h],
           day' = day, linked' \subseteq linked,
           DOMAIN runs \subseteq DOMAIN runs',
           \A i \in DOMAIN runs : /\ runs'[i].by = runs[i].by /\ runs'[i].sent = runs[i].sent
                                  /\ runs'[i].made = runs[i].made
                                  /\ runs'[i].wallet = runs[i].wallet
                                  /\ runs[i].started > 0 => runs'[i].started > 0,
           \A i \in DOMAIN runs' \ DOMAIN runs : ~ (runs'[i].by = "owner" /\ runs'[i].sent)
    PROVE  TurnTaken'
  <1>1. \A d, W : Asked(d, W)' = Asked(d, W)
    BY DEF Asked
  <1>2. \A g, h \in Refreshing' : g = h
    BY DEF Refreshing, TurnTaken
  <1>3. \A h \in Handlers : at'[h] \in {"plan", "runs"} =>
            \A r \in Existing' : runs'[r].by = "owner" /\ runs'[r].sent => runs'[r].started > 0
    BY DEF TurnTaken, Existing
  <1>4. ASSUME NEW h \in Handlers, NEW d \in Days, Aims(h, d)'
        PROVE  \A W \in Uses(h)' : Cardinality(Asked(d, W)') < RefreshLimit
    <2>1. at[h] = "send" => req[h].id \in DOMAIN runs
      BY DEF Base, Sound
    <2>2. Aims(h, d)
      BY <1>4, <2>1 DEF Aims
    <2>3. at'[h] = "send" =>
              at[h] = "send" /\ runs'[req'[h].id].wallet = runs[req[h].id].wallet
      BY <2>1
    <2>. QED
      BY <1>1, <2>2, <2>3, RoomStays
  <1>5. \A d \in Days, W \in Shares' : Cardinality(Asked(d, W)') <= RefreshLimit
    BY <1>1, LimitStays
  <1>. QED
    BY <1>2, <1>3, <1>4, <1>5 DEF TurnTaken

\* The step of a refresh that starts or counts.
LEMMA TurnQuiet ==
    ASSUME Base, Base', InTurnOK, NEW h \in Handlers, Quiet(h)
    PROVE  InTurnOK'
  <1>. SUFFICES ASSUME inTurn' PROVE TurnTaken'
    BY DEF InTurnOK
  <1>1. /\ \A g \in Handlers \ {h} : at'[g] = at[g] /\ req'[g] = req[g]
        /\ day' = day /\ linked' = linked /\ runs' = runs /\ at'[h] # "send"
    BY QuietEffect
  <1>2. inTurn /\ TurnTaken
    <2>1. CASE RefreshBegins(h)
      BY <2>1 DEF RefreshBegins, InTurnOK
    <2>2. CASE inTurn' = inTurn
      BY <2>2 DEF InTurnOK
    <2>. QED
      BY <2>1, <2>2, QuietEffect
  <1>3. (\A d, W : Asked(d, W)' = Asked(d, W)) /\ Existing' = Existing
    BY <1>1 DEF Asked, Existing
  <1>4. \A g, k \in Refreshing' : g = k
    <2>1. CASE RefreshBegins(h)
      <3>1. Refreshing = {}
        BY <2>1 DEF RefreshBegins
      <3>. QED
        BY <1>1, <3>1 DEF Refreshing
    <2>2. CASE ~ RefreshBegins(h)
      <3>1. h \in Refreshing' => h \in Refreshing
        BY <1>1, <2>2, QuietEffect DEF Refreshing
      <3>. QED
        BY <1>1, <1>2, <3>1 DEF Refreshing, TurnTaken
    <2>. QED
      BY <2>1, <2>2
  <1>5. \A g \in Handlers : at'[g] \in {"plan", "runs"} =>
            \A r \in Existing' : runs'[r].by = "owner" /\ runs'[r].sent => runs'[r].started > 0
    <2>1. CASE RefreshBegins(h)
      <3>1. \A r \in Existing : runs[r].sent => runs[r].started > 0
        BY <2>1 DEF RefreshBegins
      <3>. QED
        BY <1>1, <1>3, <3>1
    <2>2. CASE ~ RefreshBegins(h)
      <3>1. at'[h] \in {"plan", "runs"} => at[h] = "plan"
        BY <2>2, QuietEffect
      <3>. QED
        BY <1>1, <1>2, <1>3, <3>1 DEF TurnTaken
    <2>. QED
      BY <2>1, <2>2
  <1>6. ASSUME NEW g \in Handlers, NEW d \in Days, Aims(g, d)'
        PROVE  \A W \in Uses(g)' : Cardinality(Asked(d, W)') < RefreshLimit
    <2>1. CASE Aims(g, d)
      BY <1>1, <1>2, <1>3, <2>1, RoomStays
    <2>2. CASE ~ Aims(g, d)
      <3>1. g = h /\ at'[h] = "status" /\ d = day
        <4>1. at'[h] = "row" => at[h] = "status"
          BY QuietEffect
        <4>. QED
          BY <1>1, <1>6, <2>2, <4>1 DEF Aims
      <3>2. at[h] = "runs" /\ Cardinality(UsedSince(req[h].since)) < RefreshLimit
        BY <3>1, QuietEffect
      <3>3. Asked(d, linked) \subseteq UsedSince(req[h].since)
        <4>1. req[h].since \in Nat /\ day \in Nat /\ req[h].since <= day
          <5>1. req[h].since \in Days /\ day \in Days /\ req[h].since <= day
            BY DEF Base, TypeOK, Sound
          <5>. QED
            BY <5>1 DEF Days
        <4>2. ASSUME NEW r \in Asked(d, linked) PROVE r \in UsedSince(req[h].since)
          <5>1. /\ r \in DOMAIN runs /\ runs[r].by = "owner" /\ runs[r].sent /\ runs[r].made = day
                /\ r \in Existing
            BY <3>1 DEF Asked, Existing
          <5>2. runs[r].started > 0
            BY <1>2, <3>2, <5>1 DEF TurnTaken
          <5>3. runs[r].started >= day /\ runs[r].started <= day
            BY <5>1, <5>2 DEF Base, Sound
          <5>4. runs[r].started \in Nat
            <6>1. runs[r] \in Run
              BY <5>1 DEF Base, TypeOK
            <6>. QED
              BY <6>1 DEF Run, Days
          <5>. QED
            BY <4>1, <5>1, <5>3, <5>4 DEF UsedSince
        <4>. QED
          BY <4>2
      <3>4. /\ Cardinality(Asked(d, linked)) <= Cardinality(UsedSince(req[h].since))
            /\ Cardinality(Asked(d, linked)) \in Nat
            /\ Cardinality(UsedSince(req[h].since)) \in Nat
        BY <3>3, Finite, FS_Subset
      <3>5. Cardinality(Asked(d, linked)) < RefreshLimit
        BY <3>2, <3>4, HandlersCounted
      <3>6. Uses(g)' = {linked}
        BY <1>1, <3>1 DEF Uses
      <3>. QED
        BY <1>3, <3>5, <3>6
    <2>. QED
      BY <2>1, <2>2
  <1>8. \A d \in Days, W \in Shares' : Cardinality(Asked(d, W)') <= RefreshLimit
    BY <1>1, <1>2, <1>3, LimitStays
  <1>. QED
    BY <1>4, <1>5, <1>6, <1>8 DEF TurnTaken

LEMMA TurnNext ==
    ASSUME Base, Base', InTurnOK, [Next]_vars
    PROVE  InTurnOK'
  <1>1. CASE \E h \in Handlers : CreateExport(h) \/ CompleteExport(h)
    <2>1. PICK h \in Handlers : CreateExport(h) \/ CompleteExport(h)
      BY <1>1
    <2>2. /\ \A g \in Handlers \ {h} : at'[g] = at[g] /\ req'[g] = req[g]
          /\ at'[h] \in {"pdf", "complete", "idle"} /\ UNCHANGED <<day, linked, runs, inTurn>>
      BY <2>1, CreateExportEffect, CompleteExportEffect
    <2>. QED
      BY <2>2, TurnKept DEF InTurnOK
  <1>2. CASE \E h \in Handlers, w \in linked : RunMade(h, w)
    <2>1. PICK h \in Handlers, w \in linked : RunMade(h, w)
      BY <1>2
    <2>. DEFINE n == Len(runs) + 1
    <2>2. /\ at[h] = "row" /\ at'[h] = "send" /\ req'[h].id = n
          /\ \A g \in Handlers \ {h} : at'[g] = at[g] /\ req'[g] = req[g]
          /\ n \notin DOMAIN runs /\ DOMAIN runs' = DOMAIN runs \cup {n}
          /\ \A i \in DOMAIN runs : runs'[i] = runs[i]
          /\ runs'[n].made = day /\ ~ runs'[n].sent /\ runs'[n].wallet = w
          /\ UNCHANGED <<day, linked, inTurn>>
      BY <2>1, CreateRunEffect
    <2>. HIDE DEF n
    <2>. SUFFICES ASSUME inTurn, TurnTaken PROVE TurnTaken'
      BY <2>2 DEF InTurnOK
    <2>3. \A d, W : Asked(d, W)' = Asked(d, W)
      BY <2>2 DEF Asked
    <2>4. h \in Refreshing /\ Refreshing' = {h}
      BY <2>2 DEF Refreshing, TurnTaken
    <2>5. \A g \in Handlers \ {h} : at'[g] \notin {"plan", "runs", "status", "row", "send"}
      BY <2>4 DEF Refreshing
    <2>6. ASSUME NEW g \in Handlers, NEW d \in Days, Aims(g, d)'
          PROVE  \A W \in Uses(g)' : Cardinality(Asked(d, W)') < RefreshLimit
      <3>1. g = h /\ d = day
        BY <2>2, <2>5, <2>6 DEF Aims
      <3>2. Aims(h, d)
        BY <2>2, <3>1 DEF Aims
      <3>. QED
        BY <2>2, <2>3, <3>1, <3>2, RoomStays
    <2>7. \A d \in Days, W \in Shares' : Cardinality(Asked(d, W)') <= RefreshLimit
      BY <2>2, <2>3, LimitStays
    <2>8. \A g \in Handlers : at'[g] \notin {"plan", "runs"}
      BY <2>2, <2>5
    <2>9. \A g, k \in Refreshing' : g = k
      BY <2>4
    <2>. QED
      BY <2>6, <2>7, <2>8, <2>9 DEF TurnTaken
  <1>3. CASE \E h \in Handlers : Enqueue(h)
    <2>1. PICK h \in Handlers : Enqueue(h)
      BY <1>3
    <2>. DEFINE n == req[h].id
    <2>2. /\ at[h] = "send" /\ at'[h] = "idle" /\ n \in DOMAIN runs
          /\ \A g \in Handlers \ {h} : at'[g] = at[g] /\ req'[g] = req[g]
          /\ DOMAIN runs' = DOMAIN runs
          /\ \A i \in DOMAIN runs : i # n => runs'[i] = runs[i]
          /\ \A i \in DOMAIN runs : runs'[i].made = runs[i].made /\ runs'[i].wallet = runs[i].wallet
          /\ UNCHANGED <<day, linked, inTurn>>
      BY <2>1, EnqueueEffect
    <2>. HIDE DEF n
    <2>. SUFFICES ASSUME inTurn, TurnTaken PROVE TurnTaken'
      BY <2>2 DEF InTurnOK
    <2>3. Refreshing' = {}
      BY <2>2 DEF Refreshing, TurnTaken
    <2>4. \A g \in Handlers : at'[g] \notin {"plan", "runs", "status", "row", "send"}
      BY <2>3 DEF Refreshing
    <2>5. ASSUME NEW d \in Days, NEW W \in Shares
          PROVE  Cardinality(Asked(d, W)') <= RefreshLimit
      <3>1. CASE d = runs[n].made /\ runs[n].wallet \in W
        <4>1. Asked(d, W)' \subseteq Asked(d, W) \cup {n}
          BY <2>2 DEF Asked
        <4>2. Cardinality(Asked(d, W)) < RefreshLimit
          <5>1. Aims(h, d)
            BY <2>2, <3>1 DEF n, Aims
          <5>2. PICK V \in Uses(h) : W \subseteq V
            BY <2>2, <3>1 DEF Shares, Uses, n
          <5>3. Cardinality(Asked(d, V)) < RefreshLimit
            BY <5>1 DEF TurnTaken
          <5>. QED
            BY <5>2, <5>3, AskedFewer, HandlersCounted
        <4>3. /\ IsFiniteSet(Asked(d, W) \cup {n})
              /\ Cardinality(Asked(d, W) \cup {n}) <= Cardinality(Asked(d, W)) + 1
              /\ Cardinality(Asked(d, W) \cup {n}) \in Nat
          BY Finite, OneMore
        <4>4. /\ Cardinality(Asked(d, W)') <= Cardinality(Asked(d, W) \cup {n})
              /\ Cardinality(Asked(d, W)') \in Nat
          BY <4>1, <4>3, FS_Subset, FS_CardinalityType
        <4>. QED
          BY <4>2, <4>3, <4>4, Finite, HandlersCounted
      <3>2. CASE ~ (d = runs[n].made /\ runs[n].wallet \in W)
        <4>1. Asked(d, W)' = Asked(d, W)
          BY <2>2, <3>2 DEF Asked
        <4>. QED
          BY <4>1 DEF TurnTaken
      <3>. QED
        BY <3>1, <3>2
    <2>6. \A g \in Handlers, d \in Days : ~ Aims(g, d)'
      BY <2>4 DEF Aims
    <2>7. Shares' = Shares
      BY <2>2 DEF Shares
    <2>. QED
      BY <2>3, <2>4, <2>5, <2>6, <2>7 DEF TurnTaken
  <1>4. CASE \E r \in DOMAIN runs : Start(r)
    <2>1. PICK n \in DOMAIN runs : Start(n)
      BY <1>4
    <2>2. /\ UNCHANGED <<day, linked, at, req, inTurn>>
          /\ runs' = [runs EXCEPT ![n].started = day]
      BY <2>1 DEF Start
    <2>3. runs \in Seq(Run) /\ runs[n] \in Run /\ day \in Nat /\ day > 0
      BY DEF Base, TypeOK, Days
    <2>4. DOMAIN runs' = DOMAIN runs /\ runs'[n].started = day
      BY <2>2, <2>3 DEF Run
    <2>5. \A i \in DOMAIN runs : /\ runs'[i].by = runs[i].by /\ runs'[i].sent = runs[i].sent
                                 /\ runs'[i].made = runs[i].made
                                 /\ runs'[i].wallet = runs[i].wallet
                                 /\ runs[i].started > 0 => runs'[i].started > 0
      BY <2>2, <2>3, <2>4 DEF Run
    <2>. QED
      BY <2>2, <2>4, <2>5, TurnKept DEF InTurnOK
  <1>5. CASE SystemRun
    <2>0. PICK w \in linked : runs' = NewRun(w, "system", TRUE)
      BY <1>5 DEF SystemRun
    <2>. DEFINE r0 == [wallet |-> w, by |-> "system", made |-> day, sent |-> TRUE, started |-> 0]
    <2>1. UNCHANGED <<day, linked, at, req, inTurn>> /\ runs' = Append(runs, r0)
      BY <1>5, <2>0 DEF SystemRun, NewRun
    <2>2. r0 \in Run /\ r0.by = "system"
      BY DEF Run, Base, TypeOK
    <2>. HIDE DEF r0
    <2>3. /\ DOMAIN runs' = DOMAIN runs \cup {Len(runs) + 1}
          /\ \A i \in DOMAIN runs : runs'[i] = runs[i]
          /\ runs'[Len(runs) + 1] = r0
      BY <2>1, <2>2 DEF Base, TypeOK
    <2>4. \A i \in DOMAIN runs' \ DOMAIN runs : runs'[i].by # "owner"
      BY <2>2, <2>3
    <2>. QED
      BY <2>1, <2>3, <2>4, TurnKept DEF InTurnOK
  <1>6. CASE (\E w \in Wallets : Unlink(w)) \/ PlanChanges \/ MinuteEnds \/ UNCHANGED vars
    <2>1. UNCHANGED <<day, runs, at, req, inTurn>> /\ linked' \subseteq linked
      BY <1>6 DEF Unlink, PlanChanges, MinuteEnds, vars
    <2>. QED
      BY <2>1, TurnKept DEF InTurnOK
  <1>7. CASE Midnight
    <2>1. UNCHANGED <<linked, runs, at, req, inTurn>> /\ day' = day + 1
      BY <1>7 DEF Midnight
    <2>. SUFFICES ASSUME inTurn, TurnTaken PROVE TurnTaken'
      BY <2>1 DEF InTurnOK
    <2>2. /\ \A d, W : Asked(d, W)' = Asked(d, W)
          /\ Existing' = Existing /\ \A h : Uses(h)' = Uses(h)
      BY <2>1 DEF Asked, Existing, Uses
    <2>3. \A W : Asked(day + 1, W) = {}
      <3>1. day \in Nat /\ \A r \in DOMAIN runs : runs[r].made <= day
        BY DEF Base, TypeOK, Sound, Days
      <3>. QED
        BY <3>1 DEF Asked
    <2>4. ASSUME NEW h \in Handlers, NEW d \in Days, Aims(h, d)', NEW W \in Uses(h)
          PROVE  Cardinality(Asked(d, W)') < RefreshLimit
      <3>1. CASE Aims(h, d)
        BY <2>2, <3>1 DEF TurnTaken
      <3>2. CASE ~ Aims(h, d)
        <4>1. at[h] \in {"status", "row"} /\ d = day + 1
          BY <2>1, <2>4, <3>2 DEF Aims
        <4>2. Cardinality(Asked(d, W)) = 0
          BY <2>3, <4>1, FS_EmptySet
        <4>3. /\ Cardinality(Asked(day, linked)) < RefreshLimit
              /\ Cardinality(Asked(day, linked)) \in Nat
          <5>1. day \in Days /\ Aims(h, day) /\ linked \in Uses(h)
            BY <4>1 DEF Aims, Uses, Base, TypeOK
          <5>. QED
            BY <5>1, Finite DEF TurnTaken
        <4>4. 0 < RefreshLimit
          BY <4>3, HandlersCounted
        <4>. QED
          BY <2>2, <4>2, <4>4
      <3>. QED
        BY <3>1, <3>2
    <2>7. \A d \in Days, W \in Shares' : Cardinality(Asked(d, W)') <= RefreshLimit
      BY <2>1, <2>2, LimitStays
    <2>8. \A g, h \in Refreshing' : g = h
      BY <2>1 DEF Refreshing, TurnTaken
    <2>9. \A h \in Handlers : at'[h] \in {"plan", "runs"} =>
              \A r \in Existing' : runs'[r].by = "owner" /\ runs'[r].sent => runs'[r].started > 0
      BY <2>1, <2>2 DEF TurnTaken
    <2>. QED
      BY <2>2, <2>4, <2>7, <2>8, <2>9 DEF TurnTaken
  <1>. QED
    BY <1>1, <1>2, <1>3, <1>4, <1>5, <1>6, <1>7, Sorted, TurnQuiet

----------------------------------------------------------------------------
(* Theorems *)

LEMMA Inductive == Spec => []IInv
  <1>1. Init => IInv
    <2>. SUFFICES ASSUME Init PROVE IInv
      OBVIOUS
    <2>1. Base
      BY BaseInit
    <2>2. /\ \A d : CreatedOn(d) = {} /\ \A W : Asked(d, W) = {}
          /\ Passed = {} /\ Dropped = {} /\ Refreshing = {}
      BY DEF Init, CreatedOn, Asked, Passed, Dropped, Refreshing
    <2>3. Cardinality({}) = 0
      BY FS_EmptySet
    <2>4. Counted
      BY <2>2, <2>3, HandlersCounted DEF Counted, Weight
    <2>5. DroppedCounted
      BY <2>2, <2>3 DEF DroppedCounted, Init
    <2>6. TurnTaken
      <3>1. \A h \in Handlers, d \in Days : ~ Aims(h, d)
        BY DEF Init, Aims
      <3>2. \A h \in Handlers : at[h] = "idle"
        BY DEF Init
      <3>3. \A d \in Days, W \in Shares : Cardinality(Asked(d, W)) <= RefreshLimit
        BY <2>2, <2>3, HandlersCounted
      <3>. QED
        BY <2>2, <3>1, <3>2, <3>3 DEF TurnTaken
    <2>. QED
      BY <2>1, <2>4, <2>5, <2>6 DEF IInv, InTurnOK
  <1>2. IInv /\ [Next]_vars => IInv'
    <2>. SUFFICES ASSUME IInv, [Next]_vars PROVE IInv'
      OBVIOUS
    <2>1. Base'
      BY BaseNext DEF IInv
    <2>. QED
      BY <2>1, CountedNext, DroppedNext, TurnNext DEF IInv
  <1>. QED
    BY <1>1, <1>2, PTL DEF Spec

\* Every variable keeps its type: dates are days, and every row has its fields.
THEOREM TypeCorrect == Spec => []TypeOK
  <1>1. IInv => TypeOK
    BY DEF IInv, Base
  <1>. QED
    BY Inductive, <1>1, PTL

\* The exports of a day exceed EXPORT_DAILY_LIMIT by less than the number of
\* requests that createExport serves at a time, at any midnight.
THEOREM BoundedExports == Spec => []ExportsBounded
  <1>1. IInv => ExportsBounded
    <2>. SUFFICES ASSUME IInv, NEW d \in Days
                  PROVE  Cardinality(CreatedOn(d)) + 1 <= ExportLimit + Cardinality(Handlers)
      BY DEF ExportsBounded
    <2>1. Weight(d) + 1 <= ExportLimit + Cardinality(Handlers)
      BY DEF IInv, Counted
    <2>. QED
      BY <2>1, Finite, HandlersCounted DEF IInv, Weight
  <1>. QED
    BY Inductive, <1>1, PTL

\* Exports that stay pending with no request at work are no more than the calls
\* of createExport that failed.
THEOREM ExplainedPending == Spec => []PendingExplained
  <1>1. IInv => PendingExplained
    BY DEF IInv, DroppedCounted, Dropped, PendingExplained
  <1>. QED
    BY Inductive, <1>1, PTL

\* As long as each refresh waits until the run of the one before has started, the
\* refreshes of one day stay within PREMIUM_REFRESH_DAILY_LIMIT, for the linked wallets
\* together and for each wallet that was: unlinking resets no more than was used.
THEOREM RefreshesInTurn == Spec => []RefreshInTurn
  <1>1. IInv => RefreshInTurn
    BY DEF IInv, InTurnOK, TurnTaken, Shares, RefreshInTurn
  <1>. QED
    BY Inductive, <1>1, PTL

==============================================================================
