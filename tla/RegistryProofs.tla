---------------------------- MODULE RegistryProofs ----------------------------
(***************************************************************************)
(* Machine-checked proofs about the registry and its readers: Registry,    *)
(* for every number of processes, requests in flight, requests and faults, *)
(* and Analysis, where a worker reads the registry into copies of its own, *)
(* for every set of chains, age, number of votes, jobs, changes and faults.*)
(***************************************************************************)
EXTENDS Registry, Analysis, FiniteSetTheorems, WellFoundedInduction, TLAPS

----------------------------------------------------------------------------
(* The inductive invariants *)

RequestsOK ==
    \A r \in Requests :
        /\ at[r] # "idle" => req[r].inst \in used
        /\ at[r] # "load" => load[r] = NoLoad

IInv == TypeOK /\ RequestsOK

\* A change of a list is written and the cache of its process is not emptied yet.
Doomed == \E r \in Requests : at[r] = "invalidate" /\ req[r].table \in Kinds

\* What process i holds, and what is on its way to it.
Fresh(i) ==
    \A k \in Kinds :
        /\ \A r \in Requests : load[r][k].step = "hold" => load[r][k].list = Listing(k)
        /\ cache[i][k] \in {"none", Listing(k)} \/ Doomed

CachesFresh == \A i \in Instances : calm /\ used \subseteq {i} => Fresh(i)

PageOnly ==
    /\ \A r, s \in Open : r = s
    /\ \A r \in Open : req[r].by = "page"

Listed == [k \in Kinds |-> Listing(k)]

\* A change is written and the page has not loaded since.
Outdated == \E r \in Requests : at[r] \in {"invalidate", "answer", "load"}

\* What the only process sent the page, and what the page makes of it.
Shows ==
    /\ \A r \in Requests, k \in Kinds :
           at[r] = "load" /\ load[r][k].step = "done" => load[r][k].list = Listing(k)
    /\ error \/ shown \in {Nothing, Listed} \/ Outdated

PageFresh ==
    /\ solo => calm /\ PageOnly
    /\ \A i \in Instances : solo /\ used \subseteq {i} => Shows

----------------------------------------------------------------------------
(* Types *)

LEMMA ListingType == ASSUME NEW k PROVE Listing(k) \in Lists
  BY DEF Listing, Lists

LEMMA NoRequestType == NoRequest \in Request
  <1>1. (CHOOSE i \in Instances : TRUE) \in Instances
    BY RegistryAssumption
  <1>. QED
    BY <1>1 DEF NoRequest, Request, Ops, Tables, Kinds

LEMMA NoLoadType == NoLoad \in [Kinds -> [step : {"ask", "hold", "done"}, list : Lists]]
  BY DEF NoLoad, Lists

\* What a request is given when it goes on.
LEMMA AsTypes ==
    ASSUME IInv, NEW r \in Requests, NEW next \in Steps, NEW q \in Request, As(r, next, q)
    PROVE  at' \in [Requests -> Steps] /\ req' \in [Requests -> Request]
  BY NoRequestType DEF As, IInv, TypeOK

LEMMA ArriveTypes ==
    ASSUME IInv, NEW r \in Requests, NEW i \in Instances, Arrive(r, i)
    PROVE  load' \in [Requests -> [Kinds -> [step : {"ask", "hold", "done"}, list : Lists]]]
  <1> DEFINE lists == [k \in Kinds |->
                 IF cache[i][k] # "none" THEN [step |-> "done", list |-> cache[i][k]]
                                         ELSE [step |-> "ask", list |-> "empty"]]
  <1>1. lists \in [Kinds -> [step : {"ask", "hold", "done"}, list : Lists]]
    BY DEF IInv, TypeOK, Lists
  <1>. HIDE DEF lists
  <1>2. load' = [load EXCEPT ![r] = lists]
    BY DEF Arrive, lists
  <1>. QED
    BY <1>1, <1>2 DEF IInv, TypeOK

\* A request that begins or goes on, unless it is the end of a load: its instance is
\* one that was used, and only a load has lists.
LEMMA RequestsMove ==
    ASSUME IInv, NEW r \in Requests, NEW next, NEW q, As(r, next, q), used \subseteq used',
           next # "idle" => q.inst \in used',
           \A s \in Requests : s # r => load'[s] = load[s],
           next # "load" => load'[r] = NoLoad
    PROVE  RequestsOK'
  BY DEF As, RequestsOK, IInv, TypeOK

LEMMA BeginKeeps ==
    ASSUME IInv, NEW r \in Requests, NEW q \in Request, Begin(r, q)
    PROVE  IInv'
  <1>1. PICK next \in {"load", "write", "find"} :
            /\ As(r, next, q) /\ (next = "load" <=> q.op = "snapshot")
            /\ next = "write" => q.op = "create"
    BY DEF Begin
  <1>2. at' \in [Requests -> Steps] /\ req' \in [Requests -> Request]
    BY <1>1, AsTypes DEF Steps
  <1>3. load' \in [Requests -> [Kinds -> [step : {"ask", "hold", "done"}, list : Lists]]]
    BY ArriveTypes DEF Begin, Request, IInv, TypeOK
  <1>4. TypeOK'
    <2>1. q.inst \in Instances
      BY DEF Request
    <2>2. error' \in BOOLEAN /\ solo' \in BOOLEAN /\ calm' \in BOOLEAN
      BY DEF Begin, IInv, TypeOK
    <2>3. begun' \in 0..MaxRequests /\ used' \subseteq Instances
      BY <2>1, RegistryAssumption DEF Begin, IInv, TypeOK
    <2>. QED
      BY <1>2, <1>3, <2>2, <2>3 DEF Begin, IInv, TypeOK
  <1>5. /\ \A s \in Requests : s # r => load'[s] = load[s]
        /\ q.op # "snapshot" => load' = load
    BY DEF Begin, Arrive, IInv, TypeOK
  <1>6. at[r] = "idle" /\ load[r] = NoLoad
    BY DEF Begin, IInv, RequestsOK
  <1>7. RequestsOK'
    <2>1. used \subseteq used' /\ q.inst \in used'
      BY DEF Begin
    <2>. QED
      BY <1>1, <1>5, <1>6, <2>1, RequestsMove
  <1>. QED
    BY <1>4, <1>7 DEF IInv

LEMMA FindKeeps ==
    ASSUME IInv, NEW r \in Requests, Find(r)
    PROVE  IInv'
  <1>1. PICK next \in {"idle", "write"} : As(r, next, req[r])
    BY DEF Find, Go
  <1>2. /\ error' \in BOOLEAN /\ req[r] \in Request
        /\ UNCHANGED <<access, row, cache, load, shown, begun, faults, used, calm, solo>>
    BY DEF Find, Refused, IInv, TypeOK, history
  <1>3. at' \in [Requests -> Steps] /\ req' \in [Requests -> Request]
    BY <1>1, <1>2, AsTypes DEF Steps
  <1>4. at[r] = "find" /\ load[r] = NoLoad /\ req[r].inst \in used
    BY DEF Find, IInv, RequestsOK
  <1>5. RequestsOK'
    BY <1>1, <1>2, <1>4, RequestsMove
  <1>. QED
    BY <1>2, <1>3, <1>5 DEF IInv, TypeOK

LEMMA WriteKeeps ==
    ASSUME IInv, NEW r \in Requests, Write(r)
    PROVE  IInv'
  <1>1. PICK next \in {"idle", "invalidate"} : As(r, next, req[r])
    BY DEF Write, Go
  <1>2. /\ error' \in BOOLEAN /\ req[r] \in Request /\ calm' \in BOOLEAN
        /\ row' \in [Tables -> {"none", "active", "inactive"}]
        /\ UNCHANGED <<access, cache, load, shown, begun, faults, used, solo>>
    <2>1. req[r] \in Request /\ UNCHANGED <<access, cache, load, shown, begun, faults, used, solo>>
      BY DEF Write, IInv, TypeOK
    <2>2. error' \in BOOLEAN /\ calm' \in BOOLEAN
      BY DEF Write, Refused, IInv, TypeOK
    <2>3. row' \in [Tables -> {"none", "active", "inactive"}]
      BY DEF Write, IInv, TypeOK
    <2>. QED
      BY <2>1, <2>2, <2>3
  <1>3. at' \in [Requests -> Steps] /\ req' \in [Requests -> Request]
    BY <1>1, <1>2, AsTypes DEF Steps
  <1>4. at[r] = "write" /\ load[r] = NoLoad /\ req[r].inst \in used
    BY DEF Write, IInv, RequestsOK
  <1>5. RequestsOK'
    BY <1>1, <1>2, <1>4, RequestsMove
  <1>. QED
    BY <1>2, <1>3, <1>5 DEF IInv, TypeOK

LEMMA InvalidateKeeps ==
    ASSUME IInv, NEW r \in Requests, Invalidate(r)
    PROVE  IInv'
  <1>1. /\ As(r, "answer", req[r]) /\ req[r] \in Request /\ at[r] = "invalidate"
        /\ UNCHANGED <<access, row, load, shown, error, begun, faults, used, calm, solo>>
    BY DEF Invalidate, InvalidateWith, Go, IInv, TypeOK, page, history
  <1>2. cache' \in [Instances -> [Kinds -> Lists \cup {"none"}]]
    <2>1. PICK doomed : InvalidateWith(r, doomed)
      BY DEF Invalidate
    <2>2. cache' = [cache EXCEPT ![req[r].inst] = [k \in Kinds |-> IF k \in doomed THEN "none" ELSE @[k]]]
      BY <2>1 DEF InvalidateWith
    <2>3. req[r].inst \in Instances /\ cache \in [Instances -> [Kinds -> Lists \cup {"none"}]]
      BY <1>1 DEF Request, IInv, TypeOK
    <2>. QED
      BY <2>2, <2>3
  <1>3. at' \in [Requests -> Steps] /\ req' \in [Requests -> Request]
    BY <1>1, AsTypes DEF Steps
  <1>4. load[r] = NoLoad /\ req[r].inst \in used
    BY <1>1 DEF IInv, RequestsOK
  <1>5. RequestsOK'
    BY <1>1, <1>4, RequestsMove
  <1>. QED
    BY <1>1, <1>2, <1>3, <1>5 DEF IInv, TypeOK

LEMMA AnswerKeeps ==
    ASSUME IInv, NEW r \in Requests, Answer(r)
    PROVE  IInv'
  <1>1. /\ at[r] = "answer" /\ req[r] \in Request
        /\ UNCHANGED <<access, row, cache, shown, begun, faults, calm, solo>>
        /\ load[r] = NoLoad /\ req[r].inst \in used
    BY DEF Answer, AnswerTo, IInv, TypeOK, RequestsOK
  <1>2. CASE req[r].by = "page" /\ "read" \in access
    <2>1. PICK i \in Instances :
              /\ As(r, "load", [req[r] EXCEPT !.op = "snapshot", !.inst = i])
              /\ used' = used \cup {i} /\ Arrive(r, i) /\ error' = FALSE
      BY <1>2 DEF Answer, AnswerTo
    <2>2. PICK q \in Request : As(r, "load", q) /\ q.inst = i
      <3>1. PICK q : q = [req[r] EXCEPT !.op = "snapshot", !.inst = i]
        OBVIOUS
      <3>2. q \in Request /\ q.inst = i
        BY <1>1, <3>1 DEF Request, Ops
      <3>. QED
        BY <2>1, <3>1, <3>2
    <2>3. at' \in [Requests -> Steps] /\ req' \in [Requests -> Request]
      BY <2>2, AsTypes DEF Steps
    <2>4. load' \in [Requests -> [Kinds -> [step : {"ask", "hold", "done"}, list : Lists]]]
      BY <2>1, ArriveTypes
    <2>5. \A s \in Requests : s # r => load'[s] = load[s]
      BY <2>1 DEF Arrive, IInv, TypeOK
    <2>6. RequestsOK'
      BY <2>1, <2>2, <2>5, <1>1, RequestsMove
    <2>. QED
      BY <1>1, <2>1, <2>3, <2>4, <2>6 DEF IInv, TypeOK
  <1>3. CASE ~(req[r].by = "page" /\ "read" \in access)
    <2>1. As(r, "idle", req[r]) /\ UNCHANGED <<load, used>> /\ error' \in BOOLEAN
      BY <1>3 DEF Answer, AnswerTo, Go, IInv, TypeOK
    <2>2. at' \in [Requests -> Steps] /\ req' \in [Requests -> Request]
      BY <1>1, <2>1, AsTypes DEF Steps
    <2>3. RequestsOK'
      BY <1>1, <2>1, RequestsMove
    <2>. QED
      BY <1>1, <2>1, <2>2, <2>3 DEF IInv, TypeOK
  <1>. QED
    BY <1>2, <1>3

\* A step of the loads of r in progress.
LEMMA LoadKeeps ==
    ASSUME IInv, NEW r \in Requests, NEW k \in Kinds, Query(r, k) \/ Store(r, k)
    PROVE  IInv'
  <1>1. /\ at[r] = "load"
        /\ UNCHANGED <<access, row, at, req, shown, error, begun, faults, used, calm, solo>>
    BY DEF Query, Store, page, history
  <1>2. PICK here \in [step : {"ask", "hold", "done"}, list : Lists] :
            load' = [load EXCEPT ![r][k] = here]
    <2>1. load[r][k] \in [step : {"ask", "hold", "done"}, list : Lists]
      BY DEF IInv, TypeOK
    <2>2. CASE Query(r, k)
      <3>1. [step |-> "hold", list |-> Listing(k)] \in [step : {"ask", "hold", "done"}, list : Lists]
        BY ListingType
      <3>. QED
        BY <2>2, <3>1 DEF Query
    <2>3. CASE Store(r, k)
      <3>1. load' = [load EXCEPT ![r][k] = [load[r][k] EXCEPT !.step = "done"]]
        BY <2>3 DEF Store
      <3>2. [load[r][k] EXCEPT !.step = "done"] \in [step : {"ask", "hold", "done"}, list : Lists]
        BY <2>1
      <3>. QED
        BY <3>1, <3>2
    <2>. QED
      BY <2>2, <2>3
  <1>3. load' \in [Requests -> [Kinds -> [step : {"ask", "hold", "done"}, list : Lists]]]
    BY <1>2 DEF IInv, TypeOK
  <1>4. cache' \in [Instances -> [Kinds -> Lists \cup {"none"}]]
    <2>1. CASE Query(r, k)
      BY <2>1 DEF Query, IInv, TypeOK
    <2>2. CASE Store(r, k)
      <3>1. cache' = [cache EXCEPT ![req[r].inst][k] = load[r][k].list]
        BY <2>2 DEF Store
      <3>2. load[r][k].list \in Lists \cup {"none"} /\ req[r].inst \in Instances
        BY DEF IInv, TypeOK, Request
      <3>. QED
        BY <3>1, <3>2 DEF IInv, TypeOK
    <2>. QED
      BY <2>1, <2>2
  <1>5. RequestsOK'
    BY <1>1, <1>2 DEF IInv, TypeOK, RequestsOK
  <1>. QED
    BY <1>1, <1>3, <1>4, <1>5 DEF IInv, TypeOK

LEMMA ShowKeeps ==
    ASSUME IInv, NEW r \in Requests, Show(r)
    PROVE  IInv'
  <1>1. /\ As(r, "idle", req[r]) /\ req[r] \in Request
        /\ load' = [load EXCEPT ![r] = NoLoad]
        /\ shown' = [k \in Kinds |-> load[r][k].list]
        /\ UNCHANGED <<access, row, cache, error, begun, faults, used, calm, solo>>
    BY DEF Show, Go, IInv, TypeOK, history
  <1>2. shown' \in Snapshot
    BY <1>1 DEF Snapshot, IInv, TypeOK
  <1>3. load' \in [Requests -> [Kinds -> [step : {"ask", "hold", "done"}, list : Lists]]]
    BY <1>1, NoLoadType DEF IInv, TypeOK
  <1>4. at' \in [Requests -> Steps] /\ req' \in [Requests -> Request]
    BY <1>1, AsTypes DEF Steps
  <1>5. load'[r] = NoLoad /\ \A s \in Requests : s # r => load'[s] = load[s]
    BY <1>1 DEF IInv, TypeOK
  <1>6. RequestsOK'
    BY <1>1, <1>5, RequestsMove
  <1>. QED
    BY <1>1, <1>2, <1>3, <1>4, <1>6 DEF IInv, TypeOK

LEMMA DropKeeps ==
    ASSUME IInv, NEW i \in Instances, NEW k \in Kinds, Expire(i, k)
    PROVE  IInv'
  <1>1. UNCHANGED <<access, row, at, req, load, shown, error, begun, faults, used, calm, solo>>
    BY DEF Expire, Drop, page, history
  <1>2. cache' \in [Instances -> [Kinds -> Lists \cup {"none"}]]
    BY DEF Expire, Drop, IInv, TypeOK
  <1>3. RequestsOK'
    BY <1>1 DEF IInv, RequestsOK
  <1>. QED
    BY <1>1, <1>2, <1>3 DEF IInv, TypeOK

LEMMA LoseKeeps ==
    ASSUME IInv, NEW rs, Lose(rs), UNCHANGED <<access, row, shown, begun, used, calm>>,
           cache' \in [Instances -> [Kinds -> Lists \cup {"none"}]]
    PROVE  IInv'
  <1>1. /\ at' \in [Requests -> Steps] /\ req' \in [Requests -> Request]
        /\ load' \in [Requests -> [Kinds -> [step : {"ask", "hold", "done"}, list : Lists]]]
    BY NoRequestType, NoLoadType DEF Lose, IInv, TypeOK, Steps
  <1>2. error' \in BOOLEAN /\ solo' \in BOOLEAN
    BY DEF Lose, IInv, TypeOK
  <1>3. faults' \in 0..MaxFaults
    BY RegistryAssumption DEF Lose, IInv, TypeOK
  <1>4. RequestsOK'
    BY DEF Lose, IInv, RequestsOK
  <1>. QED
    BY <1>1, <1>2, <1>3, <1>4 DEF IInv, TypeOK

LEMMA NextKeeps ==
    ASSUME IInv, Next
    PROVE  IInv'
  <1>1. ASSUME NEW r \in Requests, PageClicks(r) \/ ApiCall(r) PROVE IInv'
    <2>1. PICK q \in Request : Begin(r, q)
      BY <1>1 DEF PageClicks, ApiCall, Request, Ops, Tables
    <2>. QED
      BY <2>1, BeginKeeps
  <1>2. ASSUME NEW r \in Requests, Denied(r) PROVE IInv'
    <2>1. /\ error' = TRUE /\ begun' \in 0..MaxRequests
          /\ UNCHANGED <<access, row, cache, at, req, load, shown, faults, used, calm, solo>>
      BY <1>2, RegistryAssumption DEF Denied, IInv, TypeOK, history
    <2>2. RequestsOK'
      BY <2>1 DEF IInv, RequestsOK
    <2>. QED
      BY <2>1, <2>2 DEF IInv, TypeOK
  <1>3. ASSUME NEW r \in Requests, Serve(r) PROVE IInv'
    BY <1>3, FindKeeps, WriteKeeps, InvalidateKeeps, AnswerKeeps, ShowKeeps, LoadKeeps DEF Serve
  <1>4. ASSUME NEW r \in Requests, Fail(r) PROVE IInv'
    BY <1>4, LoseKeeps DEF Fail, IInv, TypeOK
  <1>5. ASSUME NEW i \in Instances, Restart(i) PROVE IInv'
    <2>1. cache' \in [Instances -> [Kinds -> Lists \cup {"none"}]]
      BY <1>5 DEF Restart, IInv, TypeOK
    <2>. QED
      BY <1>5, <2>1, LoseKeeps DEF Restart
  <1>. QED
    BY <1>1, <1>2, <1>3, <1>4, <1>5, DropKeeps DEF Next

LEMMA Inductive == Spec => []IInv
  <1>1. Init => IInv
    <2>. SUFFICES ASSUME Init PROVE IInv
      OBVIOUS
    <2>1. TypeOK
      <3>1. /\ at \in [Requests -> Steps] /\ req \in [Requests -> Request]
            /\ load \in [Requests -> [Kinds -> [step : {"ask", "hold", "done"}, list : Lists]]]
        BY NoRequestType, NoLoadType DEF Init, Steps
      <3>2. /\ cache \in [Instances -> [Kinds -> Lists \cup {"none"}]]
            /\ access \subseteq {"read", "write"}
            /\ row \in [Tables -> {"none", "active", "inactive"}]
        BY DEF Init
      <3>3. begun \in 0..MaxRequests /\ faults \in 0..MaxFaults
        BY RegistryAssumption DEF Init
      <3>4. /\ shown = Nothing /\ error = FALSE /\ used = {} /\ calm = TRUE /\ solo = TRUE
        BY DEF Init
      <3>. QED
        BY <3>1, <3>2, <3>3, <3>4 DEF TypeOK
    <2>2. RequestsOK
      BY DEF Init, RequestsOK
    <2>. QED
      BY <2>1, <2>2 DEF IInv
  <1>2. IInv /\ [Next]_vars => IInv'
    <2>1. IInv /\ UNCHANGED vars => IInv'
      BY DEF IInv, TypeOK, RequestsOK, vars
    <2>. QED
      BY <2>1, NextKeeps
  <1>. QED
    BY <1>1, <1>2, PTL DEF Spec

\* Entries, caches, requests, loads and the page keep their types, whatever fails or
\* restarts.
THEOREM TypeCorrect == Spec => []TypeOK
  BY Inductive, PTL DEF IInv

----------------------------------------------------------------------------
(* The caches *)

\* What happened remains: more instances are used, a change that overtook a load and
\* a request that was not alone are not forgotten.
LEMMA HistoryGrows ==
    ASSUME IInv, Next
    PROVE  used \subseteq used' /\ (calm' => calm) /\ (solo' => solo)
  <1> DEFINE Grows == used \subseteq used' /\ (calm' => calm) /\ (solo' => solo)
  <1>1. ASSUME NEW r \in Requests, NEW q, Begin(r, q) PROVE Grows
    <2>1. /\ used' = used \cup {q.inst} /\ calm' = calm
          /\ solo' = (solo /\ q.by = "page" /\ Open = {})
      BY <1>1 DEF Begin
    <2>. QED
      BY <2>1
  <1>2. ASSUME NEW r \in Requests, Write(r) PROVE Grows
    <2>1. used' = used /\ solo' = solo /\ (calm' => calm)
      BY <1>2 DEF Write
    <2>. QED
      BY <2>1
  <1>3. ASSUME NEW r \in Requests, Answer(r) PROVE Grows
    <2>1. used \subseteq used' /\ calm' = calm /\ solo' = solo
      BY <1>3 DEF Answer, AnswerTo
    <2>. QED
      BY <2>1
  <1>4. ASSUME UNCHANGED history PROVE Grows
    BY <1>4 DEF history
  <1>5. ASSUME NEW r \in Requests, Serve(r) PROVE Grows
    <2>1. Find(r) \/ Invalidate(r) \/ Show(r) => UNCHANGED history
      BY DEF Find, Invalidate, InvalidateWith, Show
    <2>2. \A k \in Kinds : Query(r, k) \/ Store(r, k) => UNCHANGED history
      BY DEF Query, Store
    <2>. QED
      BY <1>2, <1>3, <1>4, <1>5, <2>1, <2>2 DEF Serve
  <1>6. ASSUME NEW rs, Lose(rs), used' = used, calm' = calm PROVE Grows
    BY <1>6 DEF Lose
  <1>7. ASSUME NEW r \in Requests, Denied(r) \/ Fail(r) PROVE Grows
    BY <1>4, <1>6, <1>7 DEF Denied, Fail
  <1>8. ASSUME NEW i \in Instances, Restart(i) PROVE Grows
    BY <1>6, <1>8 DEF Restart
  <1>9. ASSUME NEW i \in Instances, NEW k \in Kinds, Expire(i, k) PROVE Grows
    BY <1>4, <1>9 DEF Expire, Drop
  <1>. HIDE DEF Grows
  <1>10. Grows
    BY <1>1, <1>5, <1>7, <1>8, <1>9 DEF Next, PageClicks, ApiCall
  <1>. QED
    BY <1>10 DEF Grows

\* A snapshot is answered from the cache or has to ask; it holds no list yet.
LEMMA ArriveLists ==
    ASSUME IInv, NEW r \in Requests, NEW i \in Instances, Arrive(r, i)
    PROVE  /\ \A s \in Requests : s # r => load'[s] = load[s]
           /\ \A k \in Kinds : \/ /\ load'[r][k] = [step |-> "done", list |-> cache[i][k]]
                                /\ cache[i][k] # "none"
                             \/ load'[r][k] = [step |-> "ask", list |-> "empty"]
  BY DEF Arrive, IInv, TypeOK

LEMMA ArriveHolds ==
    ASSUME IInv, NEW r \in Requests, NEW i \in Instances, Arrive(r, i),
           NEW s \in Requests, NEW k \in Kinds, load'[s][k].step = "hold"
    PROVE  load'[s][k] = load[s][k]
  <1>1. s # r
    <2>. SUFFICES ASSUME s = r PROVE FALSE
      OBVIOUS
    <2>1. \/ load'[r][k] = [step |-> "done", list |-> cache[i][k]]
          \/ load'[r][k] = [step |-> "ask", list |-> "empty"]
      BY ArriveLists
    <2>. QED
      BY <2>1
  <1>. QED
    BY <1>1, ArriveLists

\* A step that reads no list, stores none and leaves the tables as they are.
LEMMA FreshIf ==
    ASSUME IInv, NEW i \in Instances, Fresh(i), row' = row,
           \A s \in Requests, k \in Kinds :
               load'[s][k].step = "hold" => load'[s][k] = load[s][k],
           \A k \in Kinds : cache'[i][k] \in {cache[i][k], "none"},
           \/ Doomed => Doomed'
           \/ \A k \in Kinds : cache'[i][k] = "none"
    PROVE  Fresh(i)'
  <1>1. \A k \in Kinds : Listing(k)' = Listing(k)
    BY DEF Listing
  <1>. QED
    BY <1>1 DEF Fresh

LEMMA BeginFresh ==
    ASSUME IInv, NEW i \in Instances, Fresh(i), NEW r \in Requests, NEW q \in Request,
           Begin(r, q)
    PROVE  Fresh(i)'
  <1>1. row' = row /\ cache' = cache /\ at[r] = "idle"
    BY DEF Begin
  <1>2. \A s \in Requests, k \in Kinds :
            load'[s][k].step = "hold" => load'[s][k] = load[s][k]
    <2>1. load' = load \/ Arrive(r, q.inst)
      BY DEF Begin
    <2>2. q.inst \in Instances
      BY DEF Request
    <2>. QED
      BY <2>1, <2>2, ArriveHolds
  <1>3. \A s \in Requests : s # r => at'[s] = at[s] /\ req'[s] = req[s]
    BY DEF Begin, As, IInv, TypeOK
  <1>4. Doomed => Doomed'
    BY <1>1, <1>3 DEF Doomed
  <1>. QED
    BY <1>1, <1>2, <1>4, FreshIf

LEMMA WriteFresh ==
    ASSUME IInv, NEW i \in Instances, Fresh(i), NEW r \in Requests, Write(r), calm'
    PROVE  Fresh(i)'
  <1>1. /\ at[r] = "write" /\ load' = load /\ cache' = cache
        /\ \A s \in Requests : s # r => at'[s] = at[s] /\ req'[s] = req[s]
    BY DEF Write, Go, As, IInv, TypeOK
  <1>2. Doomed => Doomed'
    BY <1>1 DEF Doomed
  <1>3. CASE row' = row
    BY <1>1, <1>2, <1>3, FreshIf
  <1>4. CASE row' # row
    <2>1. PICK t \in Tables, new \in {"inactive", "active"} :
              /\ t = req[r].table /\ row' = [row EXCEPT ![t] = new]
              /\ Go(r, "invalidate")
              /\ t = "labels" \/ \A s \in Requests : load[s][t].step # "hold"
      BY <1>4 DEF Write, IInv, TypeOK, Request
    <2>2. at'[r] = "invalidate" /\ req'[r] = req[r]
      BY <2>1 DEF Go, As, IInv, TypeOK
    <2>3. \A k \in Kinds : k # t => Listing(k)' = Listing(k)
      BY <2>1 DEF Listing, IInv, TypeOK, Tables
    <2>4. CASE t = "labels"
      <3>1. \A k \in Kinds : Listing(k)' = Listing(k)
        BY <2>3, <2>4 DEF Kinds
      <3>. QED
        BY <1>1, <1>2, <3>1 DEF Fresh
    <2>5. CASE t # "labels"
      <3>1. t \in Kinds
        BY <2>5 DEF Tables
      <3>2. Doomed'
        BY <2>1, <2>2, <3>1 DEF Doomed
      <3>. QED
        BY <1>1, <2>1, <2>3, <2>5, <3>2 DEF Fresh
    <2>. QED
      BY <2>4, <2>5
  <1>. QED
    BY <1>3, <1>4

LEMMA InvalidateFresh ==
    ASSUME IInv, NEW i \in Instances, Fresh(i), used \subseteq {i},
           NEW r \in Requests, Invalidate(r)
    PROVE  Fresh(i)'
  <1>1. /\ at[r] = "invalidate" /\ load' = load /\ row' = row
        /\ \A s \in Requests : s # r => at'[s] = at[s] /\ req'[s] = req[s]
    BY DEF Invalidate, InvalidateWith, Go, As, IInv, TypeOK
  <1>2. req[r].inst = i /\ req[r].table \in Tables
    BY <1>1 DEF IInv, RequestsOK, TypeOK, Request
  <1>3. PICK doomed : /\ doomed = IF req[r].table = "labels" THEN {} ELSE Kinds
                      /\ cache' = [cache EXCEPT ![i] =
                                      [k \in Kinds |-> IF k \in doomed THEN "none" ELSE @[k]]]
    BY <1>2 DEF Invalidate, InvalidateWith
  <1>4. \A k \in Kinds : cache'[i][k] = IF k \in doomed THEN "none" ELSE cache[i][k]
    BY <1>3 DEF IInv, TypeOK
  <1>5. CASE req[r].table = "labels"
    <2>1. Doomed => Doomed'
      BY <1>1, <1>5 DEF Doomed, Kinds
    <2>. QED
      BY <1>1, <1>3, <1>4, <1>5, <2>1, FreshIf
  <1>6. CASE req[r].table # "labels"
    BY <1>1, <1>3, <1>4, <1>6, FreshIf
  <1>. QED
    BY <1>5, <1>6

LEMMA LoadFresh ==
    ASSUME IInv, NEW i \in Instances, Fresh(i), used \subseteq {i},
           NEW r \in Requests, NEW k \in Kinds, Query(r, k) \/ Store(r, k)
    PROVE  Fresh(i)'
  <1>1. /\ at[r] = "load" /\ UNCHANGED <<row, at, req>> /\ Doomed' = Doomed
        /\ \A j \in Kinds : Listing(j)' = Listing(j)
    BY DEF Query, Store, Doomed, Listing
  <1>2. CASE Query(r, k)
    <2>1. cache' = cache /\ load' = [load EXCEPT ![r][k] = [step |-> "hold", list |-> Listing(k)]]
      BY <1>2 DEF Query
    <2>2. /\ load'[r][k].list = Listing(k)
          /\ \A s \in Requests, j \in Kinds : (s = r /\ j = k) \/ load'[s][j] = load[s][j]
      BY <2>1 DEF IInv, TypeOK
    <2>. QED
      BY <1>1, <2>1, <2>2 DEF Fresh
  <1>3. CASE Store(r, k)
    <2>1. req[r].inst = i
      BY <1>1 DEF IInv, RequestsOK
    <2>2. /\ load[r][k].step = "hold" /\ load' = [load EXCEPT ![r][k].step = "done"]
          /\ cache' = [cache EXCEPT ![i][k] = load[r][k].list]
      BY <1>3, <2>1 DEF Store
    <2>3. cache'[i][k] = Listing(k)
      BY <2>2 DEF Fresh, IInv, TypeOK
    <2>4. /\ \A j \in Kinds : j = k \/ cache'[i][j] = cache[i][j]
          /\ \A s \in Requests, j \in Kinds : (s = r /\ j = k) \/ load'[s][j] = load[s][j]
      BY <2>2 DEF IInv, TypeOK
    <2>5. load'[r][k].step = "done"
      BY <2>2 DEF IInv, TypeOK
    <2>. QED
      BY <1>1, <2>3, <2>4, <2>5 DEF Fresh
  <1>. QED
    BY <1>2, <1>3

\* Requests that do not empty the cache end, or all of process i with the cache.
LEMMA LoseFresh ==
    ASSUME IInv, NEW i \in Instances, Fresh(i), NEW rs, Lose(rs), row' = row,
           \A k \in Kinds : cache'[i][k] \in {cache[i][k], "none"},
           \/ \A r \in rs : at[r] # "invalidate"
           \/ \A k \in Kinds : cache'[i][k] = "none"
    PROVE  Fresh(i)'
  <1>1. \A s \in Requests, k \in Kinds :
            load'[s][k].step = "hold" => load'[s][k] = load[s][k]
    BY DEF Lose, NoLoad
  <1>2. (\A r \in rs : at[r] # "invalidate") => (Doomed => Doomed')
    BY DEF Lose, Doomed
  <1>. QED
    BY <1>1, <1>2, FreshIf

LEMMA FreshStays ==
    ASSUME IInv, CachesFresh, Next
    PROVE  CachesFresh'
  <1>. SUFFICES ASSUME NEW i \in Instances, calm', used' \subseteq {i}
                PROVE  Fresh(i)'
    BY DEF CachesFresh
  <1>1. calm /\ used \subseteq {i} /\ Fresh(i)
    BY HistoryGrows DEF CachesFresh
  <1>2. ASSUME NEW r \in Requests, PageClicks(r) \/ ApiCall(r) PROVE Fresh(i)'
    <2>1. PICK q \in Request : Begin(r, q)
      BY <1>2 DEF PageClicks, ApiCall, Request, Ops, Tables
    <2>. QED
      BY <1>1, <2>1, BeginFresh
  <1>3. ASSUME NEW r \in Requests, Denied(r) PROVE Fresh(i)'
    <2>1. UNCHANGED <<row, cache, at, req, load>>
      BY <1>3 DEF Denied
    <2>. QED
      BY <1>1, <2>1 DEF Fresh, Listing, Doomed
  <1>4. ASSUME NEW r \in Requests, Find(r) \/ Answer(r) \/ Show(r) PROVE Fresh(i)'
    <2>1. row' = row /\ cache' = cache /\ at[r] # "invalidate"
      BY <1>4 DEF Find, Answer, AnswerTo, Show
    <2>2. \A s \in Requests : s # r => at'[s] = at[s] /\ req'[s] = req[s]
      BY <1>4 DEF Find, Answer, AnswerTo, Show, Go, As, IInv, TypeOK
    <2>3. Doomed => Doomed'
      BY <2>1, <2>2 DEF Doomed
    <2>4. \A s \in Requests, k \in Kinds :
              load'[s][k].step = "hold" => load'[s][k] = load[s][k]
      <3>1. \/ load' = load
            \/ \E j \in Instances : Arrive(r, j)
            \/ load' = [load EXCEPT ![r] = NoLoad]
        BY <1>4 DEF Find, Answer, AnswerTo, Show
      <3>2. \A k \in Kinds : NoLoad[k].step # "hold"
        BY DEF NoLoad
      <3>3. CASE load' = [load EXCEPT ![r] = NoLoad]
        BY <3>2, <3>3 DEF IInv, TypeOK
      <3>. QED
        BY <3>1, <3>3, ArriveHolds
    <2>. QED
      BY <1>1, <2>1, <2>3, <2>4, FreshIf
  <1>5. ASSUME NEW r \in Requests, Fail(r) PROVE Fresh(i)'
    <2>1. Lose({r}) /\ at[r] # "invalidate" /\ row' = row /\ cache' = cache
      BY <1>5 DEF Fail
    <2>. QED
      BY <1>1, <2>1, LoseFresh
  <1>6. ASSUME NEW j \in Instances, Restart(j) PROVE Fresh(i)'
    <2>1. /\ Lose({r \in Open : req[r].inst = j}) /\ row' = row
          /\ cache' = [cache EXCEPT ![j] = [k \in Kinds |-> "none"]]
      BY <1>6 DEF Restart
    <2>2. \A r \in Open : req[r].inst = i
      BY <1>1 DEF IInv, RequestsOK, Open
    <2>3. CASE j = i
      <3>1. \A k \in Kinds : cache'[i][k] = "none"
        BY <2>1, <2>3 DEF IInv, TypeOK
      <3>. QED
        BY <1>1, <2>1, <3>1, LoseFresh
    <2>4. CASE j # i
      <3>1. \A r \in {s \in Open : req[s].inst = j} : at[r] # "invalidate"
        BY <2>2, <2>4
      <3>2. cache'[i] = cache[i]
        BY <2>1, <2>4 DEF IInv, TypeOK
      <3>. QED
        BY <1>1, <2>1, <3>1, <3>2, LoseFresh
    <2>. QED
      BY <2>3, <2>4
  <1>7. ASSUME NEW j \in Instances, NEW k \in Kinds, Expire(j, k) PROVE Fresh(i)'
    <2>1. UNCHANGED <<row, at, req, load>> /\ cache' = [cache EXCEPT ![j][k] = "none"]
      BY <1>7 DEF Expire, Drop
    <2>2. \A l \in Kinds : cache'[i][l] \in {cache[i][l], "none"}
      BY <2>1 DEF IInv, TypeOK
    <2>3. Doomed => Doomed'
      BY <2>1 DEF Doomed
    <2>. QED
      BY <1>1, <2>1, <2>2, <2>3, FreshIf
  <1>. QED
    BY <1>1, <1>2, <1>3, <1>4, <1>5, <1>6, <1>7, WriteFresh, InvalidateFresh, LoadFresh
       DEF Next, Serve

LEMMA FreshInductive == Spec => [](IInv /\ CachesFresh)
  <1>1. Init => CachesFresh
    BY DEF Init, CachesFresh, Fresh, NoLoad
  <1>2. IInv /\ CachesFresh /\ [Next]_vars => CachesFresh'
    <2>1. CachesFresh /\ UNCHANGED vars => CachesFresh'
      BY DEF vars, CachesFresh, Fresh, Listing, Doomed
    <2>. QED
      BY <2>1, FreshStays
  <1>. QED
    BY Inductive, <1>1, <1>2, PTL DEF Spec

\* However changes, loads, expiries, failures and restarts interleave, a process that
\* handled every request serves the table as it is, once its last change emptied the
\* cache and unless a change overtook a load.
THEOREM CacheFollows == Spec => []CacheExact
  <1>1. CachesFresh => CacheExact
    BY DEF CachesFresh, Fresh, Doomed, CacheExact
  <1>. QED
    BY FreshInductive, <1>1, PTL

----------------------------------------------------------------------------
(* The page *)

\* While only the page asks, what is in flight is one request of the page.
LEMMA OnlyOne ==
    ASSUME IInv, PageOnly, NEW r \in Requests, at[r] # "idle"
    PROVE  /\ \A s \in Requests : s # r => at[s] = "idle" /\ load[s] = NoLoad
           /\ req[r].by = "page" /\ Open = {r}
  <1>1. r \in Open
    BY DEF Open
  <1>2. \A s \in Requests : s # r => at[s] = "idle"
    BY <1>1 DEF PageOnly, Open
  <1>. QED
    BY <1>1, <1>2 DEF PageOnly, IInv, RequestsOK, Open

\* A request that goes on or ends.
LEMMA PageOnlyGoes ==
    ASSUME IInv, PageOnly, NEW r \in Requests, at[r] # "idle", NEW next, NEW q,
           As(r, next, q), q.by = req[r].by
    PROVE  PageOnly'
  <1>1. /\ \A s \in Requests : s # r => at[s] = "idle"
        /\ req[r].by = "page"
    BY OnlyOne
  <1>2. /\ \A s \in Requests : s # r => at'[s] = "idle"
        /\ at'[r] = next /\ (next # "idle" => req'[r] = q)
    BY <1>1 DEF As, IInv, TypeOK
  <1>. QED
    BY <1>1, <1>2 DEF PageOnly, Open

LEMMA PageOnlyBegins ==
    ASSUME IInv, NEW r \in Requests, NEW q \in Request, Begin(r, q), solo'
    PROVE  /\ q.by = "page" /\ Open = {} /\ PageOnly'
           /\ \A s \in Requests : s # r => at'[s] = "idle"
  <1>1. q.by = "page" /\ Open = {}
    BY DEF Begin
  <1>2. PICK next \in {"load", "write", "find"} : As(r, next, q)
    BY DEF Begin
  <1>3. at'[r] = next /\ req'[r] = q /\ \A s \in Requests : s # r => at'[s] = "idle"
    BY <1>1, <1>2 DEF As, Open, IInv, TypeOK
  <1>. QED
    BY <1>1, <1>3 DEF PageOnly, Open

LEMMA PageOnlyStays ==
    ASSUME IInv, solo => calm /\ PageOnly, Next, solo'
    PROVE  calm' /\ PageOnly'
  <1>1. solo /\ calm /\ PageOnly
    BY HistoryGrows
  <1>2. ASSUME NEW r \in Requests, PageClicks(r) \/ ApiCall(r) PROVE calm' /\ PageOnly'
    <2>1. PICK q \in Request : Begin(r, q)
      BY <1>2 DEF PageClicks, ApiCall, Request, Ops, Tables
    <2>. QED
      BY <1>1, <2>1, PageOnlyBegins DEF Begin
  <1>3. ASSUME UNCHANGED <<at, req, calm>> PROVE calm' /\ PageOnly'
    BY <1>1, <1>3 DEF PageOnly, Open
  <1>4. ASSUME NEW r \in Requests, Write(r) PROVE calm' /\ PageOnly'
    <2>1. at[r] = "write" /\ \E next : As(r, next, req[r])
      BY <1>4 DEF Write, Go
    <2>2. \A s \in Requests : load[s] = NoLoad
      BY <1>1, <2>1, OnlyOne DEF IInv, RequestsOK
    <2>3. req[r].table = "labels" \/ \A s \in Requests : load[s][req[r].table].step # "hold"
      BY <2>2 DEF NoLoad, IInv, TypeOK, Request, Tables
    <2>4. calm'
      BY <1>1, <1>4, <2>3 DEF Write
    <2>. QED
      BY <1>1, <2>1, <2>4, PageOnlyGoes
  <1>5. ASSUME NEW r \in Requests, Find(r) \/ Invalidate(r) \/ Show(r) PROVE calm' /\ PageOnly'
    <2>1. /\ at[r] # "idle" /\ calm' = calm
          /\ As(r, "idle", req[r]) \/ As(r, "write", req[r]) \/ As(r, "answer", req[r])
      BY <1>5 DEF Find, Invalidate, InvalidateWith, Show, Go, history
    <2>. QED
      BY <1>1, <2>1, PageOnlyGoes
  <1>6. ASSUME NEW r \in Requests, Answer(r) PROVE calm' /\ PageOnly'
    <2>1. at[r] # "idle" /\ calm' = calm /\ req[r] \in Request
      BY <1>6 DEF Answer, AnswerTo, IInv, TypeOK
    <2>2. PICK next, q : As(r, next, q) /\ q.by = req[r].by
      <3>1. PICK next, i : \/ As(r, next, req[r])
                           \/ As(r, next, [req[r] EXCEPT !.op = "snapshot", !.inst = i])
        BY <1>6 DEF Answer, AnswerTo, Go
      <3>2. PICK q : q = [req[r] EXCEPT !.op = "snapshot", !.inst = i]
        OBVIOUS
      <3>3. q.by = req[r].by
        BY <2>1, <3>2 DEF Request
      <3>. QED
        BY <3>1, <3>2, <3>3
    <2>. QED
      BY <1>1, <2>1, <2>2, PageOnlyGoes
  <1>7. ASSUME NEW rs, Lose(rs), calm' = calm PROVE calm' /\ PageOnly'
    <2>1. \A s \in Open' : s \in Open /\ req'[s] = req[s]
      BY <1>7 DEF Lose, Open
    <2>. QED
      BY <1>1, <1>7, <2>1 DEF PageOnly
  <1>8. ASSUME NEW r \in Requests, Denied(r) \/ Fail(r) \/ \E k \in Kinds : Query(r, k) \/ Store(r, k)
        PROVE  calm' /\ PageOnly'
    BY <1>3, <1>7, <1>8 DEF Denied, Fail, Query, Store, history
  <1>9. ASSUME NEW i \in Instances, Restart(i) \/ \E k \in Kinds : Expire(i, k)
        PROVE  calm' /\ PageOnly'
    BY <1>3, <1>7, <1>9 DEF Restart, Expire, Drop, history
  <1>. QED
    BY <1>2, <1>4, <1>5, <1>6, <1>8, <1>9 DEF Next, Serve

\* What the only process sends the page is the table as it is.
LEMMA ArriveShows ==
    ASSUME IInv, NEW i \in Instances, Fresh(i), ~Doomed, NEW r \in Requests, Arrive(r, i),
           row' = row, at'[r] = "load", \A s \in Requests : s # r => at'[s] # "load"
    PROVE  Shows'
  <1>1. \A k \in Kinds : load'[r][k].step = "done" => load'[r][k].list = Listing(k)
    <2>. SUFFICES ASSUME NEW k \in Kinds, load'[r][k].step = "done"
                  PROVE  load'[r][k].list = Listing(k)
      OBVIOUS
    <2>1. load'[r][k] = [step |-> "done", list |-> cache[i][k]] /\ cache[i][k] # "none"
      <3>1. load'[r][k] # [step |-> "ask", list |-> "empty"]
        OBVIOUS
      <3>. QED
        BY <3>1, ArriveLists
    <2>. QED
      BY <2>1 DEF Fresh
  <1>2. \A k \in Kinds : Listing(k)' = Listing(k)
    BY DEF Listing
  <1>. QED
    BY <1>1, <1>2 DEF Shows, Outdated

\* Nothing is in flight that would show: the page is right, or says that it may not be.
LEMMA QuietShows ==
    ASSUME \A s \in Requests : at'[s] # "load",
           \/ error' = TRUE
           \/ shown' = shown /\ row' = row /\ shown \in {Nothing, Listed}
           \/ \E s \in Requests : at'[s] \in {"invalidate", "answer"}
    PROVE  Shows'
  BY DEF Shows, Outdated, Listed, Listing

LEMMA BeginShows ==
    ASSUME IInv, NEW i \in Instances, Fresh(i), Shows, NEW r \in Requests,
           NEW q \in Request, Begin(r, q), solo', used' \subseteq {i}
    PROVE  Shows'
  <1>1. /\ q.by = "page" /\ Open = {} /\ q.inst = i
        /\ \A s \in Requests : s # r => at'[s] = "idle"
        /\ row' = row /\ shown' = shown
    BY PageOnlyBegins DEF Begin
  <1>2. ~Doomed /\ ~Outdated
    BY <1>1 DEF Open, Doomed, Outdated
  <1>3. CASE q.op = "snapshot"
    <2>1. Arrive(r, i) /\ As(r, "load", q)
      BY <1>1, <1>3 DEF Begin
    <2>2. at'[r] = "load"
      BY <2>1 DEF As, IInv, TypeOK
    <2>. QED
      BY <1>1, <1>2, <2>1, <2>2, ArriveShows
  <1>4. CASE q.op # "snapshot"
    <2>1. error' = error /\ (As(r, "write", q) \/ As(r, "find", q))
      BY <1>4 DEF Begin
    <2>2. at'[r] \in {"write", "find"}
      BY <2>1 DEF As, IInv, TypeOK
    <2>3. error \in BOOLEAN
      BY DEF IInv, TypeOK
    <2>. QED
      BY <1>1, <1>2, <2>1, <2>2, <2>3, QuietShows DEF Shows
  <1>. QED
    BY <1>3, <1>4

LEMMA FindShows ==
    ASSUME IInv, PageOnly, Shows, NEW r \in Requests, Find(r)
    PROVE  Shows'
  <1>1. PICK next \in {"idle", "write"} : As(r, next, req[r])
    BY DEF Find, Go
  <1>2. at[r] = "find" /\ row' = row /\ shown' = shown /\ (error => error') /\ error' \in BOOLEAN
    BY DEF Find, Refused, IInv, TypeOK
  <1>3. \A s \in Requests : s # r => at[s] = "idle"
    BY <1>2, OnlyOne
  <1>4. at'[r] = next /\ \A s \in Requests : s # r => at'[s] = "idle"
    BY <1>1, <1>3 DEF As, IInv, TypeOK
  <1>5. ~Outdated
    BY <1>2, <1>3 DEF Outdated
  <1>. QED
    BY <1>2, <1>4, <1>5, QuietShows DEF Shows

LEMMA WriteShows ==
    ASSUME IInv, PageOnly, Shows, NEW r \in Requests, Write(r)
    PROVE  Shows'
  <1>1. PICK next \in {"idle", "invalidate"} :
            /\ As(r, next, req[r]) /\ (next = "idle" => row' = row)
    BY DEF Write, Go
  <1>2. at[r] = "write" /\ shown' = shown /\ (error => error') /\ error' \in BOOLEAN
    BY DEF Write, Refused, IInv, TypeOK
  <1>3. \A s \in Requests : s # r => at[s] = "idle"
    BY <1>2, OnlyOne
  <1>4. at'[r] = next /\ \A s \in Requests : s # r => at'[s] = "idle"
    BY <1>1, <1>3 DEF As, IInv, TypeOK
  <1>5. ~Outdated
    BY <1>2, <1>3 DEF Outdated
  <1>. QED
    BY <1>1, <1>2, <1>4, <1>5, QuietShows DEF Shows

LEMMA InvalidateShows ==
    ASSUME IInv, PageOnly, NEW r \in Requests, Invalidate(r)
    PROVE  Shows'
  <1>1. at[r] = "invalidate" /\ As(r, "answer", req[r])
    BY DEF Invalidate, InvalidateWith, Go
  <1>2. \A s \in Requests : s # r => at[s] = "idle"
    BY <1>1, OnlyOne
  <1>3. at'[r] = "answer" /\ \A s \in Requests : s # r => at'[s] = "idle"
    BY <1>1, <1>2 DEF As, IInv, TypeOK
  <1>. QED
    BY <1>3, QuietShows

LEMMA AnswerShows ==
    ASSUME IInv, NEW i \in Instances, Fresh(i), PageOnly, NEW r \in Requests, Answer(r),
           used' \subseteq {i}
    PROVE  Shows'
  <1>1. at[r] = "answer" /\ row' = row
    BY DEF Answer, AnswerTo
  <1>2. req[r].by = "page" /\ \A s \in Requests : s # r => at[s] = "idle"
    BY <1>1, OnlyOne
  <1>3. ~Doomed
    BY <1>1, <1>2 DEF Doomed
  <1>4. CASE "read" \in access
    <2>1. PICK j, q : j \in Instances /\ As(r, "load", q) /\ used' = used \cup {j} /\ Arrive(r, j)
      BY <1>2, <1>4 DEF Answer, AnswerTo
    <2>2. j = i
      BY <2>1
    <2>3. at'[r] = "load" /\ \A s \in Requests : s # r => at'[s] = "idle"
      BY <1>2, <2>1 DEF As, IInv, TypeOK
    <2>. QED
      BY <1>1, <1>3, <2>1, <2>2, <2>3, ArriveShows
  <1>5. CASE "read" \notin access
    <2>1. As(r, "idle", req[r]) /\ error' = TRUE
      BY <1>2, <1>5 DEF Answer, AnswerTo, Go
    <2>2. \A s \in Requests : at'[s] = "idle"
      BY <1>2, <2>1 DEF As, IInv, TypeOK
    <2>. QED
      BY <2>1, <2>2, QuietShows
  <1>. QED
    BY <1>4, <1>5

LEMMA LoadShows ==
    ASSUME IInv, NEW i \in Instances, Fresh(i), Shows, NEW r \in Requests, NEW k \in Kinds,
           Query(r, k) \/ Store(r, k)
    PROVE  Shows'
  <1>1. at[r] = "load" /\ UNCHANGED <<row, at>>
    BY DEF Query, Store
  <1>2. \A j \in Kinds : Listing(j)' = Listing(j)
    BY <1>1 DEF Listing
  <1>3. CASE Query(r, k)
    <2>1. load' = [load EXCEPT ![r][k] = [step |-> "hold", list |-> Listing(k)]]
      BY <1>3 DEF Query
    <2>2. /\ load'[r][k].step = "hold"
          /\ \A s \in Requests, j \in Kinds : (s = r /\ j = k) \/ load'[s][j] = load[s][j]
      BY <2>1 DEF IInv, TypeOK
    <2>. QED
      BY <1>1, <1>2, <2>2 DEF Shows, Outdated
  <1>4. CASE Store(r, k)
    <2>1. load[r][k].step = "hold" /\ load' = [load EXCEPT ![r][k].step = "done"]
      BY <1>4 DEF Store
    <2>2. /\ load'[r][k].list = load[r][k].list
          /\ \A s \in Requests, j \in Kinds : (s = r /\ j = k) \/ load'[s][j] = load[s][j]
      BY <2>1 DEF IInv, TypeOK
    <2>3. load[r][k].list = Listing(k)
      BY <2>1 DEF Fresh
    <2>. QED
      BY <1>1, <1>2, <2>2, <2>3 DEF Shows, Outdated
  <1>. QED
    BY <1>3, <1>4

LEMMA ShowShows ==
    ASSUME IInv, PageOnly, Shows, NEW r \in Requests, Show(r)
    PROVE  Shows'
  <1>1. /\ at[r] = "load" /\ row' = row /\ As(r, "idle", req[r])
        /\ \A k \in Kinds : load[r][k].step = "done"
        /\ shown' = [k \in Kinds |-> load[r][k].list]
    BY DEF Show, Go
  <1>2. \A s \in Requests : s # r => at[s] = "idle"
    BY <1>1, OnlyOne
  <1>3. \A s \in Requests : at'[s] = "idle"
    BY <1>1, <1>2 DEF As, IInv, TypeOK
  <1>4. \A k \in Kinds : load[r][k].list = Listing(k)'
    BY <1>1 DEF Shows, Listing
  <1>5. shown' = Listed'
    BY <1>1, <1>4 DEF Listed
  <1>. QED
    BY <1>3, <1>5 DEF Shows

\* A request that is lost either is reported, or changed nothing.
LEMMA LoseShows ==
    ASSUME IInv, PageOnly, Shows, NEW rs, Lose(rs), rs = {} \/ rs = Open, solo',
           row' = row, shown' = shown
    PROVE  Shows'
  <1>1. error' \in BOOLEAN /\ (error => error') /\ \A k \in Kinds : Listing(k)' = Listing(k)
    BY DEF Lose, Listing, IInv, TypeOK
  <1>2. CASE rs = {}
    <2>1. \A s \in Requests : at'[s] = at[s] /\ load'[s] = load[s]
      BY <1>2 DEF Lose
    <2>2. Listed' = Listed /\ Outdated' = Outdated
      BY <1>1, <2>1 DEF Listed, Outdated
    <2>. QED
      BY <1>1, <2>1, <2>2 DEF Shows
  <1>3. CASE rs = Open /\ rs # {}
    <2>1. PICK r \in Requests : at[r] # "idle" /\ r \in rs
      BY <1>3 DEF Open
    <2>2. /\ req[r].by = "page" /\ Open = {r}
          /\ \A s \in Requests : s # r => at[s] = "idle"
      BY <2>1, OnlyOne
    <2>3. \A s \in Requests : at'[s] = "idle"
      BY <1>3, <2>2 DEF Lose
    <2>4. CASE req[r].op # "deactivate"
      <3>1. error' = TRUE
        BY <1>1, <2>1, <2>2, <2>4 DEF Lose
      <3>. QED
        BY <2>3, <3>1, QuietShows
    <2>5. CASE req[r].op = "deactivate"
      <3>1. at[r] \in {"find", "write"}
        BY <2>1, <2>5 DEF Lose
      <3>2. ~Outdated
        BY <2>2, <3>1 DEF Outdated
      <3>. QED
        BY <1>1, <2>3, <3>2, QuietShows DEF Shows
    <2>. QED
      BY <2>4, <2>5
  <1>. QED
    BY <1>2, <1>3

LEMMA PageStays ==
    ASSUME IInv, CachesFresh, PageFresh, Next
    PROVE  PageFresh'
  <1>1. solo' => calm' /\ PageOnly'
    BY PageOnlyStays DEF PageFresh
  <1>2. ASSUME NEW i \in Instances, solo', used' \subseteq {i} PROVE Shows'
    <2>1. /\ solo /\ calm /\ PageOnly /\ used \subseteq {i}
      BY <1>2, HistoryGrows DEF PageFresh
    <2>2. Shows /\ Fresh(i)
      BY <2>1 DEF PageFresh, CachesFresh
    <2>3. ASSUME NEW r \in Requests, PageClicks(r) \/ ApiCall(r) PROVE Shows'
      <3>1. PICK q \in Request : Begin(r, q)
        BY <2>3 DEF PageClicks, ApiCall, Request, Ops, Tables
      <3>. QED
        BY <1>2, <2>2, <3>1, BeginShows
    <2>4. ASSUME NEW r \in Requests, Denied(r) PROVE Shows'
      <3>1. UNCHANGED <<row, at, load>> /\ error' = TRUE
        BY <2>4 DEF Denied
      <3>. QED
        BY <2>2, <3>1 DEF Shows, Listing
    <2>5. ASSUME NEW r \in Requests, Serve(r) PROVE Shows'
      BY <1>2, <2>1, <2>2, <2>5, FindShows, WriteShows, InvalidateShows, AnswerShows,
         LoadShows, ShowShows DEF Serve
    <2>6. ASSUME NEW r \in Requests, Fail(r) PROVE Shows'
      <3>1. Lose({r}) /\ row' = row /\ shown' = shown /\ Open = {r}
        BY <2>1, <2>6, OnlyOne DEF Fail
      <3>. QED
        BY <1>2, <2>1, <2>2, <3>1, LoseShows
    <2>7. ASSUME NEW j \in Instances, Restart(j) PROVE Shows'
      <3>1. PICK rs : rs = {r \in Open : req[r].inst = j}
        OBVIOUS
      <3>2. \A r \in Open : req[r].inst = i
        BY <2>1 DEF IInv, RequestsOK, Open
      <3>3. rs = {} \/ rs = Open
        BY <3>1, <3>2
      <3>4. Lose(rs) /\ row' = row /\ shown' = shown
        BY <2>7, <3>1 DEF Restart
      <3>. QED
        BY <1>2, <2>1, <2>2, <3>3, <3>4, LoseShows
    <2>8. ASSUME NEW j \in Instances, NEW k \in Kinds, Expire(j, k) PROVE Shows'
      <3>1. UNCHANGED <<row, at, load, shown, error>>
        BY <2>8 DEF Expire, Drop, page
      <3>. QED
        BY <2>2, <3>1 DEF Shows, Listed, Listing, Outdated
    <2>. QED
      BY <2>3, <2>4, <2>5, <2>6, <2>7, <2>8 DEF Next
  <1>. QED
    BY <1>1, <1>2 DEF PageFresh

LEMMA PageInductive == Spec => []PageFresh
  <1>1. Init => PageFresh
    BY DEF Init, PageFresh, PageOnly, Open, Shows
  <1>2. IInv /\ CachesFresh /\ PageFresh /\ [Next]_vars => PageFresh'
    <2>1. PageFresh /\ UNCHANGED vars => PageFresh'
      BY DEF vars, PageFresh, PageOnly, Open, Shows, Listed, Listing, Outdated
    <2>. QED
      BY <2>1, PageStays
  <1>. QED
    BY FreshInductive, <1>1, <1>2, PTL DEF Spec

\* After its own work, one thing at a time through one process, the admin page shows the
\* registry or an error, whatever expires, fails or restarts in between.
THEOREM PageFollows == Spec => []PageShowsWork
  <1>1. IInv /\ PageFresh => PageShowsWork
    <2>. SUFFICES ASSUME IInv, PageFresh, solo, Cardinality(used) = 1, Open = {}, ~error,
                         shown # Nothing
                  PROVE  shown = Listed
      BY DEF PageShowsWork, Listed
    <2>1. IsFiniteSet(used)
      BY RegistryAssumption, FS_Subset DEF IInv, TypeOK
    <2>2. PICK i : used = {i}
      BY <2>1, FS_Singleton
    <2>3. i \in Instances
      BY <2>2 DEF IInv, TypeOK
    <2>4. Shows /\ ~Outdated
      BY <2>2, <2>3 DEF PageFresh, Outdated, Open
    <2>. QED
      BY <2>4 DEF Shows
  <1>. QED
    BY Inductive, PageInductive, <1>1, PTL

----------------------------------------------------------------------------
(* Analysis: sums and choices *)

\* Induction over the naturals, for a set of them.
LEMMA EveryNat ==
    ASSUME NEW S, 0 \in S, \A n \in S \cap Nat : n + 1 \in S
    PROVE  Nat \subseteq S
  <1>. DEFINE T == Nat \ S
  <1>1. SUFFICES ASSUME T # {} PROVE FALSE
    OBVIOUS
  <1>2. T \subseteq Nat
    OBVIOUS
  <1>3. IsWellFoundedOn(OpToRel(<, Nat), Nat)
    BY NatLessThanWellFounded
  <1>4. PICK x \in T : \A y \in T : ~ (<<y, x>> \in OpToRel(<, Nat))
    BY <1>1, <1>2, <1>3, WFMin
  <1>5. x \in Nat /\ x \notin S
    OBVIOUS
  <1>6. x # 0
    BY <1>5
  <1>7. x - 1 \in Nat /\ x - 1 < x
    BY <1>5, <1>6
  <1>8. <<x - 1, x>> \in OpToRel(<, Nat)
    BY <1>5, <1>7 DEF OpToRel
  <1>9. x - 1 \in S \cap Nat
    BY <1>4, <1>7, <1>8
  <1>10. x - 1 + 1 \in S
    BY <1>9
  <1>. QED
    BY <1>5, <1>10

\* g has the sums of the first n elements of s, for n up to k.
Sums(g, s, k) == g = [n \in 0..k |-> IF n = 0 THEN 0 ELSE g[n - 1] + s[n]]

LEMMA SumsExist ==
    ASSUME NEW s
    PROVE  \A k \in Nat : \E g : Sums(g, s, k)
  <1>. DEFINE S == {k \in Nat : \E g : Sums(g, s, k)}
  <1>1. 0 \in S
    <2>1. Sums([n \in {0} |-> 0], s, 0)
      BY DEF Sums
    <2>. QED
      BY <2>1
  <1>2. ASSUME NEW k \in S \cap Nat PROVE k + 1 \in S
    <2>1. PICK g : Sums(g, s, k)
      OBVIOUS
    <2>. DEFINE h == [n \in 0..(k + 1) |-> IF n = k + 1 THEN g[k] + s[n] ELSE g[n]]
    <2>2. Sums(h, s, k + 1)
      BY <2>1 DEF Sums
    <2>. QED
      BY <2>2
  <1>. HIDE DEF S
  <1>3. Nat \subseteq S
    BY <1>1, <1>2, EveryNat
  <1>. QED
    BY <1>3 DEF S

LEMMA SumIs ==
    ASSUME NEW s, Len(s) \in Nat
    PROVE  \E g : Sums(g, s, Len(s)) /\ Sum(s) = g[Len(s)]
  <1>. DEFINE f == CHOOSE g : Sums(g, s, Len(s))
  <1>1. Sums(f, s, Len(s))
    BY SumsExist
  <1>2. Sum(s) = f[Len(s)]
    BY DEF Sum, Sums
  <1>. QED
    BY <1>1, <1>2

LEMMA SumsStep ==
    ASSUME NEW s, NEW k \in Nat, NEW g, Sums(g, s, k)
    PROVE  /\ g[0] = 0
           /\ \A n \in 1..k : g[n] = g[n - 1] + s[n]
  BY DEF Sums

LEMMA SumsType ==
    ASSUME NEW s \in Seq(Nat), NEW g, Sums(g, s, Len(s))
    PROVE  \A n \in 0..Len(s) : g[n] \in Nat
  <1>. DEFINE S == {n \in Nat : n <= Len(s) => g[n] \in Nat}
  <1>1. g[0] = 0 /\ \A n \in 1..Len(s) : g[n] = g[n - 1] + s[n]
    BY SumsStep
  <1>2. 0 \in S
    BY <1>1
  <1>3. ASSUME NEW n \in S \cap Nat PROVE n + 1 \in S
    <2>1. SUFFICES ASSUME n + 1 <= Len(s) PROVE g[n + 1] \in Nat
      OBVIOUS
    <2>2. n + 1 \in 1..Len(s) /\ n + 1 - 1 = n /\ g[n] \in Nat
      BY <2>1
    <2>. QED
      BY <1>1, <2>2
  <1>. HIDE DEF S
  <1>4. Nat \subseteq S
    BY <1>2, <1>3, EveryNat
  <1>. QED
    BY <1>4 DEF S

LEMMA SumType ==
    ASSUME NEW s \in Seq(Nat)
    PROVE  Sum(s) \in Nat
  <1>1. PICK g : Sums(g, s, Len(s)) /\ Sum(s) = g[Len(s)]
    BY SumIs
  <1>2. \A n \in 0..Len(s) : g[n] \in Nat
    BY <1>1, SumsType
  <1>. QED
    BY <1>1, <1>2

LEMMA SumAppend ==
    ASSUME NEW s \in Seq(Nat), NEW x \in Nat
    PROVE  Sum(Append(s, x)) = Sum(s) + x
  <1>. DEFINE t == Append(s, x)
  <1>1. /\ t \in Seq(Nat) /\ Len(t) = Len(s) + 1 /\ Len(s) \in Nat /\ Len(t) \in Nat
        /\ t[Len(t)] = x /\ \A n \in 1..Len(s) : t[n] = s[n]
    OBVIOUS
  <1>. HIDE DEF t
  <1>2. PICK g : Sums(g, s, Len(s)) /\ Sum(s) = g[Len(s)]
    BY SumIs
  <1>3. PICK h : Sums(h, t, Len(t)) /\ Sum(t) = h[Len(t)]
    BY SumIs
  <1>4. g[0] = 0 /\ \A n \in 1..Len(s) : g[n] = g[n - 1] + s[n]
    BY <1>1, <1>2, SumsStep
  <1>5. h[0] = 0 /\ \A n \in 1..Len(t) : h[n] = h[n - 1] + t[n]
    BY <1>1, <1>3, SumsStep
  <1>6. h[Len(s)] = g[Len(s)]
    <2>. DEFINE S == {n \in Nat : n <= Len(s) => h[n] = g[n]}
    <2>1. 0 \in S
      BY <1>4, <1>5
    <2>2. ASSUME NEW n \in S \cap Nat PROVE n + 1 \in S
      <3>1. SUFFICES ASSUME n + 1 <= Len(s) PROVE h[n + 1] = g[n + 1]
        OBVIOUS
      <3>2. n + 1 \in 1..Len(s) /\ n + 1 \in 1..Len(t) /\ n + 1 - 1 = n /\ h[n] = g[n]
        BY <1>1, <3>1
      <3>3. g[n + 1] = g[n] + s[n + 1]
        BY <1>4, <3>2
      <3>4. h[n + 1] = h[n] + t[n + 1]
        BY <1>5, <3>2
      <3>5. t[n + 1] = s[n + 1]
        BY <1>1, <3>2
      <3>. QED
        BY <3>2, <3>3, <3>4, <3>5
    <2>. HIDE DEF S
    <2>3. Nat \subseteq S
      BY <2>1, <2>2, EveryNat
    <2>. QED
      BY <2>3 DEF S
  <1>7. Len(t) \in 1..Len(t) /\ Len(t) - 1 = Len(s)
    BY <1>1
  <1>8. h[Len(t)] = h[Len(s)] + x
    BY <1>1, <1>5, <1>7
  <1>9. Sum(t) = Sum(s) + x
    BY <1>2, <1>3, <1>6, <1>8
  <1>. QED
    BY <1>9 DEF t

\* A sum of greater numbers is no less.
LEMMA SumGrows ==
    ASSUME NEW s \in Seq(Nat), NEW t \in Seq(Nat), Len(s) = Len(t),
           \A n \in 1..Len(s) : s[n] <= t[n]
    PROVE  Sum(s) <= Sum(t)
  <1>0. Len(s) \in Nat /\ Len(t) \in Nat
    OBVIOUS
  <1>1. PICK g : Sums(g, s, Len(s)) /\ Sum(s) = g[Len(s)]
    BY <1>0, SumIs
  <1>2. PICK h : Sums(h, t, Len(t)) /\ Sum(t) = h[Len(t)]
    BY SumIs
  <1>3. g[0] = 0 /\ \A n \in 1..Len(s) : g[n] = g[n - 1] + s[n]
    BY <1>0, <1>1, SumsStep
  <1>4. h[0] = 0 /\ \A n \in 1..Len(t) : h[n] = h[n - 1] + t[n]
    BY <1>0, <1>2, SumsStep
  <1>5. \A n \in 0..Len(s) : g[n] \in Nat /\ h[n] \in Nat
    BY <1>1, <1>2, SumsType
  <1>. DEFINE S == {n \in Nat : n <= Len(s) => g[n] <= h[n]}
  <1>6. 0 \in S
    BY <1>3, <1>4
  <1>7. ASSUME NEW n \in S \cap Nat PROVE n + 1 \in S
    <2>1. SUFFICES ASSUME n + 1 <= Len(s) PROVE g[n + 1] <= h[n + 1]
      OBVIOUS
    <2>2. n + 1 \in 1..Len(s) /\ n + 1 - 1 = n /\ n \in 0..Len(s) /\ g[n] <= h[n]
      BY <2>1
    <2>3. g[n + 1] = g[n] + s[n + 1] /\ h[n + 1] = h[n] + t[n + 1] /\ s[n + 1] <= t[n + 1]
      BY <1>3, <1>4, <2>2
    <2>4. g[n] \in Nat /\ h[n] \in Nat /\ s[n + 1] \in Nat /\ t[n + 1] \in Nat
      BY <1>5, <2>2
    <2>. QED
      BY <2>2, <2>3, <2>4
  <1>. HIDE DEF S
  <1>8. Nat \subseteq S
    BY <1>6, <1>7, EveryNat
  <1>9. g[Len(s)] <= h[Len(s)]
    BY <1>8 DEF S
  <1>. QED
    BY <1>1, <1>2, <1>9

\* Sums add up element by element.
LEMMA SumOfPairs ==
    ASSUME NEW a \in Seq(Nat), NEW b \in Seq(Nat), Len(b) = Len(a)
    PROVE  Sum(a) + Sum(b) = Sum([n \in 1..Len(a) |-> a[n] + b[n]])
  <1>. DEFINE c == [n \in 1..Len(a) |-> a[n] + b[n]]
  <1>1. /\ Len(a) \in Nat
        /\ \A n \in 1..Len(a) : a[n] \in Nat /\ b[n] \in Nat
    OBVIOUS
  <1>2. \A n \in 1..Len(a) : a[n] + b[n] \in Nat
    BY ONLY <1>1
  <1>3. c \in Seq(Nat) /\ Len(c) = Len(a) /\ \A n \in 1..Len(a) : c[n] = a[n] + b[n]
    BY <1>1, <1>2
  <1>. HIDE DEF c
  <1>4. PICK f : Sums(f, a, Len(a)) /\ Sum(a) = f[Len(a)]
    BY <1>1, SumIs
  <1>5. PICK g : Sums(g, b, Len(a)) /\ Sum(b) = g[Len(a)]
    BY <1>1, SumIs
  <1>6. PICK h : Sums(h, c, Len(a)) /\ Sum(c) = h[Len(a)]
    BY <1>1, <1>3, SumIs
  <1>7. f[0] = 0 /\ \A n \in 1..Len(a) : f[n] = f[n - 1] + a[n]
    BY <1>1, <1>4, SumsStep
  <1>8. g[0] = 0 /\ \A n \in 1..Len(a) : g[n] = g[n - 1] + b[n]
    BY <1>1, <1>5, SumsStep
  <1>9. h[0] = 0 /\ \A n \in 1..Len(a) : h[n] = h[n - 1] + c[n]
    BY <1>1, <1>6, SumsStep
  <1>10. \A n \in 0..Len(a) : f[n] \in Nat
    BY <1>4, SumsType
  <1>11. \A n \in 0..Len(a) : g[n] \in Nat
    BY <1>5, SumsType
  <1>. DEFINE S == {n \in Nat : n <= Len(a) => h[n] = f[n] + g[n]}
  <1>12. 0 \in S
    BY <1>7, <1>8, <1>9
  <1>13. ASSUME NEW n \in Nat, n \in S PROVE n + 1 \in S
    <2>1. SUFFICES ASSUME n + 1 <= Len(a) PROVE h[n + 1] = f[n + 1] + g[n + 1]
      OBVIOUS
    <2>2. n + 1 \in 1..Len(a) /\ (n + 1) - 1 = n /\ n \in 0..Len(a)
      BY <1>1, <2>1
    <2>3. h[n] = f[n] + g[n]
      BY <1>1, <1>13, <2>1
    <2>. HIDE DEF S
    <2>4. f[n + 1] = f[n] + a[n + 1] /\ f[n] \in Nat /\ a[n + 1] \in Nat
      BY ONLY <1>1, <1>7, <1>10, <2>2
    <2>5. g[n + 1] = g[n] + b[n + 1] /\ g[n] \in Nat /\ b[n + 1] \in Nat
      BY ONLY <1>1, <1>8, <1>11, <2>2
    <2>6. h[n + 1] = h[n] + (a[n + 1] + b[n + 1])
      BY ONLY <1>3, <1>9, <2>2
    <2>7. PICK x \in Nat, x1 \in Nat : x = f[n] /\ x1 = a[n + 1]
      BY <2>4
    <2>8. PICK y \in Nat, y1 \in Nat : y = g[n] /\ y1 = b[n + 1]
      BY <2>5
    <2>9. (x + y) + (x1 + y1) = (x + x1) + (y + y1)
      OBVIOUS
    <2>10. h[n + 1] = (x + y) + (x1 + y1) /\ f[n + 1] = x + x1 /\ g[n + 1] = y + y1
      BY ONLY <2>3, <2>4, <2>5, <2>6, <2>7, <2>8
    <2>. QED
      BY ONLY <2>9, <2>10
  <1>. HIDE DEF S
  <1>14. Nat \subseteq S
    BY <1>12, <1>13, EveryNat
  <1>15. h[Len(a)] = f[Len(a)] + g[Len(a)]
    BY <1>1, <1>14 DEF S
  <1>. QED
    BY <1>4, <1>5, <1>6, <1>15 DEF c

\* Two sums make what two others make, if their elements do.
LEMMA SumsMatch ==
    ASSUME NEW a \in Seq(Nat), NEW b \in Seq(Nat), NEW c \in Seq(Nat), NEW d \in Seq(Nat),
           Len(b) = Len(a), Len(c) = Len(a), Len(d) = Len(a),
           \A n \in 1..Len(a) : a[n] + b[n] = c[n] + d[n]
    PROVE  Sum(a) + Sum(b) = Sum(c) + Sum(d)
  <1>1. [n \in 1..Len(a) |-> a[n] + b[n]] = [n \in 1..Len(c) |-> c[n] + d[n]]
    OBVIOUS
  <1>2. Sum(a) + Sum(b) = Sum([n \in 1..Len(a) |-> a[n] + b[n]])
    BY SumOfPairs
  <1>3. Sum(c) + Sum(d) = Sum([n \in 1..Len(c) |-> c[n] + d[n]])
    BY SumOfPairs
  <1>. QED
    BY ONLY <1>1, <1>2, <1>3

\* f has the first n elements of s that stand at a position of P, for n up to k.
Picks(f, s, P, k) ==
    f = [n \in 0..k |-> IF n = 0 THEN <<>> ELSE IF n \in P THEN Append(f[n - 1], s[n]) ELSE f[n - 1]]

LEMMA PicksExist ==
    ASSUME NEW s, NEW P
    PROVE  \A k \in Nat : \E f : Picks(f, s, P, k)
  <1>. DEFINE S == {k \in Nat : \E f : Picks(f, s, P, k)}
  <1>1. 0 \in S
    <2>1. Picks([n \in {0} |-> <<>>], s, P, 0)
      BY DEF Picks
    <2>. QED
      BY <2>1
  <1>2. ASSUME NEW k \in S \cap Nat PROVE k + 1 \in S
    <2>1. PICK f : Picks(f, s, P, k)
      OBVIOUS
    <2>. DEFINE last == IF k + 1 \in P THEN Append(f[k], s[k + 1]) ELSE f[k]
                h == [n \in 0..(k + 1) |-> IF n = k + 1 THEN last ELSE f[n]]
                step(n) == IF n = 0 THEN <<>>
                           ELSE IF n \in P THEN Append(h[n - 1], s[n]) ELSE h[n - 1]
    <2>2. \A n \in 0..(k + 1) : h[n] = step(n)
      <3>1. TAKE n \in 0..(k + 1)
      <3>2. CASE n = k + 1
        BY <3>2
      <3>3. CASE n # k + 1
        <4>1. n \in 0..k /\ h[n] = f[n]
          BY <3>3
        <4>2. n # 0 => n - 1 \in 0..(k + 1) /\ n - 1 # k + 1 /\ h[n - 1] = f[n - 1]
          BY <4>1
        <4>. HIDE DEF h
        <4>. QED
          BY <2>1, <4>1, <4>2 DEF Picks
      <3>. QED
        BY <3>2, <3>3
    <2>3. h = [n \in 0..(k + 1) |-> step(n)]
      <3>1. h = [n \in 0..(k + 1) |-> h[n]]
        OBVIOUS
      <3>. HIDE DEF h, step
      <3>. QED
        BY <2>2, <3>1
    <2>4. Picks(h, s, P, k + 1)
      <3>. HIDE DEF h
      <3>. QED
        BY <2>3 DEF Picks
    <2>. QED
      BY <2>4
  <1>. HIDE DEF S
  <1>3. Nat \subseteq S
    BY <1>1, <1>2, EveryNat
  <1>. QED
    BY <1>3 DEF S

\* g has what is chosen from s, sequence over T, up to each position.
Grows(g, s, P, T) ==
    /\ g[0] = <<>>
    /\ \A n \in 1..Len(s) : g[n] = IF n \in P THEN Append(g[n - 1], s[n]) ELSE g[n - 1]
    /\ \A n \in 0..Len(s) : g[n] \in Seq(T)

LEMMA ChosenSteps ==
    ASSUME NEW T, NEW s \in Seq(T), NEW P
    PROVE  \E g : Chosen(s, P) = g[Len(s)] /\ Grows(g, s, P, T)
  <1>. DEFINE f == CHOOSE f : Picks(f, s, P, Len(s))
  <1>0. Len(s) \in Nat
    OBVIOUS
  <1>1. Picks(f, s, P, Len(s))
    BY <1>0, PicksExist
  <1>2. Chosen(s, P) = f[Len(s)]
    BY DEF Chosen, Picks
  <1>3. PICK g : g = f
    OBVIOUS
  <1>. HIDE DEF f
  <1>4. /\ g[0] = <<>>
        /\ \A n \in 1..Len(s) : g[n] = IF n \in P THEN Append(g[n - 1], s[n]) ELSE g[n - 1]
    <2>1. g = [n \in 0..Len(s) |->
                  IF n = 0 THEN <<>> ELSE IF n \in P THEN Append(g[n - 1], s[n]) ELSE g[n - 1]]
      BY <1>1, <1>3 DEF Picks
    <2>2. 0 \in 0..Len(s) /\ \A n \in 1..Len(s) : n \in 0..Len(s) /\ n # 0
      BY <1>0
    <2>. QED
      BY <2>1, <2>2
  <1>. DEFINE S == {n \in Nat : n <= Len(s) => g[n] \in Seq(T)}
  <1>5. 0 \in S
    <2>1. <<>> \in Seq(T)
      OBVIOUS
    <2>. QED
      BY <1>4, <2>1
  <1>6. ASSUME NEW n \in S \cap Nat PROVE n + 1 \in S
    <2>1. SUFFICES ASSUME n + 1 <= Len(s) PROVE g[n + 1] \in Seq(T)
      OBVIOUS
    <2>2. n + 1 \in 1..Len(s) /\ n + 1 - 1 = n /\ g[n] \in Seq(T) /\ s[n + 1] \in T
      BY <2>1
    <2>3. g[n + 1] = IF n + 1 \in P THEN Append(g[n], s[n + 1]) ELSE g[n]
      BY <1>4, <2>2
    <2>. QED
      BY <2>2, <2>3
  <1>. HIDE DEF S
  <1>7. Nat \subseteq S
    BY <1>5, <1>6, EveryNat
  <1>8. \A n \in 0..Len(s) : g[n] \in Seq(T)
    BY <1>0, <1>7 DEF S
  <1>9. Grows(g, s, P, T)
    BY <1>4, <1>8 DEF Grows
  <1>. QED
    BY <1>2, <1>3, <1>9

\* What is chosen from a sequence over T is one.
LEMMA ChosenType ==
    ASSUME NEW T, NEW s \in Seq(T), NEW P
    PROVE  Chosen(s, P) \in Seq(T)
  <1>1. PICK g : Chosen(s, P) = g[Len(s)] /\ Grows(g, s, P, T)
    BY ChosenSteps
  <1>2. Len(s) \in 0..Len(s)
    OBVIOUS
  <1>. QED
    BY <1>1, <1>2 DEF Grows
----------------------------------------------------------------------------
(* Analysis: scores *)

\* What a job may count; no more votes than transactions.
Tallies == {i \in [days : Nat, months : Nat, votes : Nat, voted : Nat, daoPayments : Nat,
                   grants : Nat, received : Nat, sent : Nat, peers : Nat, wash : Nat,
                   protocols : Nat, recent : Nat, total : Nat] : i.votes <= i.total}

\* The tally j has one vote more than i, perhaps in a new body or with a new protocol.
OneVoteMore(i, j) ==
    /\ j.votes = i.votes + 1 /\ j.total = i.total + 1
    /\ i.voted <= j.voted /\ i.protocols <= j.protocols /\ i.recent <= j.recent
    /\ j.days = i.days /\ j.months = i.months /\ j.daoPayments = i.daoPayments
    /\ j.grants = i.grants /\ j.received = i.received /\ j.sent = i.sent
    /\ j.peers = i.peers /\ j.wash = i.wash

LEMMA DivBounds ==
    ASSUME NEW a \in Nat, NEW b \in Nat \ {0}
    PROVE  /\ a \div b \in Nat
           /\ (a \div b) * b <= a
           /\ a < (a \div b) * b + b
  OBVIOUS

LEMMA DivLeast ==
    ASSUME NEW a \in Nat, NEW b \in Nat \ {0}, NEW q \in Nat, q * b <= a
    PROVE  q <= a \div b
  <1>1. a \div b \in Nat /\ a < (a \div b) * b + b
    BY DivBounds
  <1>2. SUFFICES ASSUME a \div b < q PROVE FALSE
    BY <1>1
  <1>3. PICK p \in Nat : p = a \div b
    BY <1>1
  <1>4. PICK k \in Nat : q = p + 1 + k
    BY <1>2, <1>3
  <1>5. q * b = p * b + b + k * b /\ k * b >= 0
    BY <1>4
  <1>. QED
    BY <1>1, <1>3, <1>5

LEMMA RoundType == ASSUME NEW a \in Nat, NEW b \in Nat \ {0} PROVE Round(a, b) \in Nat
  <1>1. 2 * a + b \in Nat /\ 2 * b \in Nat \ {0}
    OBVIOUS
  <1>. QED
    BY <1>1, DivBounds DEF Round

\* Of two fractions the greater one is not rounded to less.
LEMMA RoundGrows ==
    ASSUME NEW a \in Nat, NEW b \in Nat \ {0}, NEW c \in Nat, NEW d \in Nat \ {0},
           a * d <= c * b
    PROVE  Round(a, b) <= Round(c, d)
  <1>1. /\ 2 * a + b \in Nat /\ 2 * b \in Nat \ {0}
        /\ 2 * c + d \in Nat /\ 2 * d \in Nat \ {0}
    OBVIOUS
  <1>2. PICK q \in Nat : q = Round(a, b) /\ q * (2 * b) <= 2 * a + b
    BY <1>1, DivBounds DEF Round
  <1>3. q * (2 * d) <= 2 * c + d
    <2>1. (q * (2 * b)) * d <= (2 * a + b) * d
      BY <1>1, <1>2
    <2>2. (2 * a + b) * d <= (2 * c + d) * b
      <3>1. (2 * a + b) * d = 2 * (a * d) + b * d /\ (2 * c + d) * b = 2 * (c * b) + b * d
        OBVIOUS
      <3>. QED
        BY <3>1
    <2>3. (q * (2 * b)) * d = (q * (2 * d)) * b
      OBVIOUS
    <2>4. (q * (2 * d)) * b <= (2 * c + d) * b
      BY <2>1, <2>2, <2>3
    <2>5. PICK x \in Nat, y \in Nat : x = q * (2 * d) /\ y = 2 * c + d
      BY <1>1
    <2>6. x * b <= y * b
      BY <2>4, <2>5
    <2>7. SUFFICES ASSUME y < x PROVE FALSE
      BY <2>5
    <2>8. PICK k \in Nat : x = y + 1 + k
      BY <2>7
    <2>9. x * b = y * b + b + k * b /\ k * b >= 0
      BY <2>8
    <2>. QED
      BY <2>6, <2>9
  <1>. QED
    BY <1>1, <1>2, <1>3, DivLeast DEF Round

LEMMA RoundSame ==
    ASSUME NEW a \in Nat, NEW c \in Nat, a <= c, NEW b \in Nat \ {0}
    PROVE  Round(a, b) <= Round(c, b)
  <1>1. a * b <= c * b
    OBVIOUS
  <1>. QED
    BY <1>1, RoundGrows

LEMMA GovernanceType == ASSUME NEW i \in Tallies PROVE Governance(i) \in 0..100
  <1>1. PICK n \in Nat \ {0} : n = Larger(20, i.total)
    BY DEF Larger, Tallies
  <1>2. PICK rate \in Nat : rate = IF i.total = 0 THEN 0 ELSE 600 * Smaller(40 * n, 800 * i.votes)
    BY DEF Smaller, Tallies
  <1>3. PICK k \in Nat : k = 4200 * Smaller(5, i.voted) + 625 * Smaller(24, i.months)
                               + (IF i.votes > 0 THEN 120 ELSE 48)
    BY DEF Smaller, Tallies
  <1>4. Governance(i) = Smaller(100, Round(rate + n * k, 600 * n))
    BY <1>1, <1>2, <1>3 DEF Governance
  <1>5. rate + n * k \in Nat /\ 600 * n \in Nat \ {0}
    OBVIOUS
  <1>. QED
    <2>1. Round(rate + n * k, 600 * n) \in Nat
      BY <1>5, RoundType
    <2>. QED
      BY <1>4, <2>1 DEF Smaller

LEMMA ContributionType == ASSUME NEW i \in Tallies PROVE Contribution(i) \in 0..100
  <1>1. 81 * Smaller(20, i.daoPayments) + 126 * Smaller(10, i.grants)
           + 20 * Smaller(36, i.months) \in Nat
    BY DEF Smaller, Tallies
  <1>2. Round(81 * Smaller(20, i.daoPayments) + 126 * Smaller(10, i.grants)
                  + 20 * Smaller(36, i.months), 36) \in Nat
    BY <1>1, RoundType
  <1>. QED
    BY <1>2 DEF Contribution, Smaller

LEMMA PaymentType == ASSUME NEW i \in Tallies PROVE PaymentReliability(i) \in 0..100
  <1>1. PICK all \in Nat, fixed \in 0..30 :
            all = i.received + i.sent /\ fixed = 2 * Smaller(15, i.peers)
    BY DEF Smaller, Tallies
  <1>2. CASE all = 0
    BY <1>1, <1>2 DEF PaymentReliability
  <1>3. CASE all # 0
    <2>1. PICK a \in Nat : a = 50 * i.received + 20 * Larger(0, all - i.wash) + fixed * all
      BY <1>1 DEF Larger, Tallies
    <2>2. PaymentReliability(i) = Smaller(100, Round(a, all))
      BY <1>1, <1>3, <2>1 DEF PaymentReliability
    <2>. QED
      <3>1. Round(a, all) \in Nat
        BY <1>3, RoundType
      <3>. QED
        BY <2>2, <3>1 DEF Smaller
  <1>. QED
    BY <1>2, <1>3

LEMMA ParticipationType == ASSUME NEW i \in Tallies PROVE ProtocolParticipation(i) \in 0..100
  <1>1. PICK a \in 0..400 : a = 35 * Smaller(8, i.protocols) + 4 * Smaller(30, i.recent)
    BY DEF Smaller, Tallies
  <1>2. Round(a, 4) \in Nat
    BY RoundType
  <1>. QED
    BY <1>1, <1>2 DEF ProtocolParticipation, Smaller

\* A vote more among the transactions, which are at least 20 by definition.
LEMMA VoteRate ==
    ASSUME NEW v \in Nat, NEW t \in Nat, v <= t,
           NEW m \in Nat, NEW n \in Nat, m = Larger(20, t), n = Larger(20, t + 1)
    PROVE  Smaller(40 * m, 800 * v) * n <= Smaller(40 * n, 800 * (v + 1)) * m
  <1>1. v <= m /\ (n = m \/ n = m + 1)
    BY DEF Larger
  <1>2. PICK s \in Nat : s = Smaller(40 * m, 800 * v) /\ s <= 40 * m /\ s <= 800 * v
    BY DEF Smaller
  <1>3. s * n <= (40 * n) * m
    <2>1. s * n <= (40 * m) * n
      BY <1>2
    <2>. QED
      BY <2>1
  <1>4. s * n <= (800 * (v + 1)) * m
    <2>1. s * n <= (800 * v) * n
      BY <1>2
    <2>2. v * n <= (v + 1) * m
      <3>1. v * (m + 1) = v * m + v /\ (v + 1) * m = v * m + m
        OBVIOUS
      <3>. QED
        BY <1>1, <3>1
    <2>3. (800 * v) * n = 800 * (v * n) /\ (800 * (v + 1)) * m = 800 * ((v + 1) * m)
      OBVIOUS
    <2>. QED
      BY <2>1, <2>2, <2>3
  <1>. QED
    BY <1>2, <1>3, <1>4 DEF Smaller

LEMMA VoteGovernance ==
    ASSUME NEW i \in Tallies, NEW j \in Tallies, OneVoteMore(i, j)
    PROVE  Governance(i) <= Governance(j)
  <1>1. /\ j.votes = i.votes + 1 /\ j.total = i.total + 1 /\ j.months = i.months
        /\ i.voted <= j.voted
    BY DEF OneVoteMore
  <1>2. PICK m \in Nat \ {0}, n \in Nat \ {0} :
            m = Larger(20, i.total) /\ n = Larger(20, j.total)
    BY DEF Larger, Tallies
  <1>3. PICK a \in Nat, b \in Nat :
            /\ a = IF i.total = 0 THEN 0 ELSE 600 * Smaller(40 * m, 800 * i.votes)
            /\ b = 600 * Smaller(40 * n, 800 * j.votes)
    BY DEF Smaller, Tallies
  <1>4. PICK k \in Nat, l \in Nat :
            /\ k = 4200 * Smaller(5, i.voted) + 625 * Smaller(24, i.months)
                     + (IF i.votes > 0 THEN 120 ELSE 48)
            /\ l = 4200 * Smaller(5, j.voted) + 625 * Smaller(24, j.months)
                     + (IF j.votes > 0 THEN 120 ELSE 48)
            /\ k <= l
    BY <1>1 DEF Smaller, Tallies
  <1>5. /\ Governance(i) = Smaller(100, Round(a + m * k, 600 * m))
        /\ Governance(j) = Smaller(100, Round(b + n * l, 600 * n))
    BY <1>1, <1>2, <1>3, <1>4 DEF Governance, Tallies
  <1>6. a * n <= b * m
    <2>1. CASE i.total = 0
      BY <1>3, <2>1
    <2>2. CASE i.total # 0
      <3>1. PICK x \in Nat, y \in Nat :
                x = Smaller(40 * m, 800 * i.votes) /\ y = Smaller(40 * n, 800 * j.votes)
        BY DEF Smaller, Tallies
      <3>2. x * n <= y * m
        BY <1>1, <1>2, <3>1, VoteRate DEF Tallies
      <3>3. a = 600 * x /\ b = 600 * y
        BY <1>3, <2>2, <3>1
      <3>. QED
        BY <3>2, <3>3
    <2>. QED
      BY <2>1, <2>2
  <1>7. (a + m * k) * (600 * n) <= (b + n * l) * (600 * m)
    <2>1. (m * k) * n <= (n * l) * m
      <3>1. k * (m * n) <= l * (m * n)
        BY <1>4
      <3>. QED
        BY <3>1
    <2>2. /\ (a + m * k) * (600 * n) = 600 * (a * n) + 600 * ((m * k) * n)
          /\ (b + n * l) * (600 * m) = 600 * (b * m) + 600 * ((n * l) * m)
      OBVIOUS
    <2>. QED
      BY <1>6, <2>1, <2>2
  <1>8. /\ a + m * k \in Nat /\ 600 * m \in Nat \ {0}
        /\ b + n * l \in Nat /\ 600 * n \in Nat \ {0}
    OBVIOUS
  <1>9. Round(a + m * k, 600 * m) <= Round(b + n * l, 600 * n)
    BY <1>7, <1>8, RoundGrows
  <1>10. Round(a + m * k, 600 * m) \in Nat /\ Round(b + n * l, 600 * n) \in Nat
    BY <1>8, RoundType
  <1>. QED
    BY <1>1, <1>5, <1>9, <1>10 DEF Smaller

LEMMA VoteParticipation ==
    ASSUME NEW i \in Tallies, NEW j \in Tallies, OneVoteMore(i, j)
    PROVE  ProtocolParticipation(i) <= ProtocolParticipation(j)
  <1>1. i.protocols <= j.protocols /\ i.recent <= j.recent
    BY DEF OneVoteMore
  <1>2. PICK a \in Nat, b \in Nat :
            /\ a = 35 * Smaller(8, i.protocols) + 4 * Smaller(30, i.recent)
            /\ b = 35 * Smaller(8, j.protocols) + 4 * Smaller(30, j.recent)
            /\ a <= b
    BY <1>1 DEF Smaller, Tallies
  <1>3. Round(a, 4) <= Round(b, 4) /\ Round(a, 4) \in Nat /\ Round(b, 4) \in Nat
    BY <1>2, RoundSame, RoundType
  <1>4. /\ ProtocolParticipation(i) = Smaller(100, Round(a, 4))
        /\ ProtocolParticipation(j) = Smaller(100, Round(b, 4))
    BY <1>2 DEF ProtocolParticipation
  <1>. QED
    BY <1>3, <1>4 DEF Smaller

LEMMA IndexType == ASSUME NEW i \in Tallies PROVE Score(i).index \in 0..100
  <1>1. PICK g \in Nat, c \in Nat, p \in Nat, q \in Nat :
            /\ g = Governance(i) /\ c = Contribution(i)
            /\ p = PaymentReliability(i) /\ q = ProtocolParticipation(i)
    <2>1. \A n \in 0..100 : n \in Nat
      OBVIOUS
    <2>. QED
      BY <2>1, GovernanceType, ContributionType, PaymentType, ParticipationType
  <1>2. 25 * g + 30 * c + 25 * p + 20 * q \in Nat
    OBVIOUS
  <1>3. Score(i).index = Larger(0, Smaller(100, Round(25 * g + 30 * c + 25 * p + 20 * q, 100)))
    <2>1. /\ Weights.governance = 25 /\ Weights.contribution = 30
          /\ Weights.payment = 25 /\ Weights.participation = 20
      BY DEF Weights
    <2>. QED
      BY <1>1, <2>1 DEF Score
  <1>4. Round(25 * g + 30 * c + 25 * p + 20 * q, 100) \in Nat
    BY <1>2, RoundType
  <1>. QED
    BY <1>3, <1>4 DEF Larger, Smaller

\* One vote more lowers no dimension and not the index, whatever the other counts,
\* although it also adds a transaction that the votes are measured against.
LEMMA VotesOnlyHelp ==
    ASSUME NEW i \in Tallies, NEW j \in Tallies, OneVoteMore(i, j)
    PROVE  Score(i).index <= Score(j).index
  <1>2. /\ Governance(i) <= Governance(j)
        /\ ProtocolParticipation(i) <= ProtocolParticipation(j)
    BY VoteGovernance, VoteParticipation
  <1>3. Contribution(i) = Contribution(j) /\ PaymentReliability(i) = PaymentReliability(j)
    BY DEF OneVoteMore, Contribution, PaymentReliability
  <1>4. PICK g \in Nat, g2 \in Nat, c \in Nat, p \in Nat, q \in Nat, q2 \in Nat :
            /\ g = Governance(i) /\ g2 = Governance(j) /\ g <= g2
            /\ c = Contribution(i) /\ p = PaymentReliability(i)
            /\ q = ProtocolParticipation(i) /\ q2 = ProtocolParticipation(j) /\ q <= q2
    <2>1. /\ Governance(i) \in 0..100 /\ Governance(j) \in 0..100
          /\ Contribution(i) \in 0..100 /\ PaymentReliability(i) \in 0..100
          /\ ProtocolParticipation(i) \in 0..100 /\ ProtocolParticipation(j) \in 0..100
      BY GovernanceType, ContributionType, PaymentType, ParticipationType
    <2>2. \A n \in 0..100 : n \in Nat
      OBVIOUS
    <2>. QED
      BY <1>2, <2>1, <2>2
  <1>. DEFINE a == 25 * g + 30 * c + 25 * p + 20 * q
              b == 25 * g2 + 30 * c + 25 * p + 20 * q2
  <1>5. a \in Nat /\ b \in Nat /\ a <= b
    BY <1>4
  <1>6. /\ Score(i).index = Larger(0, Smaller(100, Round(a, 100)))
        /\ Score(j).index = Larger(0, Smaller(100, Round(b, 100)))
    <2>1. /\ Weights.governance = 25 /\ Weights.contribution = 30
          /\ Weights.payment = 25 /\ Weights.participation = 20
      BY DEF Weights
    <2>. QED
      BY <1>3, <1>4, <2>1 DEF Score
  <1>. HIDE DEF a, b
  <1>7. Round(a, 100) <= Round(b, 100) /\ Round(a, 100) \in Nat /\ Round(b, 100) \in Nat
    BY <1>5, RoundSame, RoundType
  <1>. QED
    BY <1>6, <1>7 DEF Larger, Smaller

----------------------------------------------------------------------------
(* Analysis: inputs *)

Values == {"whole", "fraction", "zero"}

\* Facts, with votes among them.  The provers do not know that a literal is a string.
Fact == [hash : STRING \cup {"votes"}, dir : {"in", "out", "self", "none"}, peer : Peers \cup {"none"},
         value : Values, m : Nat, recent : BOOLEAN, entry : Entries \cup {"none"},
         category : {"governance", "protocol_interaction", "dao_contribution", "transfer"}]

\* Count, of the facts that are in K.
CountIn(s, K) == Sum([i \in 1..Len(s) |-> IF s[i] \in K THEN s[i].m ELSE 0])

LEMMA FactFields ==
    ASSUME NEW s \in Seq(Fact)
    PROVE  Len(s) \in Nat /\ \A i \in 1..Len(s) : s[i] \in Fact /\ s[i].m \in Nat
  <1>1. Len(s) \in Nat /\ \A i \in 1..Len(s) : s[i] \in Fact
    OBVIOUS
  <1>2. \A f \in Fact : f.m \in Nat
    BY DEF Fact
  <1>. QED
    BY <1>1, <1>2

LEMMA CountInType ==
    ASSUME NEW s \in Seq(Fact), NEW K
    PROVE  /\ CountIn(s, K) \in Nat /\ Total(s) \in Nat
           /\ CountIn(s, K) <= Total(s)
  <1>. DEFINE f == [i \in 1..Len(s) |-> IF s[i] \in K THEN s[i].m ELSE 0]
              g == [i \in 1..Len(s) |-> s[i].m]
  <1>1. Len(s) \in Nat /\ \A i \in 1..Len(s) : s[i].m \in Nat
    BY FactFields
  <1>2. f \in Seq(Nat) /\ g \in Seq(Nat) /\ Len(f) = Len(s) /\ Len(g) = Len(s)
    BY <1>1
  <1>3. \A i \in 1..Len(s) : f[i] <= g[i]
    BY <1>1
  <1>4. CountIn(s, K) = Sum(f) /\ Total(s) = Sum(g)
    BY DEF CountIn, Total
  <1>. HIDE DEF f, g
  <1>5. Sum(f) \in Nat /\ Sum(g) \in Nat
    BY <1>2, SumType
  <1>6. Sum(f) <= Sum(g)
    BY <1>2, <1>3, SumGrows
  <1>. QED
    BY <1>4, <1>5, <1>6

Numbered(T) == \A t \in T : t.m \in Nat

\* The sum of the numbers of the elements of s at the positions F.
SumAt(s, F) == Sum([i \in 1..Len(s) |-> IF i \in F THEN s[i].m ELSE 0])

LEMMA TotalIs ==
    ASSUME NEW T, Numbered(T), NEW s \in Seq(T)
    PROVE  Total(s) = CountIn(s, T) /\ Total(s) = SumAt(s, 1..Len(s)) /\ Total(s) \in Nat
  <1>. DEFINE w == [i \in 1..Len(s) |-> s[i].m]
  <1>1. Len(s) \in Nat /\ \A i \in 1..Len(s) : s[i] \in T /\ s[i].m \in Nat
    BY DEF Numbered
  <1>2. w = [i \in 1..Len(s) |-> IF s[i] \in T THEN s[i].m ELSE 0]
    BY <1>1
  <1>3. w = [i \in 1..Len(s) |-> IF i \in 1..Len(s) THEN s[i].m ELSE 0]
    OBVIOUS
  <1>4. w \in Seq(Nat)
    BY <1>1
  <1>5. Total(s) = Sum(w)
    BY DEF Total
  <1>6. CountIn(s, T) = Sum(w)
    BY <1>2 DEF CountIn
  <1>7. SumAt(s, 1..Len(s)) = Sum(w)
    BY <1>3 DEF SumAt
  <1>. HIDE DEF w
  <1>8. Sum(w) \in Nat
    BY <1>4, SumType
  <1>. QED
    BY <1>5, <1>6, <1>7, <1>8

\* What Append adds to a count.
LEMMA CountAppend ==
    ASSUME NEW T, Numbered(T), NEW s \in Seq(T), NEW K, NEW v \in T
    PROVE  CountIn(Append(s, v), K) = CountIn(s, K) + (IF v \in K THEN v.m ELSE 0)
  <1>0. Append(s, v) \in Seq(T)
    OBVIOUS
  <1>1. PICK t \in Seq(T) : t = Append(s, v)
    BY <1>0
  <1>2. /\ Len(t) = Len(s) + 1 /\ Len(s) \in Nat /\ t[Len(s) + 1] = v
        /\ \A i \in 1..Len(s) : t[i] = s[i] /\ s[i] \in T
    BY <1>1
  <1>. DEFINE c(x) == IF x \in K THEN x.m ELSE 0
              f == [i \in 1..Len(s) |-> c(s[i])]
              g == [i \in 1..Len(t) |-> c(t[i])]
  <1>3. c(v) \in Nat /\ \A i \in 1..Len(s) : c(s[i]) \in Nat
    BY <1>2 DEF Numbered
  <1>4. f \in Seq(Nat)
    BY <1>2, <1>3
  <1>5. g = Append(f, c(v))
    <2>. HIDE DEF c
    <2>. QED
      BY <1>2, <1>3, <1>4
  <1>6. CountIn(s, K) = Sum(f) /\ CountIn(t, K) = Sum(g)
    BY DEF CountIn
  <1>7. Sum(Append(f, c(v))) = Sum(f) + c(v)
    <2>. HIDE DEF f, c
    <2>. QED
      BY <1>3, <1>4, SumAppend
  <1>. QED
    BY <1>1, <1>5, <1>6, <1>7

LEMMA CountInAppend ==
    ASSUME NEW s \in Seq(Fact), NEW K, NEW v \in Fact
    PROVE  /\ CountIn(Append(s, v), K) = CountIn(s, K) + (IF v \in K THEN v.m ELSE 0)
           /\ Total(Append(s, v)) = Total(s) + v.m
  <1>1. Numbered(Fact)
    BY DEF Numbered, Fact
  <1>2. Append(s, v) \in Seq(Fact)
    OBVIOUS
  <1>3. Total(s) = CountIn(s, Fact) /\ Total(Append(s, v)) = CountIn(Append(s, v), Fact)
    BY <1>1, <1>2, TotalIs
  <1>4. CountIn(Append(s, v), Fact) = CountIn(s, Fact) + v.m
    BY <1>1, CountAppend
  <1>5. CountIn(Append(s, v), K) = CountIn(s, K) + (IF v \in K THEN v.m ELSE 0)
    BY <1>1, CountAppend
  <1>. QED
    BY <1>3, <1>4, <1>5

LEMMA EntriesAre == Entries = {"protocol", "governance", "dao"}
  BY DEF Entries, RegistryTables

LEMMA NamesFinite ==
    /\ IsFiniteSet(Peers)
    /\ IsFiniteSet(Entries \cup {"none"})
  <1>1. /\ IsFiniteSet({}) /\ \A S, x : IsFiniteSet(S) => IsFiniteSet(S \cup {x})
    BY FS_EmptySet, FS_AddElement
  <1>2. Peers = (((((({} \cup {"dao"}) \cup {"governance"}) \cup {"protocol"}) \cup {"router"})
                      \cup {"person"}) \cup {"many"}) \cup {"self"}
    BY DEF Peers
  <1>3. Entries \cup {"none"} = ((({} \cup {"protocol"}) \cup {"governance"}) \cup {"dao"}) \cup {"none"}
    BY EntriesAre
  <1>4. IsFiniteSet((((((({} \cup {"dao"}) \cup {"governance"}) \cup {"protocol"}) \cup {"router"})
                      \cup {"person"}) \cup {"many"}) \cup {"self"})
    BY <1>1, Zenon
  <1>5. IsFiniteSet(((({} \cup {"protocol"}) \cup {"governance"}) \cup {"dao"}) \cup {"none"})
    BY <1>1, Zenon
  <1>. QED
    BY <1>2, <1>3, <1>4, <1>5

\* The facts that each of the inputs counts.
OfCategory(c) == {f \in Fact : f.category = c}
Received == {f \in Fact : Paid(f) /\ Incoming(f)}
Sent == {f \in Fact : Paid(f) /\ Outgoing(f)}
ToMany == {f \in Fact : Paid(f) /\ f.dir # "self" /\ f.peer = "many"}
PaidOut == {f \in Fact : Paid(f) /\ f.dir = "out"}
Recent == {f \in Fact : f.entry # "none" /\ f.recent}

\* The names that they count.
Spaces(s) == {f.entry : f \in {f \in Range(s) : f.category = "governance"}} \ {"none"}
PeersOf(s) == {f.peer : f \in {f \in Range(s) : Paid(f) /\ f.dir # "self"}} \ {"many"}
Protocols(s) == {f.entry : f \in Range(s)} \ {"none"}

LEMMA InputsAre ==
    ASSUME NEW s \in Seq(Fact), NEW d
    PROVE  Inputs(s, d) =
              [days        |-> Larger(1, d),
               months      |-> Smaller(36, Larger(1, d) \div 30),
               votes       |-> CountIn(s, OfCategory("governance")),
               voted       |-> Cardinality(Spaces(s)),
               daoPayments |-> CountIn(s, OfCategory("dao_contribution")),
               grants      |-> CountIn(s, OfCategory("grant")),
               received    |-> CountIn(s, Received),
               sent        |-> CountIn(s, Sent),
               peers       |-> CountIn(s, ToMany) + Cardinality(PeersOf(s)),
               wash        |-> CountIn(s, PaidOut),
               protocols   |-> Cardinality(Protocols(s)),
               recent      |-> CountIn(s, Recent),
               total       |-> Total(s)]
  <1>0. Len(s) \in Nat /\ \A i \in 1..Len(s) : s[i] \in Fact
    BY FactFields
  <1>1. \A c : Count(s, LAMBDA f : f.category = c) = CountIn(s, OfCategory(c))
    BY <1>0 DEF Count, CountIn, OfCategory
  <1>2. Count(s, LAMBDA f : Paid(f) /\ Incoming(f)) = CountIn(s, Received)
    BY <1>0 DEF Count, CountIn, Received
  <1>3. Count(s, LAMBDA f : Paid(f) /\ Outgoing(f)) = CountIn(s, Sent)
    BY <1>0 DEF Count, CountIn, Sent
  <1>4. Count(s, LAMBDA f : Paid(f) /\ f.dir # "self" /\ f.peer = "many") = CountIn(s, ToMany)
    BY <1>0 DEF Count, CountIn, ToMany
  <1>5. Count(s, LAMBDA f : Paid(f) /\ f.dir = "out") = CountIn(s, PaidOut)
    BY <1>0 DEF Count, CountIn, PaidOut
  <1>6. Count(s, LAMBDA f : f.entry # "none" /\ f.recent) = CountIn(s, Recent)
    BY <1>0 DEF Count, CountIn, Recent
  <1>. QED
    BY <1>1, <1>2, <1>3, <1>4, <1>5, <1>6
       DEF Inputs, Counterparties, WashPairs, Having, Spaces, PeersOf, Protocols

LEMMA NamesOf ==
    ASSUME NEW s \in Seq(Fact)
    PROVE  /\ IsFiniteSet(Spaces(s)) /\ Cardinality(Spaces(s)) \in Nat
           /\ IsFiniteSet(PeersOf(s)) /\ Cardinality(PeersOf(s)) \in Nat
           /\ IsFiniteSet(Protocols(s)) /\ Cardinality(Protocols(s)) \in Nat
  <1>1. Range(s) \subseteq Fact
    BY FactFields DEF Range
  <1>2. \A f \in Fact : f.entry \in Entries \cup {"none"} /\ f.peer \in Peers \cup {"none"}
    BY DEF Fact
  <1>3. Spaces(s) \subseteq Entries \cup {"none"} /\ Protocols(s) \subseteq Entries \cup {"none"}
    BY <1>1, <1>2 DEF Spaces, Protocols
  <1>4. PeersOf(s) \subseteq Peers \cup {"none"}
    BY <1>1, <1>2 DEF PeersOf
  <1>5. IsFiniteSet(Peers \cup {"none"})
    BY NamesFinite, FS_AddElement
  <1>. QED
    BY <1>3, <1>4, <1>5, NamesFinite, FS_Subset, FS_CardinalityType

LEMMA InputsType ==
    ASSUME NEW s \in Seq(Fact), NEW d \in Nat
    PROVE  Inputs(s, d) \in Tallies
  <1>1. Larger(1, d) \in Nat /\ Smaller(36, Larger(1, d) \div 30) \in Nat
    BY DEF Larger, Smaller
  <1>2. \A K : CountIn(s, K) \in Nat /\ CountIn(s, K) <= Total(s)
    BY CountInType
  <1>3. Total(s) \in Nat
    BY CountInType
  <1>4. CountIn(s, ToMany) + Cardinality(PeersOf(s)) \in Nat
    BY <1>2, NamesOf
  <1>. DEFINE i == Inputs(s, d)
  <1>5. i = [days |-> i.days, months |-> i.months, votes |-> i.votes, voted |-> i.voted,
             daoPayments |-> i.daoPayments, grants |-> i.grants, received |-> i.received,
             sent |-> i.sent, peers |-> i.peers, wash |-> i.wash, protocols |-> i.protocols,
             recent |-> i.recent, total |-> i.total]
    BY InputsAre
  <1>6. /\ i.days \in Nat /\ i.months \in Nat
    BY <1>1, InputsAre
  <1>7. /\ i.votes \in Nat /\ i.daoPayments \in Nat /\ i.grants \in Nat /\ i.received \in Nat
        /\ i.sent \in Nat /\ i.wash \in Nat /\ i.recent \in Nat /\ i.total \in Nat
    BY <1>2, <1>3, InputsAre
  <1>8. i.voted \in Nat /\ i.protocols \in Nat /\ i.peers \in Nat
    BY <1>4, NamesOf, InputsAre
  <1>9. i.votes <= i.total
    BY <1>2, InputsAre
  <1>. HIDE DEF i
  <1>. QED
    BY <1>5, <1>6, <1>7, <1>8, <1>9 DEF Tallies, i

\* What a vote more changes of the inputs.
LEMMA InputsOfVote ==
    ASSUME NEW s \in Seq(Fact), NEW d \in Nat,
           NEW v \in Fact, v.category = "governance", v.m = 1
    PROVE  OneVoteMore(Inputs(s, d), Inputs(Append(s, v), d))
  <1>0. Append(s, v) \in Seq(Fact)
    OBVIOUS
  <1>1. PICK t \in Seq(Fact) : t = Append(s, v)
    BY <1>0
  <1>2. ~ Paid(v)
    BY DEF Paid
  <1>3. Range(t) = Range(s) \cup {v}
    <2>1. /\ DOMAIN s = 1..Len(s) /\ DOMAIN t = 1..(Len(s) + 1) /\ t[Len(s) + 1] = v
          /\ \A i \in 1..Len(s) : t[i] = s[i]
      BY <1>1
    <2>2. Len(s) \in Nat /\ \A i \in 1..(Len(s) + 1) : i \in 1..Len(s) \/ i = Len(s) + 1
      OBVIOUS
    <2>3. \A i \in 1..Len(s) : i \in 1..(Len(s) + 1)
      BY <2>2
    <2>. QED
      BY <2>1, <2>2, <2>3 DEF Range
  <1>4. /\ CountIn(t, OfCategory("governance")) = CountIn(s, OfCategory("governance")) + 1
        /\ Total(t) = Total(s) + 1
    BY <1>1, CountInAppend DEF OfCategory
  <1>5. /\ CountIn(t, OfCategory("dao_contribution")) = CountIn(s, OfCategory("dao_contribution")) + 0
        /\ CountIn(t, OfCategory("grant")) = CountIn(s, OfCategory("grant")) + 0
        /\ CountIn(t, Received) = CountIn(s, Received) + 0
        /\ CountIn(t, Sent) = CountIn(s, Sent) + 0
        /\ CountIn(t, ToMany) = CountIn(s, ToMany) + 0
        /\ CountIn(t, PaidOut) = CountIn(s, PaidOut) + 0
    <2>1. /\ v \notin OfCategory("dao_contribution") /\ v \notin OfCategory("grant")
          /\ v \notin Received /\ v \notin Sent /\ v \notin ToMany /\ v \notin PaidOut
      BY <1>2 DEF OfCategory, Received, Sent, ToMany, PaidOut
    <2>2. \A K : v \notin K => CountIn(t, K) = CountIn(s, K) + 0
      BY <1>1, CountInAppend
    <2>. QED
      BY <2>1, <2>2
  <1>6. CountIn(t, Recent) \in {CountIn(s, Recent), CountIn(s, Recent) + 1}
    <2>1. CountIn(s, Recent) \in Nat
      BY CountInType
    <2>. QED
      BY <1>1, <2>1, CountInAppend
  <1>7. PeersOf(t) = PeersOf(s)
    BY <1>2, <1>3 DEF PeersOf
  <1>8. Cardinality(Spaces(s)) <= Cardinality(Spaces(t))
    <2>1. Spaces(s) \subseteq Spaces(t)
      BY <1>3 DEF Spaces
    <2>. QED
      BY <2>1, NamesOf, FS_Subset
  <1>9. Cardinality(Protocols(s)) <= Cardinality(Protocols(t))
    <2>1. Protocols(s) \subseteq Protocols(t)
      BY <1>3 DEF Protocols
    <2>. QED
      BY <2>1, NamesOf, FS_Subset
  <1>10. \A K : CountIn(s, K) \in Nat
    BY CountInType
  <1>11. CountIn(s, Recent) <= CountIn(t, Recent)
    BY <1>6, <1>10
  <1>12. /\ CountIn(t, OfCategory("dao_contribution")) = CountIn(s, OfCategory("dao_contribution"))
         /\ CountIn(t, OfCategory("grant")) = CountIn(s, OfCategory("grant"))
         /\ CountIn(t, Received) = CountIn(s, Received)
         /\ CountIn(t, Sent) = CountIn(s, Sent)
         /\ CountIn(t, ToMany) = CountIn(s, ToMany)
         /\ CountIn(t, PaidOut) = CountIn(s, PaidOut)
    BY <1>5, <1>10
  <1>13. OneVoteMore(Inputs(s, d), Inputs(t, d))
    BY <1>4, <1>7, <1>8, <1>9, <1>11, <1>12, InputsAre DEF OneVoteMore
  <1>. QED
    BY <1>1, <1>13

----------------------------------------------------------------------------
(* Analysis: what a job fetches and keeps *)

\* Transfers of which a page may hold a part.
Parts == {t \in [hash : STRING, dir : {"in", "out", "self"}, peer : Peers, value : Values, m : Nat] :
             t.dir = "self" <=> t.peer = "self"}

\* The sum of the first elements.
LEMMA PrefixSum ==
    ASSUME NEW s \in Seq(Nat), NEW g, Sums(g, s, Len(s)), NEW n \in 0..Len(s)
    PROVE  Sum([k \in 1..n |-> s[k]]) = g[n]
  <1>. DEFINE p == [k \in 1..n |-> s[k]]
  <1>1. Len(s) \in Nat /\ n \in Nat /\ n <= Len(s)
    OBVIOUS
  <1>2. Len(p) = n /\ \A k \in 1..n : p[k] = s[k]
    BY <1>1
  <1>. HIDE DEF p
  <1>3. PICK h : Sums(h, p, n) /\ Sum(p) = h[n]
    BY <1>1, <1>2, SumIs
  <1>4. h[0] = 0 /\ \A k \in 1..n : h[k] = h[k - 1] + p[k]
    BY <1>1, <1>3, SumsStep
  <1>5. g[0] = 0 /\ \A k \in 1..Len(s) : g[k] = g[k - 1] + s[k]
    BY <1>1, SumsStep
  <1>. DEFINE S == {k \in Nat : k <= n => h[k] = g[k]}
  <1>6. 0 \in S
    BY <1>4, <1>5
  <1>7. ASSUME NEW k \in S \cap Nat PROVE k + 1 \in S
    <2>1. SUFFICES ASSUME k + 1 <= n PROVE h[k + 1] = g[k + 1]
      OBVIOUS
    <2>2. k + 1 \in 1..n /\ k + 1 \in 1..Len(s) /\ k + 1 - 1 = k /\ h[k] = g[k]
      BY <1>1, <2>1
    <2>3. h[k + 1] = h[k] + p[k + 1] /\ g[k + 1] = g[k] + s[k + 1] /\ p[k + 1] = s[k + 1]
      BY <1>2, <1>4, <1>5, <2>2
    <2>. QED
      BY <2>2, <2>3
  <1>. HIDE DEF S
  <1>8. Nat \subseteq S
    BY <1>6, <1>7, EveryNat
  <1>9. h[n] = g[n]
    BY <1>1, <1>8 DEF S
  <1>. QED
    BY <1>3, <1>9 DEF p

\* Sums of longer parts are no less.
LEMMA SumsAscend ==
    ASSUME NEW s \in Seq(Nat), NEW g, Sums(g, s, Len(s)), NEW n \in 0..Len(s)
    PROVE  g[n] <= g[Len(s)]
  <1>1. Len(s) \in Nat /\ n \in Nat /\ n <= Len(s)
    OBVIOUS
  <1>2. \A k \in 1..Len(s) : g[k] = g[k - 1] + s[k] /\ s[k] \in Nat
    BY <1>1, SumsStep
  <1>3. \A k \in 0..Len(s) : g[k] \in Nat
    BY SumsType
  <1>. DEFINE S == {d \in Nat : n + d <= Len(s) => g[n] <= g[n + d]}
  <1>4. 0 \in S
    BY <1>1, <1>3
  <1>5. ASSUME NEW d \in S \cap Nat PROVE d + 1 \in S
    <2>1. SUFFICES ASSUME n + (d + 1) <= Len(s) PROVE g[n] <= g[n + (d + 1)]
      OBVIOUS
    <2>2. PICK k \in Nat : k = n + d
      BY <1>1
    <2>3. /\ k \in 0..Len(s) /\ k + 1 \in 1..Len(s) /\ k + 1 - 1 = k /\ k + 1 = n + (d + 1)
          /\ g[n] <= g[k]
      BY <1>1, <2>1, <2>2
    <2>4. g[k + 1] = g[k] + s[k + 1] /\ s[k + 1] \in Nat /\ g[k] \in Nat /\ g[n] \in Nat
      BY <1>1, <1>2, <1>3, <2>3
    <2>. QED
      BY <2>3, <2>4
  <1>. HIDE DEF S
  <1>6. Nat \subseteq S
    BY <1>4, <1>5, EveryNat
  <1>7. Len(s) - n \in Nat /\ n + (Len(s) - n) = Len(s)
    BY <1>1
  <1>8. g[n] <= g[n + (Len(s) - n)]
    BY <1>6, <1>7 DEF S
  <1>. QED
    BY <1>7, <1>8

\* Over T, a smaller number leaves the rest of an element as it is.
Cuttable(T) ==
    \A t \in T :
        /\ t.m \in Nat
        /\ \A x \in Nat :
              LET u == [t EXCEPT !.m = x] IN
              u \in T /\ u.m = x /\ u.hash = t.hash /\ u.dir = t.dir /\ (x = t.m => u = t)

\* c is s with smaller numbers, cut off so that they sum to no more than n: what Take
\* makes of s before it leaves out the empty elements.
CutOf(c, s, n) ==
    /\ Len(c) = Len(s)
    /\ \A i \in 1..Len(s) : c[i].hash = s[i].hash /\ c[i].dir = s[i].dir /\ c[i].m <= s[i].m
    /\ Total(c) = Smaller(n, Total(s))
    /\ Total(s) <= n => c = s
    /\ Take(s, n) = Chosen(c, {i \in 1..Len(s) : c[i].m > 0})

LEMMA TakeIsCut ==
    ASSUME NEW T, Cuttable(T), NEW s \in Seq(T), NEW n \in Nat
    PROVE  \E c \in Seq(T) : CutOf(c, s, n)
  <1>. DEFINE before(i) == Sum([k \in 1..(i - 1) |-> s[k].m])
              most(i) == Smaller(s[i].m, Larger(0, n - before(i)))
              part(i) == [s[i] EXCEPT !.m = most(i)]
              cut == [i \in 1..Len(s) |-> part(i)]
              w == [i \in 1..Len(s) |-> s[i].m]
  <1>1. Len(s) \in Nat /\ \A i \in 1..Len(s) : s[i] \in T /\ s[i].m \in Nat
    BY DEF Cuttable
  <1>2. w \in Seq(Nat) /\ Len(w) = Len(s) /\ Total(s) = Sum(w)
    BY <1>1 DEF Total
  <1>3. \A i \in 1..Len(s) : w[i] = s[i].m
    OBVIOUS
  <1>4. \A i \in 1..Len(s) : [k \in 1..(i - 1) |-> s[k].m] = [k \in 1..(i - 1) |-> w[k]]
    BY <1>1
  <1>. HIDE DEF w
  <1>5. PICK g : Sums(g, w, Len(s)) /\ Sum(w) = g[Len(s)]
    BY <1>1, <1>2, SumIs
  <1>6. /\ g[0] = 0 /\ \A i \in 1..Len(s) : g[i] = g[i - 1] + s[i].m
        /\ \A i \in 0..Len(s) : g[i] \in Nat /\ g[i] <= g[Len(s)]
    <2>1. g[0] = 0 /\ \A i \in 1..Len(s) : g[i] = g[i - 1] + w[i]
      BY <1>1, <1>5, SumsStep
    <2>2. \A i \in 0..Len(s) : g[i] \in Nat
      BY <1>2, <1>5, SumsType
    <2>3. \A i \in 0..Len(s) : g[i] <= g[Len(s)]
      BY <1>2, <1>5, SumsAscend
    <2>. QED
      BY <1>3, <2>1, <2>2, <2>3
  <1>7. \A i \in 1..Len(s) : before(i) = g[i - 1]
    <2>1. TAKE i \in 1..Len(s)
    <2>2. i - 1 \in 0..Len(s)
      BY <1>1
    <2>3. Sum([k \in 1..(i - 1) |-> w[k]]) = g[i - 1]
      BY <1>2, <1>5, <2>2, PrefixSum
    <2>. QED
      BY <1>4, <2>3
  <1>8. \A i \in 1..Len(s) : /\ most(i) \in Nat /\ most(i) <= s[i].m
                             /\ most(i) = Smaller(n, g[i]) - Smaller(n, g[i - 1])
                             /\ g[i] <= n => most(i) = s[i].m
    <2>1. TAKE i \in 1..Len(s)
    <2>2. /\ before(i) = g[i - 1] /\ g[i - 1] \in Nat /\ s[i].m \in Nat
          /\ g[i] = g[i - 1] + s[i].m
      <3>1. i - 1 \in 0..Len(s)
        BY <1>1
      <3>. HIDE DEF before
      <3>. QED
        BY <1>1, <1>6, <1>7, <3>1
    <2>3. \A a, m \in Nat :
              LET x == Smaller(m, Larger(0, n - a)) IN
              /\ x \in Nat /\ x <= m /\ x = Smaller(n, a + m) - Smaller(n, a)
              /\ a + m <= n => x = m
      BY DEF Smaller, Larger
    <2>4. most(i) = Smaller(s[i].m, Larger(0, n - g[i - 1]))
      BY <2>2
    <2>5. PICK a \in Nat, m \in Nat : a = g[i - 1] /\ m = s[i].m
      BY <2>2
    <2>. HIDE DEF most
    <2>6. most(i) = Smaller(m, Larger(0, n - a)) /\ g[i] = a + m
      BY <2>2, <2>4, <2>5
    <2>7. /\ most(i) \in Nat /\ most(i) <= m
          /\ most(i) = Smaller(n, a + m) - Smaller(n, a)
          /\ a + m <= n => most(i) = m
      BY <2>3, <2>6
    <2>. QED
      BY <2>5, <2>6, <2>7
  <1>. HIDE DEF most, before
  <1>9. \A i \in 1..Len(s) : /\ part(i) \in T /\ part(i).m = most(i)
                             /\ part(i).hash = s[i].hash /\ part(i).dir = s[i].dir
                             /\ most(i) = s[i].m => part(i) = s[i]
    BY <1>1, <1>8 DEF Cuttable
  <1>. HIDE DEF part
  <1>10. cut \in Seq(T) /\ Len(cut) = Len(s) /\ \A i \in 1..Len(s) : cut[i] = part(i)
    BY <1>1, <1>9
  <1>11. Take(s, n) = Chosen(cut, {i \in 1..Len(s) : cut[i].m > 0})
    BY DEF Take, part, most, before
  <1>. HIDE DEF cut
  <1>12. Total(cut) = Smaller(n, Total(s))
    <2>. DEFINE v == [i \in 1..Len(cut) |-> cut[i].m]
    <2>1. v \in Seq(Nat) /\ Len(v) = Len(s) /\ Total(cut) = Sum(v)
      BY <1>1, <1>8, <1>9, <1>10 DEF Total
    <2>2. \A i \in 1..Len(s) : v[i] = most(i)
      BY <1>9, <1>10
    <2>. HIDE DEF v
    <2>3. PICK h : Sums(h, v, Len(s)) /\ Sum(v) = h[Len(s)]
      BY <1>1, <2>1, SumIs
    <2>4. h[0] = 0 /\ \A i \in 1..Len(s) : h[i] = h[i - 1] + v[i]
      BY <1>1, <2>3, SumsStep
    <2>. DEFINE S == {i \in Nat : i <= Len(s) => h[i] = Smaller(n, g[i])}
    <2>5. 0 \in S
      BY <1>6, <2>4 DEF Smaller
    <2>6. ASSUME NEW i \in S \cap Nat PROVE i + 1 \in S
      <3>1. SUFFICES ASSUME i + 1 <= Len(s) PROVE h[i + 1] = Smaller(n, g[i + 1])
        OBVIOUS
      <3>2. /\ i + 1 \in 1..Len(s) /\ i + 1 - 1 = i /\ i \in 0..Len(s) /\ i + 1 \in 0..Len(s)
            /\ h[i] = Smaller(n, g[i])
        BY <3>1
      <3>3. h[i + 1] = Smaller(n, g[i]) + (Smaller(n, g[i + 1]) - Smaller(n, g[i]))
        BY <1>8, <2>2, <2>4, <3>2
      <3>4. g[i] \in Nat /\ g[i + 1] \in Nat
        BY <1>6, <3>2
      <3>. QED
        BY <3>3, <3>4 DEF Smaller
    <2>. HIDE DEF S
    <2>7. Nat \subseteq S
      BY <2>5, <2>6, EveryNat
    <2>8. h[Len(s)] = Smaller(n, g[Len(s)])
      BY <1>1, <2>7 DEF S
    <2>. QED
      BY <1>2, <1>5, <2>1, <2>3, <2>8
  <1>13. ASSUME Total(s) <= n PROVE cut = s
    <2>1. \A i \in 1..Len(s) : cut[i] = s[i]
      <3>1. TAKE i \in 1..Len(s)
      <3>2. g[i] <= n
        <4>1. i \in 0..Len(s) /\ Len(s) \in 0..Len(s) /\ g[Len(s)] <= n
          BY <1>1, <1>2, <1>5, <1>13
        <4>2. g[i] \in Nat /\ g[Len(s)] \in Nat /\ g[i] <= g[Len(s)]
          BY <1>6, <4>1
        <4>. QED
          BY <4>1, <4>2
      <3>. QED
        BY <1>8, <1>9, <1>10, <3>2
    <2>. QED
      BY <1>10, <2>1
  <1>14. \A i \in 1..Len(s) : cut[i].hash = s[i].hash /\ cut[i].dir = s[i].dir /\ cut[i].m <= s[i].m
    BY <1>8, <1>9, <1>10
  <1>15. CutOf(cut, s, n)
    BY <1>10, <1>11, <1>12, <1>13, <1>14 DEF CutOf
  <1>. QED
    BY <1>10, <1>15

LEMMA TakeType ==
    ASSUME NEW T, Cuttable(T), NEW s \in Seq(T), NEW n \in Nat
    PROVE  Take(s, n) \in Seq(T)
  <1>1. PICK c \in Seq(T) : CutOf(c, s, n)
    BY TakeIsCut
  <1>. QED
    BY <1>1, ChosenType DEF CutOf

LEMMA CuttableParts == Cuttable(Parts) /\ Cuttable(Fact) /\ Numbered(Parts) /\ Numbered(Fact)
  <1>1. Cuttable(Parts)
    BY DEF Cuttable, Parts
  <1>2. Cuttable(Fact)
    BY DEF Cuttable, Fact
  <1>. QED
    BY <1>1, <1>2 DEF Cuttable, Numbered

LEMMA TransfersAreParts == Transfers \subseteq Parts
  BY DEF Parts, Transfers, Values

LEMMA PageType ==
    ASSUME chain \in Seq(Transfers), NEW end
    PROVE  Page(end) \in Seq(Parts)
  <1>1. chain \in Seq(Parts)
    BY TransfersAreParts
  <1>2. \A P : Chosen(chain, P) \in Seq(Parts)
    BY <1>1, ChosenType
  <1>3. \A s \in Seq(Parts) : Take(s, 1000) \in Seq(Parts)
    BY CuttableParts, TakeType
  <1>. QED
    BY <1>2, <1>3 DEF Page, PageSize

----------------------------------------------------------------------------
(* Analysis: the inductive invariant *)

\* A set of entries that has what was listed all the time, and nothing that never was.
Respects(entries) == steady \subseteq entries /\ entries \cap absent = {}

Load == [step : {"ask", "done"}, saw : SUBSET Entries, left : SUBSET RegistryTables]

WorkerTypes ==
    /\ listed \subseteq Entries /\ steady \subseteq listed /\ absent \subseteq Entries \ listed
    /\ known \subseteq Entries /\ loaded \in BOOLEAN
    /\ treasuries \subseteq {"dao"} /\ daosLoaded \in BOOLEAN
    /\ stage \in Stages /\ chain \in Seq(Transfers) /\ got \in Seq(Parts)
    /\ stage = "classify" =>
          loads \in [1..Len(got) -> Load]

\* A load that has what was listed all the time of the tables that it has read.
Reads(l) ==
    /\ steady \subseteq l.saw \cup UNION l.left /\ l.saw \cap absent = {}
    /\ l.step = "done" => l.left = {}

\* The worker's copies of the registry, those that are being loaded among them.
CopiesOK ==
    /\ loaded => Respects(known)
    /\ known \cap absent = {}
    /\ stage = "classify" => \A i \in 1..Len(got) : Reads(loads[i])
    /\ daosLoaded => /\ "dao" \in steady => "dao" \in treasuries
                     /\ "dao" \in absent => "dao" \notin treasuries
    /\ stage = "done" => daosLoaded \/ facts = <<>>

\* A fact is classified by its counterparty.
Good(f) ==
    /\ f.peer \in steady => f.entry = f.peer
    /\ f.peer \in absent => f.entry = "none"
    /\ f.entry \in {f.peer, "none"}
    /\ f.category = "dao_contribution" <=> f.entry = "dao"
    /\ f.dir = "self" <=> f.peer = "self"

GoodFacts == {f \in Fact : Good(f)}

FactsOK ==
    /\ facts \in Seq(GoodFacts)
    /\ stage \in {"store", "awards", "revoke", "dao", "done"} => inputs = Inputs(facts, Age)

Active == {c \in Codes : awards[c] = "active"}

\* How far the awards are.
BadgesOK ==
    /\ earned \subseteq Codes /\ awards \in [Codes -> {"none", "active", "revoked"}]
    /\ pos \in 0..Len(Catalog)
    /\ stage \in {"idle", "head", "out", "in", "classify", "store"} => pos = 0
    /\ stage = "awards" =>
          \A n \in 1..pos : Catalog[n].code \in earned => Catalog[n].code \in Active
    /\ stage = "revoke" => earned \subseteq Active
    /\ stage \in {"dao", "done"} => Active = earned

AInv == WorkerTypes /\ CopiesOK /\ FactsOK /\ BadgesOK

LEMMA EmptyFacts == <<>> \in Seq(GoodFacts) /\ <<>> \in Seq(Parts) /\ <<>> \in Seq(Transfers)
  OBVIOUS

LEMMA CodesOfCatalog == \A n \in 1..Len(Catalog) : Catalog[n].code \in Codes
  BY DEF Codes, Catalog

LEMMA EarnedCodes == Earned(inputs) \subseteq Codes
  BY DEF Earned, Codes

LEMMA InitAInv == ASSUME AnalysisInit PROVE AInv
  <1>1. WorkerTypes
    BY EmptyFacts DEF AnalysisInit, WorkerTypes, Stages, Entries
  <1>2. CopiesOK
    BY DEF AnalysisInit, CopiesOK
  <1>3. FactsOK
    BY EmptyFacts DEF AnalysisInit, FactsOK
  <1>4. BadgesOK
    <2>1. Len(Catalog) \in Nat
      BY DEF Catalog
    <2>. QED
      BY <2>1 DEF AnalysisInit, BadgesOK
  <1>. QED
    BY <1>1, <1>2, <1>3, <1>4 DEF AInv

----------------------------------------------------------------------------
(* Analysis: every step keeps the invariant *)

\* Some number of a set of naturals is the least.
LEMMA LeastExists ==
    ASSUME NEW S \in SUBSET Nat, S # {}
    PROVE  \E n \in S : \A k \in S : n <= k
  <1>1. IsWellFoundedOn(OpToRel(<, Nat), Nat)
    BY NatLessThanWellFounded
  <1>2. PICK n \in S : \A k \in S : ~ (<<k, n>> \in OpToRel(<, Nat))
    BY <1>1, WFMin
  <1>3. \A k \in S : ~ (k < n)
    BY <1>2 DEF OpToRel
  <1>. QED
    BY <1>3

LEMMA BadgesStep == ASSUME AInv, AnalysisNext PROVE BadgesOK'
  <1>. USE DEF AInv, WorkerTypes, BadgesOK, Active
  <1>0. Len(Catalog) \in Nat
    BY DEF Catalog
  <1>1. CASE BeginJob \/ RestartWorker
    BY <1>0, <1>1 DEF BeginJob, RestartWorker
  <1>2. CASE LatestBlock \/ Rpc \/ Collect
    BY <1>2 DEF LatestBlock, Rpc, MayCall, Collect, scoring
  <1>3. CASE RpcFails(TRUE) \/ RpcFails(FALSE) \/ RpcRefuses
    BY <1>3 DEF RpcFails, RpcRefuses, MayCall, scoring, job
  <1>4. CASE StoreScores
    BY <1>0, <1>4, EarnedCodes DEF StoreScores
  <1>5. CASE SyncAward
    <2>. DEFINE due == {n \in (pos + 1)..Len(Catalog) : Catalog[n].code \in earned}
    <2>1. /\ stage = "awards" /\ pos \in Nat /\ UNCHANGED earned
          /\ \A n \in due : n \in 1..Len(Catalog) /\ Catalog[n].code \in Codes
      BY <1>0, <1>5, CodesOfCatalog DEF SyncAward, scoring
    <2>2. CASE due = {}
      <3>1. stage' = "revoke" /\ UNCHANGED <<awards, pos>>
        BY <1>5, <2>2 DEF SyncAward
      <3>2. \A n \in 1..Len(Catalog) : Catalog[n].code \in earned => n \in 1..pos
        BY <1>0, <2>1, <2>2
      <3>3. \A c \in earned : \E n \in 1..Len(Catalog) : Catalog[n].code = c
        <4>1. DOMAIN Catalog = 1..Len(Catalog)
          BY DEF Catalog
        <4>. QED
          BY <4>1 DEF Codes
      <3>4. earned \subseteq Active
        BY <2>1, <3>2, <3>3
      <3>. QED
        BY <2>1, <3>1, <3>4
    <2>3. CASE due # {}
      <3>1. PICK n \in due : /\ n = CHOOSE m \in due : \A k \in due : m <= k
                             /\ \A k \in due : n <= k
        <4>1. due \in SUBSET Nat
          BY <1>0, <2>1
        <4>. QED
          BY <2>3, <4>1, LeastExists
      <3>2. Award(Catalog[n].code) /\ pos' = n /\ UNCHANGED stage
        BY <1>5, <2>3, <3>1 DEF SyncAward
      <3>3. n \in 1..Len(Catalog) /\ pos < n /\ Catalog[n].code \in Codes
        BY <1>0, <2>1
      <3>4. awards' = [awards EXCEPT ![Catalog[n].code] = "active"]
        BY <3>2 DEF Award
      <3>5. Active' = Active \cup {Catalog[n].code}
        BY <3>3, <3>4
      <3>6. \A k \in 1..n : Catalog[k].code \in earned => k \in 1..pos \/ k = n
        <4>1. TAKE k \in 1..n
        <4>2. HAVE Catalog[k].code \in earned
        <4>3. CASE k <= pos
          BY <2>1, <3>3, <4>3
        <4>4. CASE ~ (k <= pos)
          <5>1. k \in due
            BY <1>0, <2>1, <3>3, <4>2, <4>4
          <5>. QED
            BY <3>1, <3>3, <5>1
        <4>. QED
          BY <4>3, <4>4
      <3>. QED
        BY <2>1, <3>2, <3>3, <3>4, <3>5, <3>6
    <2>. QED
      BY <2>2, <2>3
  <1>6. CASE Revoke
    <2>. DEFINE stale == {c \in Codes : awards[c] = "active"} \ earned
                c == CHOOSE c \in stale : TRUE
    <2>1. stage = "revoke" /\ UNCHANGED <<earned, pos>>
      BY <1>6 DEF Revoke, job, scoring
    <2>2. CASE stale = {}
      BY <1>6, <2>1, <2>2 DEF Revoke
    <2>3. CASE stale # {}
      <3>1. c \in stale /\ awards' = [awards EXCEPT ![c] = "revoked"] /\ UNCHANGED stage
        BY <1>6, <2>3 DEF Revoke
      <3>. QED
        BY <2>1, <3>1
    <2>. QED
      BY <2>2, <2>3
  <1>7. CASE Aggregate
    BY <1>7 DEF Aggregate, job, scoring
  <1>8. CASE \E i \in DOMAIN loads : Fill(i) \/ \E table \in RegistryTables : AnswerOf(i, table)
    BY <1>8 DEF AnswerOf, Fill, scoring
  <1>9. CASE PauseEnds \/ Throw \/ \E e \in Entries : Change(e)
    BY <1>9 DEF PauseEnds, Throw, Change, scoring, job
  <1>. QED
    BY <1>1, <1>2, <1>3, <1>4, <1>5, <1>6, <1>7, <1>8, <1>9 DEF AnalysisNext, Step

LEMMA TypesStep == ASSUME AInv, AnalysisNext PROVE WorkerTypes'
  <1>. USE DEF AInv, WorkerTypes
  <1>1. CASE BeginJob \/ RestartWorker
    BY <1>1, EmptyFacts DEF BeginJob, RestartWorker, registry, Stages, Entries
  <1>2. CASE LatestBlock
    <2>1. chain' \in Seq(Transfers)
      BY <1>2, AnalysisAssumption DEF LatestBlock, Parameters
    <2>. QED
      BY <1>2, <2>1 DEF LatestBlock, registry, Stages
  <1>3. CASE Rpc
    <2>1. stage = "out" \/ stage = "in"
      BY <1>3 DEF Rpc, MayCall
    <2>2. UNCHANGED <<listed, registry, chain, steady, absent>>
      BY <1>3 DEF Rpc
    <2>3. CASE stage = "out"
      <3>1. got' = Page("out") /\ stage' = "in"
        BY <1>3, <2>3 DEF Rpc
      <3>2. got' \in Seq(Parts)
        BY <3>1, PageType
      <3>. QED
        BY <2>2, <3>1, <3>2 DEF registry, Stages
    <2>4. CASE stage = "in"
      <3>1. /\ got' = WithoutDuplicates(got \o Page("in")) /\ stage' = "classify"
            /\ loads' = [i \in 1..Len(got') |-> Started(i)]
        BY <1>3, <2>4 DEF Rpc
      <3>2. got \o Page("in") \in Seq(Parts)
        <4>1. Page("in") \in Seq(Parts)
          BY PageType
        <4>. QED
          BY <4>1
      <3>3. got' \in Seq(Parts)
        BY <3>1, <3>2, ChosenType DEF WithoutDuplicates
      <3>4. loads' \in [1..Len(got') -> Load]
        BY <3>1 DEF Started, Asking, Done, Load
      <3>. QED
        BY <2>2, <3>1, <3>3, <3>4 DEF registry, Stages
    <2>. QED
      BY <2>1, <2>3, <2>4
  <1>4. CASE RpcFails(TRUE) \/ RpcFails(FALSE)
    BY <1>4 DEF RpcFails, MayCall, registry, Stages
  <1>5. CASE RpcRefuses \/ Throw
    BY <1>5 DEF RpcRefuses, Throw, registry, job, fetch, Stages
  <1>6. CASE Collect
    BY <1>6, EmptyFacts DEF Collect, registry, Stages
  <1>7. CASE StoreScores
    BY <1>7 DEF StoreScores, registry, fetch, Stages
  <1>8. CASE SyncAward \/ Revoke
    BY <1>8 DEF SyncAward, Revoke, registry, job, fetch, Stages
  <1>9. CASE Aggregate
    <2>1. treasuries' \subseteq {"dao"} /\ daosLoaded' \in BOOLEAN
      BY <1>9 DEF Aggregate
    <2>. QED
      BY <1>9, <2>1 DEF Aggregate, job, fetch, Stages
  <1>10. ASSUME NEW i \in DOMAIN loads, NEW table \in RegistryTables, AnswerOf(i, table) PROVE WorkerTypes'
    <2>1. stage = "classify" /\ loads[i] \in Load
      BY <1>10 DEF AnswerOf
    <2>2. PICK l : l = [loads[i] EXCEPT !.saw = @ \cup (listed \cap table), !.left = @ \ {table}]
      OBVIOUS
    <2>3. l \in Load
      BY <2>1, <2>2 DEF Load
    <2>4. loads' = [loads EXCEPT ![i] = l]
      BY <1>10, <2>2 DEF AnswerOf
    <2>. QED
      BY <1>10, <2>1, <2>3, <2>4 DEF AnswerOf, registry, fetch
  <1>11. ASSUME NEW i \in DOMAIN loads, Fill(i) PROVE WorkerTypes'
    <2>1. /\ stage = "classify" /\ loads[i].saw \subseteq Entries
          /\ known' = known \cup loads[i].saw /\ loads' = [loads EXCEPT ![i] = Done(known')]
      BY <1>11 DEF Fill, Load
    <2>2. Done(known') \in Load
      BY <2>1 DEF Done, Load
    <2>. QED
      BY <1>11, <2>1, <2>2 DEF Fill, fetch
  <1>12. CASE PauseEnds
    BY <1>12 DEF PauseEnds, registry
  <1>13. CASE \E e \in Entries : Change(e)
    <2>1. /\ listed' \subseteq Entries /\ steady' \subseteq listed'
          /\ absent' \subseteq Entries \ listed'
      BY <1>13 DEF Change
    <2>. QED
      BY <1>13, <2>1 DEF Change, registry, job, fetch
  <1>. QED
    BY <1>1, <1>2, <1>3, <1>4, <1>5, <1>6, <1>7, <1>8, <1>9, <1>10, <1>11, <1>12, <1>13
       DEF AnalysisNext, Step

LEMMA CopiesStep == ASSUME AInv, AnalysisNext PROVE CopiesOK'
  <1>. USE DEF AInv, WorkerTypes, CopiesOK, Respects
  <1>1. CASE BeginJob
    BY <1>1 DEF BeginJob, registry
  <1>2. CASE RestartWorker
    BY <1>2 DEF RestartWorker
  <1>3. CASE LatestBlock
    BY <1>3 DEF LatestBlock, registry
  <1>4. CASE Rpc
    <2>1. /\ UNCHANGED <<registry, steady, absent>>
          /\ \/ stage' = "in"
             \/ /\ stage' = "classify"
                /\ loads' = [i \in 1..Len(got') |-> Started(i)]
      BY <1>4 DEF Rpc
    <2>2. \A i : Reads(Started(i))
      <3>1. steady \subseteq UNION RegistryTables
        BY DEF Entries
      <3>. QED
        BY <3>1 DEF Reads, Started, Asking, Done
    <2>3. stage' = "classify" => \A i \in 1..Len(got') : Reads(loads[i])'
      BY <2>1, <2>2 DEF Reads
    <2>. QED
      BY <2>1, <2>3 DEF registry
  <1>5. CASE RpcFails(TRUE) \/ RpcFails(FALSE)
    <2>1. /\ stage' \in {"failed", "head", "out", "in"}
          /\ UNCHANGED <<known, loaded, treasuries, daosLoaded, steady, absent>>
      BY <1>5 DEF RpcFails, MayCall, registry
    <2>. QED
      BY <2>1
  <1>6. CASE RpcRefuses \/ Throw
    BY <1>6 DEF RpcRefuses, Throw, registry
  <1>7. CASE Collect \/ StoreScores
    BY <1>7 DEF Collect, StoreScores, registry
  <1>8. CASE SyncAward \/ Revoke
    BY <1>8 DEF SyncAward, Revoke, registry
  <1>9. CASE Aggregate
    <2>1. /\ UNCHANGED <<known, loaded, steady, absent, facts>>
          /\ stage' \in {"failed", "done"}
          /\ \/ (facts = <<>> \/ daosLoaded) /\ UNCHANGED <<treasuries, daosLoaded>>
             \/ daosLoaded' = TRUE /\ treasuries' = listed \cap {"dao"}
      BY <1>9 DEF Aggregate, job
    <2>. QED
      BY <2>1
  <1>10. ASSUME NEW i \in DOMAIN loads, NEW table \in RegistryTables, AnswerOf(i, table) PROVE CopiesOK'
    <2>1. /\ stage = "classify" /\ table \in loads[i].left /\ loads[i] \in Load
          /\ UNCHANGED <<stage, known, loaded, treasuries, daosLoaded, steady, absent>> /\ got' = got
      BY <1>10 DEF AnswerOf, registry, fetch
    <2>2. PICK l : l = [loads[i] EXCEPT !.saw = @ \cup (listed \cap table), !.left = @ \ {table}]
      OBVIOUS
    <2>3. /\ l.saw = loads[i].saw \cup (listed \cap table) /\ l.left = loads[i].left \ {table}
          /\ l.step = loads[i].step
      BY <2>1, <2>2 DEF Load
    <2>4. Reads(l)
      <3>1. Reads(loads[i]) /\ steady \subseteq listed /\ listed \cap absent = {}
        BY <2>1
      <3>. QED
        BY <2>1, <2>3, <3>1 DEF Reads
    <2>5. loads' = [loads EXCEPT ![i] = l]
      BY <1>10, <2>2 DEF AnswerOf
    <2>6. \A k \in 1..Len(got) : Reads(loads[k])'
      BY <2>1, <2>4, <2>5 DEF Reads
    <2>. QED
      BY <2>1, <2>6
  <1>11. ASSUME NEW i \in DOMAIN loads, Fill(i) PROVE CopiesOK'
    <2>1. /\ stage = "classify" /\ loads[i].left = {} /\ Reads(loads[i])
          /\ UNCHANGED <<stage, listed, treasuries, daosLoaded, steady, absent>> /\ got' = got
          /\ known' = known \cup loads[i].saw /\ loaded' = TRUE
          /\ loads' = [loads EXCEPT ![i] = Done(known')]
      BY <1>11 DEF Fill, fetch
    <2>2. Respects(known \cup loads[i].saw)
      BY <2>1 DEF Reads
    <2>3. \A k \in 1..Len(got) : Reads(loads[k])'
      BY <2>1, <2>2 DEF Done, Reads
    <2>. QED
      BY <2>1, <2>2, <2>3
  <1>12. CASE PauseEnds
    BY <1>12 DEF PauseEnds, registry, Reads
  <1>13. CASE \E e \in Entries : Change(e)
    BY <1>13 DEF Change, registry, job, fetch, Reads
  <1>. QED
    BY <1>1, <1>2, <1>3, <1>4, <1>5, <1>6, <1>7, <1>8, <1>9, <1>10, <1>11, <1>12, <1>13
       DEF AnalysisNext, Step

\* Facts stay good when fewer entries are known to have stayed as they were.
LEMMA GoodStays ==
    ASSUME facts \in Seq(GoodFacts), UNCHANGED facts, steady' \subseteq steady, absent' \subseteq absent
    PROVE  facts' \in Seq(GoodFacts')
  <1>1. GoodFacts \subseteq GoodFacts'
    BY DEF GoodFacts, Good
  <1>. QED
    BY <1>1

LEMMA ClassifiedGood ==
    ASSUME AInv, Collect
    PROVE  Len(got) \in Nat /\ \A i \in 1..Len(got) : Classified(i) \in GoodFacts
  <1>1. /\ stage = "classify" /\ Len(got) \in Nat
        /\ \A i \in 1..Len(got) : got[i] \in Parts /\ Respects(loads[i].saw)
    <2>1. DOMAIN loads = 1..Len(got) /\ \A i \in DOMAIN loads : loads[i].step = "done"
      BY DEF Collect, AInv, WorkerTypes
    <2>2. stage = "classify" /\ got \in Seq(Parts)
      BY DEF Collect, AInv, WorkerTypes
    <2>3. \A i \in 1..Len(got) : Reads(loads[i]) /\ loads[i].left = {}
      BY <2>1, <2>2 DEF AInv, CopiesOK, Reads, Collect
    <2>. QED
      BY <2>1, <2>2, <2>3 DEF Reads, Respects
  <1>2. \A i \in 1..Len(got) : Classified(i) \in GoodFacts
    <2>1. TAKE i \in 1..Len(got)
    <2>2. PICK e \in Entries \cup {"none"} :
              /\ e = IF got[i].peer \in loads[i].saw THEN got[i].peer ELSE "none"
              /\ got[i].peer \in steady => e = got[i].peer
              /\ got[i].peer \in absent => e = "none"
              /\ e \in {got[i].peer, "none"}
      <3>1. loads[i].saw \subseteq Entries
        BY <1>1 DEF AInv, WorkerTypes, Load
      <3>. QED
        BY <1>1, <3>1 DEF Respects
    <2>3. /\ Category(e) \in {"governance", "protocol_interaction", "dao_contribution", "transfer"}
          /\ Category(e) = "dao_contribution" <=> e = "dao"
      BY EntriesAre DEF Category
    <2>4. Classified(i) = [hash |-> got[i].hash, dir |-> got[i].dir, peer |-> got[i].peer,
                             value |-> got[i].value, m |-> got[i].m, recent |-> TRUE, entry |-> e,
                             category |-> Category(e)]
      BY <2>2 DEF Classified
    <2>5. /\ got[i].hash \in STRING \cup {"votes"} /\ got[i].dir \in {"in", "out", "self", "none"}
          /\ got[i].peer \in Peers \cup {"none"} /\ got[i].value \in Values /\ got[i].m \in Nat
          /\ got[i].dir = "self" <=> got[i].peer = "self"
      BY <1>1 DEF Parts
    <2>6. Classified(i) \in Fact
      BY <2>3, <2>4, <2>5 DEF Fact
    <2>. QED
      BY <2>2, <2>3, <2>4, <2>5, <2>6 DEF GoodFacts, Good
  <1>. QED
    BY <1>1, <1>2

LEMMA CollectFacts ==
    ASSUME AInv, Collect
    PROVE  facts' \in Seq(GoodFacts)
  <1>. DEFINE s == [i \in 1..Len(got) |-> Classified(i)]
  <1>3. s \in Seq(GoodFacts)
    BY ClassifiedGood
  <1>4. Merged(s) \in Seq(GoodFacts)
    <2>. DEFINE v == [hash |-> "votes", dir |-> "none", peer |-> "none", value |-> "zero",
                      m |-> SnapshotVotes, recent |-> FALSE, entry |-> "none",
                      category |-> "governance"]
    <2>1. SnapshotVotes \in Nat
      BY AnalysisAssumption DEF SnapshotVotes, Smaller, Parameters
    <2>2. v \in Fact
      BY <2>1 DEF Fact, Values
    <2>3. v \in GoodFacts
      <3>1. "none" \notin Entries
        BY EntriesAre
      <3>2. "none" \notin steady /\ "none" \notin absent
        BY <3>1 DEF AInv, WorkerTypes
      <3>. QED
        BY <2>2, <3>2 DEF GoodFacts, Good
    <2>4. Merged(s) = s \/ Merged(s) = Append(s, v)
      BY DEF Merged
    <2>. HIDE DEF s, v
    <2>. QED
      BY <1>3, <2>3, <2>4
  <1>5. Cuttable(GoodFacts)
    <2>1. ASSUME NEW f \in GoodFacts, NEW x \in Nat, NEW u, u = [f EXCEPT !.m = x]
          PROVE  /\ f.m \in Nat /\ u \in GoodFacts
                 /\ u.m = x /\ u.hash = f.hash /\ u.dir = f.dir /\ (x = f.m => u = f)
      <3>1. f \in Fact /\ Good(f)
        BY DEF GoodFacts
      <3>2. /\ f.m \in Nat /\ u \in Fact
            /\ u.m = x /\ u.hash = f.hash /\ u.dir = f.dir /\ (x = f.m => u = f)
        BY <2>1, <3>1, CuttableParts DEF Cuttable
      <3>3. u.peer = f.peer /\ u.entry = f.entry /\ u.category = f.category
        BY <2>1, <3>1 DEF Fact
      <3>. QED
        BY <3>1, <3>2, <3>3 DEF GoodFacts, Good
    <2>2. SUFFICES ASSUME NEW f \in GoodFacts
                   PROVE  /\ f.m \in Nat
                          /\ \A x \in Nat :
                                LET u == [f EXCEPT !.m = x] IN
                                /\ u \in GoodFacts /\ u.m = x /\ u.hash = f.hash /\ u.dir = f.dir
                                /\ (x = f.m => u = f)
      BY Zenon DEF Cuttable
    <2>3. f.m \in Nat
      <3>1. 0 \in Nat
        OBVIOUS
      <3>. QED
        BY <2>1, <3>1, Zenon
    <2>4. ASSUME NEW x \in Nat
          PROVE  LET u == [f EXCEPT !.m = x] IN
                 /\ u \in GoodFacts /\ u.m = x /\ u.hash = f.hash /\ u.dir = f.dir
                 /\ (x = f.m => u = f)
      <3>. DEFINE w == [f EXCEPT !.m = x]
      <3>1. PICK u : u = w
        OBVIOUS
      <3>2. /\ u \in GoodFacts /\ u.m = x /\ u.hash = f.hash /\ u.dir = f.dir
            /\ (x = f.m => u = f)
        BY <2>1, <3>1
      <3>3. /\ w \in GoodFacts /\ w.m = x /\ w.hash = f.hash /\ w.dir = f.dir
            /\ (x = f.m => w = f)
        <4>. HIDE DEF w
        <4>. QED
          BY <3>1, <3>2
      <3>. QED
        BY <3>3
    <2>. QED
      BY <2>3, <2>4, Zenon
  <1>6. facts' = Take(Merged(s), 500)
    BY DEF Collect, Summarized, Threshold
  <1>. HIDE DEF s
  <1>. QED
    BY <1>4, <1>5, <1>6, TakeType

LEMMA FactsStep == ASSUME AInv, AnalysisNext PROVE FactsOK'
  <1>. USE DEF AInv, WorkerTypes, FactsOK
  <1>1. CASE BeginJob
    BY <1>1, EmptyFacts DEF BeginJob
  <1>2. CASE RestartWorker
    <2>1. <<>> \in Seq(GoodFacts')
      OBVIOUS
    <2>. QED
      BY <1>2, <2>1 DEF RestartWorker
  <1>3. CASE LatestBlock \/ Rpc
    <2>1. stage' \in {"out", "in", "classify"} /\ UNCHANGED <<facts, steady, absent>>
      BY <1>3 DEF LatestBlock, Rpc, MayCall
    <2>. QED
      BY <2>1, GoodStays
  <1>4. CASE RpcFails(TRUE) \/ RpcFails(FALSE) \/ RpcRefuses \/ Throw
    <2>1. stage' \in {"head", "out", "in", "failed"} /\ UNCHANGED <<facts, steady, absent>>
      BY <1>4 DEF RpcFails, RpcRefuses, Throw, MayCall, job
    <2>. QED
      BY <2>1, GoodStays
  <1>5. CASE Collect
    <2>1. UNCHANGED <<steady, absent>> /\ inputs' = Inputs(facts', Age)
      BY <1>5 DEF Collect
    <2>2. GoodFacts' = GoodFacts
      BY <2>1 DEF GoodFacts, Good
    <2>. QED
      BY <1>5, <2>1, <2>2, CollectFacts
  <1>6. CASE StoreScores \/ SyncAward \/ Revoke \/ Aggregate
    <2>1. /\ stage \in {"store", "awards", "revoke", "dao", "done"}
          /\ UNCHANGED <<facts, inputs, steady, absent>>
      BY <1>6 DEF StoreScores, SyncAward, Revoke, Aggregate, job, scoring
    <2>. QED
      BY <2>1, GoodStays
  <1>7. CASE \E i \in DOMAIN loads : Fill(i) \/ \E table \in RegistryTables : AnswerOf(i, table)
    <2>1. UNCHANGED <<stage, facts, inputs, steady, absent>>
      BY <1>7 DEF AnswerOf, Fill, scoring
    <2>. QED
      BY <2>1, GoodStays
  <1>8. CASE PauseEnds
    <2>1. UNCHANGED <<stage, facts, inputs, steady, absent>>
      BY <1>8 DEF PauseEnds, scoring
    <2>. QED
      BY <2>1, GoodStays
  <1>9. CASE \E e \in Entries : Change(e)
    <2>1. /\ UNCHANGED <<stage, facts, inputs>>
          /\ steady' \subseteq steady /\ absent' \subseteq absent
      BY <1>9 DEF Change, job, scoring
    <2>. QED
      BY <2>1, GoodStays
  <1>. QED
    BY <1>1, <1>2, <1>3, <1>4, <1>5, <1>6, <1>7, <1>8, <1>9 DEF AnalysisNext, Step

LEMMA AInvStutters == ASSUME AInv, UNCHANGED analysisVars PROVE AInv'
  <1>. USE DEF analysisVars, AInv
  <1>1. WorkerTypes'
    BY DEF WorkerTypes
  <1>2. CopiesOK'
    BY DEF CopiesOK, Respects, Reads
  <1>3. FactsOK'
    BY GoodStays DEF FactsOK
  <1>4. BadgesOK'
    BY DEF BadgesOK, Active
  <1>. QED
    BY <1>1, <1>2, <1>3, <1>4

LEMMA AInvariance == AnalysisSpec => []AInv
  <1>1. AnalysisInit => AInv
    BY InitAInv
  <1>2. AInv /\ [AnalysisNext]_analysisVars => AInv'
    <2>1. AInv /\ AnalysisNext => AInv'
      BY TypesStep, CopiesStep, FactsStep, BadgesStep DEF AInv
    <2>. QED
      BY <2>1, AInvStutters
  <1>. QED
    BY <1>1, <1>2, PTL DEF AnalysisSpec

----------------------------------------------------------------------------
(* Analysis: the theorems *)

\* After the awards were written the wallet holds the badges of this scoring, whatever
\* earlier jobs left behind: syncAwards and revokeStaleBadges, one write at a time.
THEOREM BadgesFollow == AnalysisSpec => []BadgesFollowScore
  <1>1. AInv => BadgesFollowScore
    BY DEF AInv, BadgesOK, Active, BadgesFollowScore
  <1>. QED
    BY <1>1, AInvariance, PTL

\* Of the loads that classify starts for every transfer at once, whichever fills the maps
\* first, none leaves a fact without an entry that was listed all the time, nor with one
\* that never was.
THEOREM RegistryIsRespected == AnalysisSpec => []RegistryRespected
  <1>1. AInv => RegistryRespected
    <2>1. SUFFICES ASSUME AInv, NEW f \in Range(facts)
                   PROVE  /\ f.peer \in steady => f.entry = f.peer
                          /\ f.peer \in absent => f.entry = "none"
      BY DEF RegistryRespected
    <2>2. facts \in Seq(GoodFacts)
      BY <2>1 DEF AInv, FactsOK
    <2>3. f \in GoodFacts
      BY <2>1, <2>2 DEF Range
    <2>. QED
      BY <2>3 DEF GoodFacts, Good
  <1>. QED
    BY <1>1, AInvariance, PTL

\* What the profile shows as received from a DAO, by DaoAggregatorService, and what the score
\* counts of it, by buildScoringInputs, differ by the payments to the DAO or of nothing and
\* by those inferred from a router, and by nothing else, although classifier and aggregator
\* load the registry apart.
THEOREM ContributionsAreBacked == AnalysisSpec => []ContributionsBacked
  <1>1. AInv => ContributionsBacked
    <2>. DEFINE dao(f) == f.category = "dao_contribution"
                whole(f) == Incoming(f) /\ f.value = "whole"
                sent(f) == f.category = "dao_contribution" /\ ~ (Incoming(f) /\ f.value = "whole")
                routed(f) == /\ f.peer = "router" /\ "dao" \in steady
                             /\ Incoming(f) /\ f.value = "whole"
                received(f) == FromDao(f, treasuries)
    <2>1. SUFFICES ASSUME AInv, stage = "done", "dao" \in steady \cup absent
                   PROVE  Count(facts, received) + Count(facts, sent)
                              = inputs.daoPayments + Count(facts, routed)
      BY DEF ContributionsBacked, DaoRow
    <2>2. inputs.daoPayments = Count(facts, dao)
      BY <2>1 DEF AInv, FactsOK, Inputs
    <2>3. /\ Len(facts) \in Nat /\ treasuries \subseteq {"dao"}
          /\ \A i \in 1..Len(facts) : facts[i] \in GoodFacts
          /\ facts # <<>> => ("dao" \in steady <=> "dao" \in treasuries)
          /\ "dao" \notin absent \/ "dao" \notin steady
      BY <2>1 DEF AInv, WorkerTypes, CopiesOK, FactsOK
    <2>4. ASSUME NEW i \in 1..Len(facts)
          PROVE  LET f == facts[i] IN
                 /\ f.m \in Nat
                 /\ received(f) <=> (dao(f) /\ whole(f)) \/ routed(f)
                 /\ sent(f) <=> dao(f) /\ ~ whole(f)
                 /\ ~ (dao(f) /\ routed(f))
      <3>1. PICK f : f = facts[i]
        OBVIOUS
      <3>2. f \in Fact /\ Good(f) /\ f.m \in Nat
        BY <2>3, <3>1 DEF GoodFacts, Fact
      <3>3. "none" # "dao" /\ "router" # "dao" /\ "router" # "none"
        OBVIOUS
      <3>4. "dao" \in steady <=> "dao" \in treasuries
        <4>1. facts # <<>>
          OBVIOUS
        <4>. QED
          BY <2>3, <4>1
      <3>5. received(f) <=> (dao(f) /\ whole(f)) \/ routed(f)
        BY <2>1, <2>3, <3>2, <3>3, <3>4 DEF FromDao, Good
      <3>6. ~ (dao(f) /\ routed(f))
        BY <3>2, <3>3 DEF Good
      <3>. QED
        BY <3>1, <3>2, <3>5, <3>6
    <2>. DEFINE a == [i \in 1..Len(facts) |-> IF received(facts[i]) THEN facts[i].m ELSE 0]
                b == [i \in 1..Len(facts) |-> IF sent(facts[i]) THEN facts[i].m ELSE 0]
                c == [i \in 1..Len(facts) |-> IF dao(facts[i]) THEN facts[i].m ELSE 0]
                d == [i \in 1..Len(facts) |-> IF routed(facts[i]) THEN facts[i].m ELSE 0]
    <2>5. /\ Count(facts, received) = Sum(a) /\ Count(facts, sent) = Sum(b)
          /\ Count(facts, dao) = Sum(c) /\ Count(facts, routed) = Sum(d)
      BY DEF Count
    <2>. HIDE DEF received, sent, dao, routed, whole
    <2>6. /\ a \in Seq(Nat) /\ b \in Seq(Nat) /\ c \in Seq(Nat) /\ d \in Seq(Nat)
          /\ Len(a) = Len(facts) /\ Len(b) = Len(facts) /\ Len(c) = Len(facts)
          /\ Len(d) = Len(facts)
      BY <2>3, <2>4
    <2>7. \A i \in 1..Len(facts) : a[i] + b[i] = c[i] + d[i]
      BY <2>4
    <2>. HIDE DEF a, b, c, d
    <2>8. Sum(a) + Sum(b) = Sum(c) + Sum(d)
      BY <2>6, <2>7, SumsMatch
    <2>. QED
      BY <2>2, <2>5, <2>8
  <1>. QED
    BY <1>1, AInvariance, PTL

\* A vote more never lowers the reputation index of ScoringEngine, although it also adds
\* a transaction that buildScoringInputs measures the votes against.
THEOREM VotesNeverHurt == AnalysisSpec => []VotingNeverHurts
  <1>1. ASSUME AInv PROVE VotingNeverHurts
    <2>. DEFINE vote == [facts[1] EXCEPT !.dir = "out", !.peer = "governance", !.m = 1,
                                         !.category = "governance", !.entry = "governance"]
    <2>1. SUFFICES ASSUME stage = "store", facts # <<>>
                   PROVE  Score(Inputs(Append(facts, vote), Age)).index >= Score(inputs).index
      BY DEF VotingNeverHurts, Collected
    <2>2. facts \in Seq(Fact) /\ inputs = Inputs(facts, Age) /\ Age \in Nat
      <3>1. facts \in Seq(GoodFacts)
        BY <1>1 DEF AInv, FactsOK
      <3>2. facts \in Seq(Fact)
        BY <3>1 DEF GoodFacts
      <3>. QED
        BY <1>1, <2>1, <3>2, AnalysisAssumption DEF AInv, FactsOK, Parameters
    <2>3. vote \in Fact /\ vote.category = "governance" /\ vote.m = 1
      <3>1. facts[1] \in Fact
        BY <2>1, <2>2
      <3>2. "governance" \in Peers /\ "governance" \in Entries
        BY EntriesAre DEF Peers
      <3>. QED
        BY <3>1, <3>2 DEF Fact
    <2>4. PICK s \in Seq(Fact) : s = facts
      BY <2>2
    <2>5. PICK v \in Fact : v = vote
      BY <2>3
    <2>6. Append(s, v) \in Seq(Fact)
      BY <2>4, <2>5
    <2>7. OneVoteMore(Inputs(s, Age), Inputs(Append(s, v), Age))
      BY <2>2, <2>3, <2>5, InputsOfVote
    <2>8. Inputs(s, Age) \in Tallies /\ Inputs(Append(s, v), Age) \in Tallies
      BY <2>2, <2>6, InputsType
    <2>9. Score(Inputs(s, Age)).index <= Score(Inputs(Append(s, v), Age)).index
      BY <2>7, <2>8, VotesOnlyHelp
    <2>10. /\ Score(Inputs(s, Age)).index \in 0..100
           /\ Score(Inputs(Append(s, v), Age)).index \in 0..100
      BY <2>8, IndexType
    <2>. QED
      BY <2>2, <2>4, <2>5, <2>9, <2>10
  <1>. QED
    BY <1>1, AInvariance, PTL

----------------------------------------------------------------------------
(* Analysis: sums over chosen elements, and what they count *)

\* The transactions that t stands for, and those of the elements at F.
Units(t) == {t.hash} \X (1..t.m)
UnitsAt(s, F) == UNION {Units(s[i]) : i \in F}

\* Elements at F are of different transactions.
Apart(s, F) == \A i, j \in F : s[i].hash = s[j].hash => i = j

LEMMA UnitsCounted ==
    ASSUME NEW t, t.m \in Nat
    PROVE  IsFiniteSet(Units(t)) /\ Cardinality(Units(t)) = t.m
  <1>1. IsFiniteSet({t.hash}) /\ Cardinality({t.hash}) = 1
    BY FS_Singleton
  <1>2. IsFiniteSet(1..t.m) /\ Cardinality(1..t.m) = t.m
    BY FS_Interval
  <1>3. IsFiniteSet(Units(t)) /\ Cardinality(Units(t)) = 1 * t.m
    BY <1>1, <1>2, FS_Product DEF Units
  <1>. QED
    BY <1>3

\* Over elements of different transactions, the sum counts the transactions.
LEMMA SumAtCounts ==
    ASSUME NEW T, Numbered(T), NEW s \in Seq(T), NEW F \in SUBSET (1..Len(s)), Apart(s, F)
    PROVE  IsFiniteSet(UnitsAt(s, F)) /\ Cardinality(UnitsAt(s, F)) = SumAt(s, F)
  <1>. DEFINE w == [i \in 1..Len(s) |-> IF i \in F THEN s[i].m ELSE 0]
              u(n) == UnitsAt(s, F \cap 1..n)
  <1>1. Len(s) \in Nat /\ \A i \in 1..Len(s) : s[i] \in T /\ s[i].m \in Nat
    BY DEF Numbered
  <1>2. w \in Seq(Nat) /\ Len(w) = Len(s) /\ SumAt(s, F) = Sum(w)
    BY <1>1 DEF SumAt
  <1>3. \A i \in 1..Len(s) : w[i] = IF i \in F THEN s[i].m ELSE 0
    OBVIOUS
  <1>. HIDE DEF w
  <1>4. PICK g : Sums(g, w, Len(s)) /\ Sum(w) = g[Len(s)]
    BY <1>1, <1>2, SumIs
  <1>5. g[0] = 0 /\ \A n \in 1..Len(s) : g[n] = g[n - 1] + w[n]
    BY <1>1, <1>4, SumsStep
  <1>. DEFINE S == {n \in Nat : n <= Len(s) => IsFiniteSet(u(n)) /\ Cardinality(u(n)) = g[n]}
  <1>6. 0 \in S
    <2>1. u(0) = {}
      BY DEF UnitsAt
    <2>. QED
      BY <1>5, <2>1, FS_EmptySet
  <1>7. ASSUME NEW n \in S \cap Nat PROVE n + 1 \in S
    <2>1. SUFFICES ASSUME n + 1 <= Len(s)
                   PROVE  IsFiniteSet(u(n + 1)) /\ Cardinality(u(n + 1)) = g[n + 1]
      OBVIOUS
    <2>2. /\ n + 1 \in 1..Len(s) /\ n + 1 - 1 = n
          /\ IsFiniteSet(u(n)) /\ Cardinality(u(n)) = g[n]
      BY <2>1
    <2>3. g[n + 1] = g[n] + w[n + 1]
      BY <1>5, <2>2
    <2>4. CASE n + 1 \notin F
      <3>1. F \cap 1..(n + 1) = F \cap 1..n
        BY <1>1, <2>2, <2>4
      <3>2. u(n + 1) = u(n)
        BY <3>1
      <3>3. w[n + 1] = 0 /\ g[n] \in Nat
        BY <1>3, <2>2, <2>4, FS_CardinalityType
      <3>. QED
        BY <2>2, <2>3, <3>2, <3>3
    <2>5. CASE n + 1 \in F
      <3>. DEFINE v == Units(s[n + 1])
      <3>1. F \cap 1..(n + 1) = (F \cap 1..n) \cup {n + 1}
        BY <1>1, <2>2, <2>5
      <3>2. u(n + 1) = u(n) \cup v
        BY <3>1 DEF UnitsAt
      <3>3. u(n) \cap v = {}
        <4>1. SUFFICES ASSUME NEW e \in u(n) \cap v PROVE FALSE
          OBVIOUS
        <4>2. PICK i \in F \cap 1..n : e \in Units(s[i])
          BY <4>1 DEF UnitsAt
        <4>3. e[1] = s[i].hash /\ e[1] = s[n + 1].hash
          BY <4>1, <4>2 DEF Units
        <4>4. i = n + 1
          BY <2>5, <4>2, <4>3 DEF Apart
        <4>. QED
          BY <4>2, <4>4
      <3>4. IsFiniteSet(v) /\ Cardinality(v) = s[n + 1].m
        BY <1>1, <2>2, UnitsCounted
      <3>5. /\ IsFiniteSet(u(n) \cup v)
            /\ Cardinality(u(n) \cup v) = Cardinality(u(n)) + Cardinality(v) - Cardinality(u(n) \cap v)
        BY <2>2, <3>4, FS_Union
      <3>6. Cardinality(u(n) \cap v) = 0
        BY <3>3, FS_EmptySet
      <3>7. w[n + 1] = s[n + 1].m /\ s[n + 1].m \in Nat /\ g[n] \in Nat
        BY <1>1, <1>3, <2>2, <2>5, FS_CardinalityType
      <3>. HIDE DEF S, u, v
      <3>8. Cardinality(u(n) \cup v) = g[n] + s[n + 1].m
        BY <2>2, <3>4, <3>5, <3>6, <3>7
      <3>. QED
        BY <2>2, <2>3, <3>2, <3>5, <3>7, <3>8
    <2>. QED
      BY <2>4, <2>5
  <1>. HIDE DEF S
  <1>8. Nat \subseteq S
    BY <1>6, <1>7, EveryNat
  <1>9. IsFiniteSet(u(Len(s))) /\ Cardinality(u(Len(s))) = g[Len(s)]
    BY <1>1, <1>8 DEF S
  <1>10. F \cap 1..Len(s) = F
    OBVIOUS
  <1>. QED
    BY <1>2, <1>4, <1>9, <1>10

\* What is chosen of K sums to what K has at the positions.
LEMMA ChosenCount ==
    ASSUME NEW T, Numbered(T), NEW s \in Seq(T), NEW P, NEW K
    PROVE  CountIn(Chosen(s, P), K) = SumAt(s, {i \in 1..Len(s) : i \in P /\ s[i] \in K})
  <1>0. PICK g : Chosen(s, P) = g[Len(s)] /\ Grows(g, s, P, T)
    BY ChosenSteps
  <1>1. /\ Chosen(s, P) = g[Len(s)] /\ g[0] = <<>>
        /\ \A n \in 1..Len(s) : g[n] = IF n \in P THEN Append(g[n - 1], s[n]) ELSE g[n - 1]
        /\ \A n \in 0..Len(s) : g[n] \in Seq(T)
    BY <1>0 DEF Grows
  <1>. DEFINE F == {i \in 1..Len(s) : i \in P /\ s[i] \in K}
              w == [i \in 1..Len(s) |-> IF i \in F THEN s[i].m ELSE 0]
  <1>2. Len(s) \in Nat /\ \A i \in 1..Len(s) : s[i] \in T /\ s[i].m \in Nat
    BY DEF Numbered
  <1>3. w \in Seq(Nat) /\ Len(w) = Len(s) /\ SumAt(s, F) = Sum(w)
    <2>1. SumAt(s, F) = Sum(w)
      BY DEF SumAt
    <2>2. \A i \in 1..Len(s) : (IF i \in F THEN s[i].m ELSE 0) \in Nat
      BY <1>2
    <2>. HIDE DEF F
    <2>. QED
      BY <1>2, <2>1, <2>2
  <1>4. \A i \in 1..Len(s) : w[i] = IF i \in P /\ s[i] \in K THEN s[i].m ELSE 0
    OBVIOUS
  <1>. HIDE DEF w
  <1>5. PICK h : Sums(h, w, Len(s)) /\ Sum(w) = h[Len(s)]
    BY <1>2, <1>3, SumIs
  <1>6. h[0] = 0 /\ \A n \in 1..Len(s) : h[n] = h[n - 1] + w[n]
    BY <1>2, <1>5, SumsStep
  <1>. DEFINE S == {n \in Nat : n <= Len(s) => CountIn(g[n], K) = h[n] /\ h[n] \in Nat}
  <1>7. 0 \in S
    <2>1. CountIn(<<>>, K) = 0
      <3>1. CountIn(<<>>, K) = Sum(<<>>)
        BY DEF CountIn
      <3>2. Len(<<>>) = 0
        OBVIOUS
      <3>3. PICK e : Sums(e, <<>>, 0) /\ Sum(<<>>) = e[0]
        BY <3>2, SumIs
      <3>. QED
        BY <3>1, <3>3, SumsStep
    <2>. QED
      BY <1>1, <1>6, <2>1
  <1>8. ASSUME NEW n \in S \cap Nat PROVE n + 1 \in S
    <2>1. SUFFICES ASSUME n + 1 <= Len(s)
                   PROVE  CountIn(g[n + 1], K) = h[n + 1] /\ h[n + 1] \in Nat
      OBVIOUS
    <2>2. /\ n + 1 \in 1..Len(s) /\ n + 1 - 1 = n /\ n \in 0..Len(s)
          /\ CountIn(g[n], K) = h[n] /\ h[n] \in Nat
      BY <2>1
    <2>3. h[n + 1] = h[n] + w[n + 1] /\ s[n + 1] \in T /\ s[n + 1].m \in Nat
      BY <1>2, <1>6, <2>2
    <2>4. g[n + 1] = (IF n + 1 \in P THEN Append(g[n], s[n + 1]) ELSE g[n]) /\ g[n] \in Seq(T)
      BY <1>1, <2>2
    <2>5. w[n + 1] = IF n + 1 \in P /\ s[n + 1] \in K THEN s[n + 1].m ELSE 0
      BY <1>4, <2>2
    <2>6. CountIn(Append(g[n], s[n + 1]), K)
              = CountIn(g[n], K) + (IF s[n + 1] \in K THEN s[n + 1].m ELSE 0)
      BY <2>3, <2>4, CountAppend
    <2>. HIDE DEF S
    <2>7. CASE n + 1 \in P
      BY <2>2, <2>3, <2>4, <2>5, <2>6, <2>7
    <2>8. CASE n + 1 \notin P
      BY <2>2, <2>3, <2>4, <2>5, <2>8
    <2>. QED
      BY <2>7, <2>8
  <1>. HIDE DEF S
  <1>9. Nat \subseteq S
    BY <1>7, <1>8, EveryNat
  <1>10. CountIn(g[Len(s)], K) = h[Len(s)]
    BY <1>2, <1>9 DEF S
  <1>. QED
    BY <1>1, <1>3, <1>5, <1>10

\* e tells where in s each element of c was chosen, in order, from P up to n.
Places(e, c, s, P, n) ==
    /\ e \in [1..Len(c) -> P \cap 1..n]
    /\ \A j \in 1..Len(c) : c[j] = s[e[j]]
    /\ \A i \in P \cap 1..n : \E j \in 1..Len(c) : e[j] = i
    /\ \A j, k \in 1..Len(c) : j < k => e[j] < e[k]

LEMMA ChosenPlaces ==
    ASSUME NEW T, NEW s \in Seq(T), NEW P
    PROVE  \E e : Places(e, Chosen(s, P), s, P, Len(s))
  <1>0. PICK g : Chosen(s, P) = g[Len(s)] /\ Grows(g, s, P, T)
    BY ChosenSteps
  <1>1. /\ Chosen(s, P) = g[Len(s)] /\ g[0] = <<>>
        /\ \A n \in 1..Len(s) : g[n] = IF n \in P THEN Append(g[n - 1], s[n]) ELSE g[n - 1]
        /\ \A n \in 0..Len(s) : g[n] \in Seq(T)
    BY <1>0 DEF Grows
  <1>2. Len(s) \in Nat
    OBVIOUS
  <1>. DEFINE S == {n \in Nat : n <= Len(s) => \E e : Places(e, g[n], s, P, n)}
  <1>3. 0 \in S
    <2>1. Len(<<>>) = 0
      OBVIOUS
    <2>2. 1..0 = {}
      OBVIOUS
    <2>3. Places([j \in {} |-> 0], <<>>, s, P, 0)
      BY <2>1, <2>2 DEF Places
    <2>. QED
      BY <1>1, <2>3
  <1>4. ASSUME NEW n \in S \cap Nat PROVE n + 1 \in S
    <2>1. SUFFICES ASSUME n + 1 <= Len(s) PROVE \E e : Places(e, g[n + 1], s, P, n + 1)
      OBVIOUS
    <2>2. n + 1 \in 1..Len(s) /\ n + 1 - 1 = n /\ n \in 0..Len(s) /\ s[n + 1] \in T
      BY <2>1
    <2>3. PICK e : Places(e, g[n], s, P, n)
      BY <2>1
    <2>4. g[n + 1] = (IF n + 1 \in P THEN Append(g[n], s[n + 1]) ELSE g[n]) /\ g[n] \in Seq(T)
      BY <1>1, <2>2
    <2>. HIDE DEF S
    <2>5. CASE n + 1 \notin P
      <3>1. P \cap 1..(n + 1) = P \cap 1..n
        BY <2>2, <2>5
      <3>. QED
        BY <2>3, <2>4, <2>5, <3>1 DEF Places
    <2>6. CASE n + 1 \in P
      <3>1. PICK c \in Seq(T) : c = g[n]
        BY <2>4
      <3>2. PICK k \in Nat : k = Len(c)
        OBVIOUS
      <3>3. Append(c, s[n + 1]) \in Seq(T)
        BY <2>2
      <3>4. PICK d \in Seq(T) : d = Append(c, s[n + 1])
        BY <3>3
      <3>5. /\ Len(d) = k + 1 /\ d[k + 1] = s[n + 1]
            /\ \A j \in 1..k : d[j] = c[j]
        BY <2>2, <3>2, <3>4
      <3>6. g[n + 1] = d
        BY <2>4, <2>6, <3>1, <3>4
      <3>7. /\ e \in [1..k -> P \cap 1..n]
            /\ \A j \in 1..k : c[j] = s[e[j]]
            /\ \A i \in P \cap 1..n : \E j \in 1..k : e[j] = i
            /\ \A j, l \in 1..k : j < l => e[j] < e[l]
        BY <2>3, <3>1, <3>2 DEF Places
      <3>. DEFINE f == [j \in 1..(k + 1) |-> IF j = k + 1 THEN n + 1 ELSE e[j]]
      <3>8. P \cap 1..(n + 1) = (P \cap 1..n) \cup {n + 1}
        BY <2>2, <2>6
      <3>9. f[k + 1] = n + 1 /\ \A j \in 1..k : f[j] = e[j] /\ f[j] # n + 1
        BY <2>2, <3>7
      <3>10. 1..(k + 1) = 1..k \cup {k + 1}
        OBVIOUS
      <3>11. f \in [1..(k + 1) -> P \cap 1..(n + 1)]
        BY <3>7, <3>8, <3>10
      <3>. HIDE DEF f
      <3>12. \A j \in 1..(k + 1) : d[j] = s[f[j]]
        BY <3>5, <3>7, <3>9, <3>10
      <3>13. \A i \in P \cap 1..(n + 1) : \E j \in 1..(k + 1) : f[j] = i
        BY <3>7, <3>8, <3>9, <3>10
      <3>14. \A j, l \in 1..(k + 1) : j < l => f[j] < f[l]
        <4>1. TAKE j, l \in 1..(k + 1)
        <4>2. HAVE j < l
        <4>3. j \in 1..k /\ e[j] \in 1..n
          BY <3>2, <3>7, <4>2
        <4>4. CASE l = k + 1
          BY <2>2, <3>9, <4>3, <4>4
        <4>5. CASE l # k + 1
          <5>1. l \in 1..k
            BY <3>10, <4>5
          <5>. QED
            BY <3>7, <3>9, <4>2, <4>3, <5>1
        <4>. QED
          BY <4>4, <4>5
      <3>15. Places(f, d, s, P, n + 1)
        BY <3>5, <3>11, <3>12, <3>13, <3>14 DEF Places
      <3>. QED
        BY <3>6, <3>15
    <2>. QED
      BY <2>5, <2>6
  <1>. HIDE DEF S
  <1>5. Nat \subseteq S
    BY <1>3, <1>4, EveryNat
  <1>. QED
    BY <1>1, <1>2, <1>5 DEF S

\* Take keeps up to n, and everything if there is no more.
LEMMA TakeCounts ==
    ASSUME NEW T, Cuttable(T), NEW s \in Seq(T), NEW n \in Nat, NEW K
    PROVE  /\ Total(Take(s, n)) = Smaller(n, Total(s))
           /\ Total(s) <= n => CountIn(Take(s, n), K) = CountIn(s, K)
  <1>1. Numbered(T)
    BY DEF Cuttable, Numbered
  <1>2. PICK c \in Seq(T) : CutOf(c, s, n)
    BY TakeIsCut
  <1>3. Len(c) = Len(s) /\ Len(c) \in Nat /\ \A i \in 1..Len(c) : c[i] \in T /\ c[i].m \in Nat
    BY <1>1, <1>2 DEF CutOf, Numbered
  <1>4. ASSUME NEW L PROVE CountIn(Take(s, n), L) = CountIn(c, L)
    <2>. DEFINE F == {i \in 1..Len(c) : i \in {j \in 1..Len(s) : c[j].m > 0} /\ c[i] \in L}
    <2>1. CountIn(Take(s, n), L) = SumAt(c, F)
      <3>1. Take(s, n) = Chosen(c, {i \in 1..Len(s) : c[i].m > 0})
        BY <1>2 DEF CutOf
      <3>. QED
        BY <1>1, <3>1, ChosenCount
    <2>2. [i \in 1..Len(c) |-> IF i \in F THEN c[i].m ELSE 0]
              = [i \in 1..Len(c) |-> IF c[i] \in L THEN c[i].m ELSE 0]
      BY <1>3
    <2>3. SumAt(c, F) = CountIn(c, L)
      <3>. HIDE DEF F
      <3>. QED
        BY <2>2 DEF SumAt, CountIn
    <2>. QED
      BY <2>1, <2>3
  <1>5. CountIn(Take(s, n), T) = CountIn(c, T)
    BY <1>4
  <1>6. Take(s, n) \in Seq(T)
    BY <1>2, ChosenType DEF CutOf
  <1>7. Total(Take(s, n)) = Total(c)
    BY <1>1, <1>5, <1>6, TotalIs
  <1>8. Total(c) = Smaller(n, Total(s)) /\ (Total(s) <= n => c = s)
    BY <1>2 DEF CutOf
  <1>9. CountIn(Take(s, n), K) = CountIn(c, K)
    BY <1>4
  <1>. QED
    BY <1>7, <1>8, <1>9

----------------------------------------------------------------------------
(* Analysis: what the two calls return *)

\* Of transfers of c at the positions O, each number perhaps cut.
PartOf(p, c, O) ==
    /\ p \in Seq(Parts)
    /\ \A j \in 1..Len(p) : \E i \in O : p[j].hash = c[i].hash /\ p[j].m <= c[i].m

\* A page has part of them, and all of them in their order unless they are too many.
LEMMA PageIs ==
    ASSUME NEW c \in Seq(Transfers), NEW O \in SUBSET (1..Len(c)),
           NEW p, p = Take(Chosen(c, O), 1000)
    PROVE  /\ PartOf(p, c, O)
           /\ SumAt(c, O) <= 1000 => \E e : Places(e, p, c, O, Len(c))
  <1>1. c \in Seq(Parts) /\ \A i \in 1..Len(c) : c[i] \in Parts /\ c[i].m > 0
    <2>1. c \in Seq(Parts)
      BY TransfersAreParts
    <2>2. \A t \in Transfers : t.m > 0
      BY DEF Transfers
    <2>. QED
      BY <2>1, <2>2
  <1>2. O \cap 1..Len(c) = O
    OBVIOUS
  <1>3. PICK s : s = Chosen(c, O)
    OBVIOUS
  <1>4. s \in Seq(Parts) /\ Len(s) \in Nat
    <2>1. s \in Seq(Parts)
      BY <1>1, <1>3, ChosenType
    <2>. QED
      BY <2>1
  <1>5. PICK e : Places(e, s, c, O, Len(c))
    BY <1>1, <1>3, ChosenPlaces
  <1>6. /\ \A j \in 1..Len(s) : e[j] \in O /\ s[j] = c[e[j]] /\ s[j].m > 0
        /\ \A i \in O : \E j \in 1..Len(s) : e[j] = i
        /\ \A j, k \in 1..Len(s) : j < k => e[j] < e[k]
    BY <1>1, <1>2, <1>5 DEF Places
  <1>7. PICK d \in Seq(Parts) : CutOf(d, s, 1000)
    <2>1. Cuttable(Parts) /\ s \in Seq(Parts) /\ 1000 \in Nat
      BY <1>4, CuttableParts
    <2>. QED
      BY <2>1, TakeIsCut
  <1>. DEFINE P == {i \in 1..Len(s) : d[i].m > 0}
  <1>8. /\ Len(d) = Len(s) /\ p = Chosen(d, P)
        /\ \A i \in 1..Len(s) : d[i].hash = s[i].hash /\ d[i].m <= s[i].m
        /\ Total(s) <= 1000 => d = s
    BY <1>3, <1>7 DEF CutOf
  <1>. HIDE DEF P
  <1>9. p \in Seq(Parts)
    BY <1>8, ChosenType
  <1>10. PICK f : Places(f, p, d, P, Len(d))
    BY <1>8, ChosenPlaces
  <1>11. /\ \A j \in 1..Len(p) : f[j] \in P /\ f[j] \in 1..Len(s) /\ p[j] = d[f[j]]
         /\ \A i \in P : \E j \in 1..Len(p) : f[j] = i
         /\ \A j, k \in 1..Len(p) : j < k => f[j] < f[k]
    <2>1. P \cap 1..Len(d) = P /\ P \subseteq 1..Len(s)
      BY <1>8 DEF P
    <2>. QED
      BY <1>10, <2>1 DEF Places
  <1>12. PartOf(p, c, O)
    <2>1. ASSUME NEW j \in 1..Len(p) PROVE \E i \in O : p[j].hash = c[i].hash /\ p[j].m <= c[i].m
      <3>1. f[j] \in 1..Len(s) /\ p[j] = d[f[j]]
        BY <1>11
      <3>2. p[j].hash = s[f[j]].hash /\ p[j].m <= s[f[j]].m
        BY <1>8, <3>1
      <3>3. e[f[j]] \in O /\ s[f[j]] = c[e[f[j]]]
        BY <1>6, <3>1
      <3>4. PICK i \in O : i = e[f[j]]
        BY <3>3
      <3>5. p[j].hash = c[i].hash /\ p[j].m <= c[i].m
        BY <3>2, <3>3, <3>4
      <3>. QED
        BY <3>5
    <2>. QED
      BY <1>9, <2>1 DEF PartOf
  <1>13. ASSUME SumAt(c, O) <= 1000 PROVE \E h : Places(h, p, c, O, Len(c))
    <2>1. Total(s) = SumAt(c, O)
      <3>1. Total(s) = CountIn(s, Parts)
        BY <1>4, CuttableParts, TotalIs
      <3>2. CountIn(s, Parts) = SumAt(c, {i \in 1..Len(c) : i \in O /\ c[i] \in Parts})
        BY <1>1, <1>3, CuttableParts, ChosenCount
      <3>3. {i \in 1..Len(c) : i \in O /\ c[i] \in Parts} = O
        BY <1>1
      <3>. QED
        BY <3>1, <3>2, <3>3
    <2>2. d = s
      BY <1>8, <1>13, <2>1
    <2>3. \A k \in 1..Len(s) : k \in P
      BY <1>6, <2>2 DEF P
    <2>. DEFINE h == [j \in 1..Len(p) |-> e[f[j]]]
    <2>4. h \in [1..Len(p) -> O \cap 1..Len(c)] /\ \A j \in 1..Len(p) : p[j] = c[h[j]]
      <3>1. ASSUME NEW j \in 1..Len(p) PROVE h[j] \in O /\ p[j] = c[h[j]]
        <4>1. f[j] \in 1..Len(s) /\ p[j] = s[f[j]] /\ h[j] = e[f[j]]
          BY <1>11, <2>2
        <4>. QED
          BY <1>6, <4>1
      <3>. HIDE DEF h
      <3>2. h \in [1..Len(p) -> O]
        <4>1. h = [j \in 1..Len(p) |-> h[j]]
          BY DEF h
        <4>. QED
          BY <3>1, <4>1
      <3>. QED
        BY <1>2, <3>1, <3>2
    <2>5. \A i \in O : \E j \in 1..Len(p) : h[j] = i
      <3>1. TAKE i \in O
      <3>2. PICK k \in 1..Len(s) : e[k] = i
        BY <1>6
      <3>3. PICK j \in 1..Len(p) : f[j] = k
        BY <1>11, <2>3
      <3>. QED
        BY <3>2, <3>3
    <2>6. \A j, k \in 1..Len(p) : j < k => h[j] < h[k]
      BY <1>6, <1>11
    <2>. HIDE DEF h
    <2>7. Places(h, p, c, O, Len(c))
      BY <1>2, <2>4, <2>5, <2>6 DEF Places
    <2>. QED
      BY <2>7
  <1>. QED
    BY <1>12, <1>13

\* The positions of s at which a transaction is seen for the first time.
Firsts(s) == {i \in 1..Len(s) : \A j \in 1..(i - 1) : Key(s[j]) # Key(s[i])}

LEMMA FirstsAre ==
    ASSUME NEW T, NEW s \in Seq(T)
    PROVE  /\ Firsts(s) \subseteq 1..Len(s) /\ Apart(s, Firsts(s))
           /\ \A i \in 1..Len(s) : \E j \in Firsts(s) : j <= i /\ s[j].hash = s[i].hash
  <1>1. Len(s) \in Nat
    OBVIOUS
  <1>2. Firsts(s) \subseteq 1..Len(s)
    BY DEF Firsts
  <1>3. Apart(s, Firsts(s))
    <2>1. SUFFICES ASSUME NEW i \in Firsts(s), NEW j \in Firsts(s), s[i].hash = s[j].hash
                   PROVE  i = j
      BY DEF Apart
    <2>2. ~ (i < j) /\ ~ (j < i)
      BY <1>1, <2>1 DEF Firsts, Key
    <2>. QED
      BY <1>1, <1>2, <2>2
  <1>4. ASSUME NEW i \in 1..Len(s) PROVE \E j \in Firsts(s) : j <= i /\ s[j].hash = s[i].hash
    <2>. DEFINE S == {j \in 1..i : s[j].hash = s[i].hash}
    <2>1. S \in SUBSET Nat /\ i \in S
      BY <1>1
    <2>2. PICK j \in S : \A k \in S : j <= k
      BY <2>1, LeastExists
    <2>3. j \in 1..Len(s) /\ j <= i /\ s[j].hash = s[i].hash
      BY <1>1, <2>2
    <2>4. ASSUME NEW k \in 1..(j - 1), s[k].hash = s[j].hash PROVE FALSE
      <3>1. k \in S /\ k < j
        BY <1>1, <2>2, <2>3, <2>4
      <3>. QED
        BY <2>2, <2>3, <3>1
    <2>5. j \in Firsts(s)
      BY <2>3, <2>4 DEF Firsts, Key
    <2>. QED
      BY <2>3, <2>5
  <1>. QED
    BY <1>2, <1>3, <1>4

Outs(c) == {i \in 1..Len(c) : Outgoing(c[i])}
Ins(c) == {i \in 1..Len(c) : Incoming(c[i])}
FirstSelves(s) == {i \in Firsts(s) : s[i].dir = "self"}

\* The positions of transfers to oneself that are the first to leave the wallet.
Returning(c) ==
    {i \in 1..Len(c) : /\ c[i].dir = "self"
                       /\ \A j \in 1..(i - 1) : c[j].hash = c[i].hash => c[j].dir = "in"}

LEMMA GroupsAlike ==
    ASSUME NEW c \in Seq(Transfers), Grouped(c)
    PROVE  /\ 1..Len(c) = Outs(c) \cup Ins(c) /\ Apart(c, Returning(c))
           /\ \A i, j \in 1..Len(c) : c[i].hash = c[j].hash => c[i].m = c[j].m
           /\ \A i \in 1..Len(c) : c[i].m \in Nat /\ c[i].dir \in {"in", "out", "self"}
  <1>1. Len(c) \in Nat /\ \A i \in 1..Len(c) : c[i].m \in Nat /\ c[i].dir \in {"in", "out", "self"}
    <2>1. \A i \in 1..Len(c) : c[i] \in Transfers
      OBVIOUS
    <2>. QED
      BY <2>1 DEF Transfers
  <1>2. \A i, j \in 1..Len(c) : c[i].hash = c[j].hash => c[i].m = c[j].m
    BY DEF Grouped
  <1>3. Apart(c, Returning(c))
    <2>1. SUFFICES ASSUME NEW i \in Returning(c), NEW j \in Returning(c), c[i].hash = c[j].hash
                   PROVE  i = j
      BY DEF Apart
    <2>2. /\ i \in 1..Len(c) /\ j \in 1..Len(c) /\ c[i].dir = "self" /\ c[j].dir = "self"
          /\ \A k \in 1..(i - 1) : c[k].hash = c[i].hash => c[k].dir = "in"
          /\ \A k \in 1..(j - 1) : c[k].hash = c[j].hash => c[k].dir = "in"
      BY DEF Returning
    <2>3. ~ (i < j) /\ ~ (j < i)
      BY <1>1, <2>1, <2>2
    <2>. QED
      BY <1>1, <2>2, <2>3
  <1>. QED
    BY <1>1, <1>2, <1>3 DEF Outs, Ins, Outgoing, Incoming

\* The sum over the first transfers of a chain counts its transactions.
LEMMA ChainCounted ==
    ASSUME NEW c \in Seq(Transfers), Grouped(c)
    PROVE  /\ IsFiniteSet(UnitsAt(c, 1..Len(c)))
           /\ Cardinality(UnitsAt(c, 1..Len(c))) = SumAt(c, Firsts(c))
           /\ SumAt(c, Firsts(c)) \in Nat
  <1>. DEFINE U == UnitsAt(c, 1..Len(c))
  <1>1. c \in Seq(Parts) /\ Numbered(Parts)
    BY TransfersAreParts, CuttableParts
  <1>2. /\ Firsts(c) \subseteq 1..Len(c) /\ Apart(c, Firsts(c))
        /\ \A i \in 1..Len(c) : \E j \in Firsts(c) : j <= i /\ c[j].hash = c[i].hash
    BY FirstsAre
  <1>3. UnitsAt(c, Firsts(c)) = U
    <2>1. UnitsAt(c, Firsts(c)) \subseteq U
      BY <1>2 DEF UnitsAt
    <2>2. ASSUME NEW e \in U PROVE e \in UnitsAt(c, Firsts(c))
      <3>1. PICK i \in 1..Len(c) : e \in Units(c[i])
        BY DEF UnitsAt
      <3>2. PICK j \in Firsts(c) : c[j].hash = c[i].hash
        BY <1>2
      <3>3. c[j].m = c[i].m
        BY <1>2, <3>2, GroupsAlike
      <3>4. e \in Units(c[j])
        BY <3>1, <3>2, <3>3 DEF Units
      <3>. QED
        BY <3>4 DEF UnitsAt
    <2>. QED
      BY <2>1, <2>2
  <1>4. IsFiniteSet(U) /\ Cardinality(U) = SumAt(c, Firsts(c))
    <2>1. IsFiniteSet(UnitsAt(c, Firsts(c))) /\ Cardinality(UnitsAt(c, Firsts(c))) = SumAt(c, Firsts(c))
      BY <1>1, <1>2, SumAtCounts
    <2>. QED
      BY <1>3, <2>1
  <1>5. Cardinality(U) \in Nat
    BY <1>4, FS_CardinalityType
  <1>. QED
    BY <1>4, <1>5

\* Where the transfers of both are in what is fetched.
LEMMA BothCalls ==
    ASSUME NEW p \in Seq(Parts), NEW q \in Seq(Parts)
    PROVE  /\ p \o q \in Seq(Parts) /\ Len(p \o q) = Len(p) + Len(q) /\ Len(p) \in Nat /\ Len(q) \in Nat
           /\ \A i \in 1..Len(p) : i \in 1..Len(p \o q) /\ (p \o q)[i] = p[i]
           /\ \A i \in 1..Len(q) : Len(p) + i \in 1..Len(p \o q) /\ (p \o q)[Len(p) + i] = q[i]
           /\ \A i \in 1..Len(p \o q) :
                 \/ i \in 1..Len(p) /\ (p \o q)[i] = p[i]
                 \/ i - Len(p) \in 1..Len(q) /\ (p \o q)[i] = q[i - Len(p)]
  OBVIOUS

\* Cut or not, the pages have no transaction that the chain has not.
LEMMA NoMore ==
    ASSUME NEW c \in Seq(Transfers), Grouped(c), NEW p, NEW q,
           PartOf(p, c, Outs(c)), PartOf(q, c, Ins(c))
    PROVE  /\ p \o q \in Seq(Parts)
           /\ SumAt(p \o q, Firsts(p \o q)) \in Nat
           /\ SumAt(p \o q, Firsts(p \o q)) <= SumAt(c, Firsts(c))
  <1>1. p \in Seq(Parts) /\ q \in Seq(Parts)
    BY DEF PartOf
  <1>2. PICK x \in Seq(Parts) : x = p \o q
    BY <1>1, BothCalls
  <1>3. \A i \in 1..Len(x) : \E k \in 1..Len(c) : x[i].hash = c[k].hash /\ x[i].m <= c[k].m
    <2>1. TAKE i \in 1..Len(x)
    <2>2. (\E j \in 1..Len(p) : x[i] = p[j]) \/ (\E j \in 1..Len(q) : x[i] = q[j])
      BY <1>1, <1>2, BothCalls
    <2>3. /\ \A j \in 1..Len(p) : \E k \in Outs(c) : p[j].hash = c[k].hash /\ p[j].m <= c[k].m
          /\ \A j \in 1..Len(q) : \E k \in Ins(c) : q[j].hash = c[k].hash /\ q[j].m <= c[k].m
      BY DEF PartOf
    <2>4. Outs(c) \subseteq 1..Len(c) /\ Ins(c) \subseteq 1..Len(c)
      BY DEF Outs, Ins
    <2>5. CASE \E j \in 1..Len(p) : x[i] = p[j]
      <3>1. PICK j \in 1..Len(p) : x[i] = p[j]
        BY <2>5
      <3>. QED
        BY <2>3, <2>4, <3>1
    <2>6. CASE \E j \in 1..Len(q) : x[i] = q[j]
      <3>1. PICK j \in 1..Len(q) : x[i] = q[j]
        BY <2>6
      <3>. QED
        BY <2>3, <2>4, <3>1
    <2>. QED
      BY <2>2, <2>5, <2>6
  <1>4. Firsts(x) \subseteq 1..Len(x) /\ Apart(x, Firsts(x))
    BY FirstsAre
  <1>5. \A i \in 1..Len(x) : x[i].m \in Nat
    BY CuttableParts DEF Numbered
  <1>6. UnitsAt(x, Firsts(x)) \subseteq UnitsAt(c, 1..Len(c))
    <2>1. SUFFICES ASSUME NEW u \in UnitsAt(x, Firsts(x)) PROVE u \in UnitsAt(c, 1..Len(c))
      OBVIOUS
    <2>2. PICK j \in Firsts(x) : u \in Units(x[j])
      BY <2>1 DEF UnitsAt
    <2>3. PICK k \in 1..Len(c) : x[j].hash = c[k].hash /\ x[j].m <= c[k].m
      BY <1>3, <1>4
    <2>4. x[j].m \in Nat /\ c[k].m \in Nat
      BY <1>4, <1>5, GroupsAlike
    <2>5. u \in Units(c[k])
      BY <2>2, <2>3, <2>4 DEF Units
    <2>. QED
      BY <2>5 DEF UnitsAt
  <1>7. IsFiniteSet(UnitsAt(x, Firsts(x))) /\ Cardinality(UnitsAt(x, Firsts(x))) = SumAt(x, Firsts(x))
    BY <1>4, CuttableParts, SumAtCounts
  <1>8. /\ IsFiniteSet(UnitsAt(c, 1..Len(c)))
        /\ Cardinality(UnitsAt(c, 1..Len(c))) = SumAt(c, Firsts(c))
    BY ChainCounted
  <1>9. Cardinality(UnitsAt(x, Firsts(x))) <= Cardinality(UnitsAt(c, 1..Len(c)))
    BY <1>6, <1>8, FS_Subset
  <1>10. Cardinality(UnitsAt(x, Firsts(x))) \in Nat
    BY <1>7, FS_CardinalityType
  <1>. QED
    BY <1>2, <1>7, <1>8, <1>9, <1>10

\* Without a full page nothing is missing, and a transaction is a transfer to oneself
\* if the first that leaves the wallet is one, since the outgoing page comes first.
LEMMA PagesComplete ==
    ASSUME NEW c \in Seq(Transfers), Grouped(c), NEW p \in Seq(Parts), NEW q \in Seq(Parts),
           NEW e, Places(e, p, c, Outs(c), Len(c)), NEW f, Places(f, q, c, Ins(c), Len(c))
    PROVE  /\ SumAt(p \o q, Firsts(p \o q)) = SumAt(c, Firsts(c))
           /\ SumAt(p \o q, FirstSelves(p \o q)) = SumAt(c, Returning(c))
           /\ SumAt(c, Returning(c)) \in Nat
  <1>1. PICK x \in Seq(Parts) : x = p \o q
    BY BothCalls
  <1>2. /\ Len(p) \in Nat /\ Len(q) \in Nat /\ Len(x) = Len(p) + Len(q) /\ Len(c) \in Nat
        /\ \A i \in 1..Len(p) : i \in 1..Len(x) /\ x[i] = p[i]
        /\ \A i \in 1..Len(q) : Len(p) + i \in 1..Len(x) /\ x[Len(p) + i] = q[i]
        /\ \A i \in 1..Len(x) : \/ i \in 1..Len(p) /\ x[i] = p[i]
                                \/ i - Len(p) \in 1..Len(q) /\ x[i] = q[i - Len(p)]
    BY <1>1, BothCalls
  <1>3. /\ \A j \in 1..Len(p) : e[j] \in Outs(c) /\ e[j] \in 1..Len(c) /\ p[j] = c[e[j]]
        /\ \A i \in Outs(c) : \E j \in 1..Len(p) : e[j] = i
        /\ \A j, k \in 1..Len(p) : j < k => e[j] < e[k]
    <2>1. Outs(c) \cap 1..Len(c) = Outs(c)
      BY DEF Outs
    <2>. QED
      BY <2>1 DEF Places
  <1>4. /\ \A j \in 1..Len(q) : f[j] \in Ins(c) /\ f[j] \in 1..Len(c) /\ q[j] = c[f[j]]
        /\ \A i \in Ins(c) : \E j \in 1..Len(q) : f[j] = i
    <2>1. Ins(c) \cap 1..Len(c) = Ins(c)
      BY DEF Ins
    <2>. QED
      BY <2>1 DEF Places
  <1>5. \A i \in 1..Len(x) : \E k \in 1..Len(c) : x[i] = c[k]
    <2>1. TAKE i \in 1..Len(x)
    <2>2. CASE i \in 1..Len(p) /\ x[i] = p[i]
      BY <1>3, <2>2
    <2>3. CASE i - Len(p) \in 1..Len(q) /\ x[i] = q[i - Len(p)]
      BY <1>4, <2>3
    <2>. QED
      BY <1>2, <2>2, <2>3
  <1>6. \A k \in 1..Len(c) : \E i \in 1..Len(x) : x[i] = c[k]
    <2>1. TAKE k \in 1..Len(c)
    <2>2. k \in Outs(c) \/ k \in Ins(c)
      BY GroupsAlike
    <2>3. CASE k \in Outs(c)
      <3>1. PICK j \in 1..Len(p) : e[j] = k
        BY <1>3, <2>3
      <3>2. p[j] = c[k] /\ j \in 1..Len(x) /\ x[j] = p[j]
        BY <1>2, <1>3, <3>1
      <3>. QED
        BY <3>2
    <2>4. CASE k \in Ins(c)
      <3>1. PICK j \in 1..Len(q) : f[j] = k
        BY <1>4, <2>4
      <3>2. q[j] = c[k] /\ Len(p) + j \in 1..Len(x) /\ x[Len(p) + j] = q[j]
        BY <1>2, <1>4, <3>1
      <3>. QED
        BY <3>2
    <2>. QED
      BY <2>2, <2>3, <2>4
  <1>7. /\ Firsts(x) \subseteq 1..Len(x) /\ Apart(x, Firsts(x))
        /\ \A i \in 1..Len(x) : \E j \in Firsts(x) : j <= i /\ x[j].hash = x[i].hash
    BY FirstsAre
  <1>8. UnitsAt(x, Firsts(x)) = UnitsAt(c, 1..Len(c))
    <2>1. ASSUME NEW u \in UnitsAt(x, Firsts(x)) PROVE u \in UnitsAt(c, 1..Len(c))
      <3>1. PICK j \in Firsts(x) : u \in Units(x[j])
        BY DEF UnitsAt
      <3>2. PICK k \in 1..Len(c) : x[j] = c[k]
        BY <1>5, <1>7
      <3>. QED
        BY <3>1, <3>2 DEF UnitsAt
    <2>2. ASSUME NEW u \in UnitsAt(c, 1..Len(c)) PROVE u \in UnitsAt(x, Firsts(x))
      <3>1. PICK k \in 1..Len(c) : u \in Units(c[k])
        BY DEF UnitsAt
      <3>2. PICK i \in 1..Len(x) : x[i] = c[k]
        BY <1>6
      <3>3. PICK j \in Firsts(x) : x[j].hash = x[i].hash
        BY <1>7
      <3>4. PICK l \in 1..Len(c) : x[j] = c[l]
        BY <1>5, <1>7
      <3>5. c[l].m = c[k].m
        BY <3>2, <3>3, <3>4, GroupsAlike
      <3>6. u \in Units(x[j])
        BY <3>1, <3>2, <3>3, <3>4, <3>5 DEF Units
      <3>. QED
        BY <3>6 DEF UnitsAt
    <2>. QED
      BY <2>1, <2>2
  <1>9. ASSUME NEW i \in FirstSelves(x) PROVE \E k \in Returning(c) : x[i] = c[k]
    <2>1. /\ i \in 1..Len(x) /\ x[i].dir = "self"
          /\ \A j \in 1..(i - 1) : x[j].hash # x[i].hash
      BY DEF FirstSelves, Firsts, Key
    <2>2. i \in 1..Len(p)
      <3>1. SUFFICES ASSUME i \notin 1..Len(p) PROVE FALSE
        OBVIOUS
      <3>2. i - Len(p) \in 1..Len(q) /\ x[i] = q[i - Len(p)]
        BY <1>2, <2>1, <3>1
      <3>3. PICK k \in 1..Len(c) : k = f[i - Len(p)] /\ x[i] = c[k]
        BY <1>4, <3>2
      <3>4. k \in Outs(c)
        BY <2>1, <3>3 DEF Outs, Outgoing
      <3>5. PICK j \in 1..Len(p) : e[j] = k
        BY <1>3, <3>4
      <3>6. p[j] = c[k] /\ x[j] = p[j]
        BY <1>2, <1>3, <3>5
      <3>7. i \in Nat /\ j \in Nat /\ j >= 1 /\ j <= Len(p) /\ i > Len(p)
        BY <1>2, <2>1, <3>1, <3>5
      <3>8. j \in 1..(i - 1)
        BY <1>2, <3>7
      <3>. QED
        BY <2>1, <3>3, <3>6, <3>8
    <2>3. e[i] \in 1..Len(c) /\ x[i] = c[e[i]]
      BY <1>2, <1>3, <2>2
    <2>4. ASSUME NEW j \in 1..(e[i] - 1), c[j].hash = c[e[i]].hash PROVE c[j].dir = "in"
      <3>1. SUFFICES ASSUME c[j].dir # "in" PROVE FALSE
        OBVIOUS
      <3>2. j \in 1..Len(c) /\ j < e[i]
        BY <1>2, <2>3, <2>4
      <3>3. j \in Outs(c)
        <4>1. c[j].dir \in {"in", "out", "self"}
          BY <3>2, GroupsAlike
        <4>. QED
          BY <3>1, <3>2, <4>1 DEF Outs, Outgoing
      <3>4. PICK l \in 1..Len(p) : e[l] = j
        BY <1>3, <3>3
      <3>5. l < i
        <4>1. l # i
          BY <3>2, <3>4
        <4>2. ~ (i < l)
          <5>1. SUFFICES ASSUME i < l PROVE FALSE
            OBVIOUS
          <5>2. e[i] < e[l]
            BY <1>3, <2>2, <5>1
          <5>. QED
            BY <2>3, <3>2, <3>4, <5>2
        <4>. QED
          BY <1>2, <2>2, <4>1, <4>2
      <3>6. l \in 1..(i - 1) /\ x[l] = c[j]
        BY <1>2, <1>3, <2>2, <3>4, <3>5
      <3>. QED
        BY <2>1, <2>3, <2>4, <3>6
    <2>5. e[i] \in Returning(c)
      BY <2>1, <2>3, <2>4 DEF Returning
    <2>. QED
      BY <2>3, <2>5
  <1>10. ASSUME NEW k \in Returning(c) PROVE \E i \in FirstSelves(x) : x[i] = c[k]
    <2>1. /\ k \in 1..Len(c) /\ c[k].dir = "self" /\ k \in Outs(c)
          /\ \A j \in 1..(k - 1) : c[j].hash = c[k].hash => c[j].dir = "in"
      BY DEF Returning, Outs, Outgoing
    <2>2. PICK i \in 1..Len(p) : e[i] = k
      BY <1>3, <2>1
    <2>3. i \in 1..Len(x) /\ x[i] = c[k]
      BY <1>2, <1>3, <2>2
    <2>4. ASSUME NEW j \in 1..(i - 1), x[j].hash = x[i].hash PROVE FALSE
      <3>1. j \in 1..Len(p) /\ j < i
        BY <1>2, <2>2, <2>4
      <3>2. x[j] = c[e[j]] /\ e[j] < k /\ e[j] \in Outs(c) /\ e[j] \in 1..Len(c)
        BY <1>2, <1>3, <2>2, <3>1
      <3>3. e[j] \in 1..(k - 1)
        BY <1>2, <2>1, <3>2
      <3>4. c[e[j]].dir = "in"
        BY <2>1, <2>3, <2>4, <3>2, <3>3
      <3>. QED
        BY <3>2, <3>4 DEF Outs, Outgoing
    <2>5. i \in FirstSelves(x)
      BY <2>1, <2>3, <2>4 DEF FirstSelves, Firsts, Key
    <2>. QED
      BY <2>3, <2>5
  <1>. DEFINE F == FirstSelves(x)
              R == Returning(c)
  <1>11. UnitsAt(x, F) = UnitsAt(c, R)
    <2>1. \A i \in F : \E k \in R : x[i] = c[k]
      BY <1>9
    <2>2. \A k \in R : \E i \in F : x[i] = c[k]
      BY <1>10
    <2>. HIDE DEF F, R
    <2>. QED
      BY <2>1, <2>2 DEF UnitsAt
  <1>12. F \in SUBSET (1..Len(x)) /\ Apart(x, F) /\ R \in SUBSET (1..Len(c)) /\ Apart(c, R)
    <2>1. Apart(c, R)
      BY GroupsAlike
    <2>. QED
      BY <1>7, <2>1 DEF Apart, Returning, FirstSelves
  <1>13. c \in Seq(Parts)
    BY TransfersAreParts
  <1>. HIDE DEF F, R
  <1>14. Cardinality(UnitsAt(x, Firsts(x))) = SumAt(x, Firsts(x))
    BY <1>7, CuttableParts, SumAtCounts
  <1>15. IsFiniteSet(UnitsAt(x, F)) /\ Cardinality(UnitsAt(x, F)) = SumAt(x, F)
    BY <1>12, CuttableParts, SumAtCounts
  <1>16. Cardinality(UnitsAt(c, R)) = SumAt(c, R)
    BY <1>12, <1>13, CuttableParts, SumAtCounts
  <1>17. Cardinality(UnitsAt(c, 1..Len(c))) = SumAt(c, Firsts(c))
    BY ChainCounted
  <1>18. Cardinality(UnitsAt(x, F)) \in Nat
    BY <1>15, FS_CardinalityType
  <1>. QED
    BY <1>1, <1>8, <1>11, <1>14, <1>15, <1>16, <1>17, <1>18 DEF F, R

SelfParts == {t \in Parts : t.dir = "self"}

\* Without duplicates, the pages have no more than every transaction, and no less
\* unless one of them is full.
LEMMA GotAll ==
    ASSUME chain \in Seq(Transfers), Grouped(chain),
           NEW d, d = WithoutDuplicates(Page("out") \o Page("in"))
    PROVE  /\ d \in Seq(Parts) /\ Transactions \in Nat /\ Total(d) \in Nat
           /\ Total(d) <= Transactions
           /\ WholePages => /\ Total(d) = Transactions
                            /\ CountIn(d, SelfParts) = SelfTransactions
  <1>1. PICK c \in Seq(Transfers) : c = chain /\ Grouped(c)
    OBVIOUS
  <1>2. PICK p : p = Page("out")
    OBVIOUS
  <1>3. PICK q : q = Page("in")
    OBVIOUS
  <1>4. p = Take(Chosen(c, Outs(c)), 1000) /\ q = Take(Chosen(c, Ins(c)), 1000)
    BY <1>1, <1>2, <1>3 DEF Page, PageSize, Outs, Ins
  <1>5. /\ PartOf(p, c, Outs(c)) /\ PartOf(q, c, Ins(c))
        /\ SumAt(c, Outs(c)) <= 1000 => \E e : Places(e, p, c, Outs(c), Len(c))
        /\ SumAt(c, Ins(c)) <= 1000 => \E e : Places(e, q, c, Ins(c), Len(c))
    <2>1. Outs(c) \in SUBSET (1..Len(c)) /\ Ins(c) \in SUBSET (1..Len(c))
      BY DEF Outs, Ins
    <2>. QED
      BY <1>4, <2>1, PageIs
  <1>6. PICK x \in Seq(Parts) : x = p \o q
    BY <1>1, <1>5, NoMore
  <1>7. Firsts(x) \subseteq 1..Len(x)
    BY DEF Firsts
  <1>8. d = Chosen(x, Firsts(x))
    BY <1>2, <1>3, <1>6 DEF WithoutDuplicates, Firsts
  <1>9. d \in Seq(Parts)
    BY <1>8, ChosenType
  <1>10. Total(d) = SumAt(x, Firsts(x)) /\ Total(d) \in Nat
    <2>1. CountIn(d, Parts) = SumAt(x, {i \in 1..Len(x) : i \in Firsts(x) /\ x[i] \in Parts})
      BY <1>8, CuttableParts, ChosenCount
    <2>2. {i \in 1..Len(x) : i \in Firsts(x) /\ x[i] \in Parts} = Firsts(x)
      BY <1>7
    <2>3. Total(d) = CountIn(d, Parts) /\ Total(d) \in Nat
      BY <1>9, CuttableParts, TotalIs
    <2>. QED
      BY <2>1, <2>2, <2>3
  <1>11. CountIn(d, SelfParts) = SumAt(x, FirstSelves(x))
    <2>1. CountIn(d, SelfParts) = SumAt(x, {i \in 1..Len(x) : i \in Firsts(x) /\ x[i] \in SelfParts})
      BY <1>8, CuttableParts, ChosenCount
    <2>2. {i \in 1..Len(x) : i \in Firsts(x) /\ x[i] \in SelfParts} = FirstSelves(x)
      BY <1>7 DEF SelfParts, FirstSelves
    <2>. QED
      BY <2>1, <2>2
  <1>12. \A i \in 1..Len(c) : [c[i] EXCEPT !.m = 0].m = 0
    <2>1. \A u \in Transfers : [u EXCEPT !.m = 0].m = 0
      BY DEF Transfers
    <2>. QED
      BY <2>1
  <1>13. Transactions = SumAt(c, Firsts(c))
    <2>. DEFINE t == [i \in 1..Len(c) |-> IF \A j \in 1..(i - 1) : c[j].hash # c[i].hash
                                          THEN c[i] ELSE [c[i] EXCEPT !.m = 0]]
    <2>1. Transactions = Total(t)
      BY <1>1 DEF Transactions, Counted
    <2>2. Len(t) = Len(c) /\ Len(c) \in Nat
      OBVIOUS
    <2>3. \A i \in 1..Len(c) : t[i].m = IF i \in Firsts(c) THEN c[i].m ELSE 0
      BY <1>12 DEF Firsts, Key
    <2>. HIDE DEF t
    <2>4. [i \in 1..Len(t) |-> t[i].m] = [i \in 1..Len(c) |-> IF i \in Firsts(c) THEN c[i].m ELSE 0]
      BY <2>2, <2>3
    <2>. QED
      BY <2>1, <2>4 DEF Total, SumAt
  <1>14. SelfTransactions = SumAt(c, Returning(c))
    <2>. DEFINE t == [i \in 1..Len(c) |->
                        IF c[i].dir = "self"
                             /\ \A j \in 1..(i - 1) : c[j].hash = c[i].hash => c[j].dir = "in"
                        THEN c[i] ELSE [c[i] EXCEPT !.m = 0]]
    <2>1. SelfTransactions = Total(t)
      BY <1>1 DEF SelfTransactions, Counted
    <2>2. Len(t) = Len(c) /\ Len(c) \in Nat
      OBVIOUS
    <2>3. \A i \in 1..Len(c) : t[i].m = IF i \in Returning(c) THEN c[i].m ELSE 0
      BY <1>12 DEF Returning
    <2>. HIDE DEF t
    <2>4. [i \in 1..Len(t) |-> t[i].m]
              = [i \in 1..Len(c) |-> IF i \in Returning(c) THEN c[i].m ELSE 0]
      BY <2>2, <2>3
    <2>. QED
      BY <2>1, <2>4 DEF Total, SumAt
  <1>15. SumAt(c, Firsts(c)) \in Nat /\ Total(d) <= SumAt(c, Firsts(c))
    <2>1. SumAt(c, Firsts(c)) \in Nat
      BY <1>1, ChainCounted
    <2>2. SumAt(p \o q, Firsts(p \o q)) <= SumAt(c, Firsts(c))
      BY <1>1, <1>5, NoMore
    <2>. QED
      BY <1>6, <1>10, <2>1, <2>2
  <1>16. ASSUME WholePages
         PROVE  Total(d) = Transactions /\ CountIn(d, SelfParts) = SelfTransactions
    <2>1. SumAt(c, Outs(c)) <= 1000 /\ SumAt(c, Ins(c)) <= 1000
      <3>1. Count(c, Outgoing) = SumAt(c, Outs(c)) /\ Count(c, Incoming) = SumAt(c, Ins(c))
        <4>1. [i \in 1..Len(c) |-> IF Outgoing(c[i]) THEN c[i].m ELSE 0]
                  = [i \in 1..Len(c) |-> IF i \in Outs(c) THEN c[i].m ELSE 0]
          BY DEF Outs
        <4>2. [i \in 1..Len(c) |-> IF Incoming(c[i]) THEN c[i].m ELSE 0]
                  = [i \in 1..Len(c) |-> IF i \in Ins(c) THEN c[i].m ELSE 0]
          BY DEF Ins
        <4>. QED
          BY <4>1, <4>2 DEF Count, SumAt
      <3>. QED
        BY <1>1, <1>16, <3>1 DEF WholePages, PageSize
    <2>2. PICK e : Places(e, p, c, Outs(c), Len(c))
      BY <1>5, <2>1
    <2>3. PICK f : Places(f, q, c, Ins(c), Len(c))
      BY <1>5, <2>1
    <2>4. p \in Seq(Parts) /\ q \in Seq(Parts)
      BY <1>5 DEF PartOf
    <2>5. /\ SumAt(p \o q, Firsts(p \o q)) = SumAt(c, Firsts(c))
          /\ SumAt(p \o q, FirstSelves(p \o q)) = SumAt(c, Returning(c))
      BY <1>1, <2>2, <2>3, <2>4, PagesComplete
    <2>. QED
      BY <1>6, <1>10, <1>11, <1>13, <1>14, <2>5
  <1>. QED
    BY <1>9, <1>10, <1>13, <1>15, <1>16

----------------------------------------------------------------------------
(* Analysis: nothing fetched is lost *)

SelfFacts == {f \in Fact : f.dir = "self"}

LEMMA CollectCounts ==
    ASSUME AInv, Collect
    PROVE  /\ facts' \in Seq(Fact) /\ Total(got) \in Nat
           /\ Total(facts') = Smaller(500, Total(got) + Votes)
           /\ Total(got) + Votes <= 500 => CountIn(facts', SelfFacts) = CountIn(got, SelfParts)
  <1>. DEFINE r == [i \in 1..Len(got) |-> Classified(i)]
              v == [hash |-> "votes", dir |-> "none", peer |-> "none", value |-> "zero",
                    m |-> SnapshotVotes, recent |-> FALSE, entry |-> "none",
                    category |-> "governance"]
  <1>1. got \in Seq(Parts) /\ Len(got) \in Nat /\ \A i \in 1..Len(got) : got[i] \in Parts
    <2>1. got \in Seq(Parts)
      BY DEF AInv, WorkerTypes
    <2>. QED
      BY <2>1
  <1>2. \A i \in 1..Len(got) : /\ Classified(i) \in Fact
                               /\ Classified(i).m = got[i].m /\ Classified(i).dir = got[i].dir
    <2>1. \A i \in 1..Len(got) : Classified(i) \in Fact
      BY ClassifiedGood DEF GoodFacts
    <2>. QED
      BY <2>1 DEF Classified
  <1>3. r \in Seq(Fact) /\ Len(r) = Len(got) /\ \A i \in 1..Len(got) : r[i] = Classified(i)
    BY <1>1, <1>2
  <1>4. SnapshotVotes \in Nat /\ SnapshotVotes = Smaller(1000, Votes) /\ Votes \in Nat
    BY AnalysisAssumption DEF SnapshotVotes, Smaller, Parameters
  <1>5. v \in Fact /\ v.m = SnapshotVotes /\ v \notin SelfFacts
    BY <1>4 DEF Fact, Values, SelfFacts
  <1>6. Merged(r) = IF SnapshotVotes = 0 THEN r ELSE Append(r, v)
    BY DEF Merged
  <1>7. facts' = Take(Merged(r), 500)
    BY DEF Collect, Summarized, Threshold
  <1>. HIDE DEF r, v
  <1>8. Total(r) = Total(got) /\ Total(got) \in Nat
    <2>1. [i \in 1..Len(r) |-> r[i].m] = [i \in 1..Len(got) |-> got[i].m]
      BY <1>2, <1>3
    <2>2. Total(got) \in Nat
      BY <1>1, CuttableParts, TotalIs
    <2>. QED
      BY <2>1, <2>2 DEF Total
  <1>9. CountIn(r, SelfFacts) = CountIn(got, SelfParts) /\ CountIn(r, SelfFacts) \in Nat
    <2>1. \A i \in 1..Len(got) : r[i] \in SelfFacts <=> got[i] \in SelfParts
      BY <1>1, <1>2, <1>3 DEF SelfFacts, SelfParts
    <2>2. [i \in 1..Len(r) |-> IF r[i] \in SelfFacts THEN r[i].m ELSE 0]
              = [i \in 1..Len(got) |-> IF got[i] \in SelfParts THEN got[i].m ELSE 0]
      BY <1>2, <1>3, <2>1
    <2>3. CountIn(r, SelfFacts) \in Nat
      BY <1>3, CountInType
    <2>. QED
      BY <2>2, <2>3 DEF CountIn
  <1>10. PICK s \in Seq(Fact) : s = Merged(r)
    <2>1. Append(r, v) \in Seq(Fact)
      BY <1>3, <1>5
    <2>. QED
      BY <1>3, <1>6, <2>1
  <1>11. /\ Total(s) = Total(got) + SnapshotVotes
         /\ CountIn(s, SelfFacts) = CountIn(got, SelfParts)
    <2>1. CASE SnapshotVotes = 0
      BY <1>6, <1>8, <1>9, <1>10, <2>1
    <2>2. CASE SnapshotVotes # 0
      <3>1. s = Append(r, v)
        BY <1>6, <1>10, <2>2
      <3>2. Total(Append(r, v)) = Total(r) + v.m
        BY <1>3, <1>5, CountInAppend
      <3>3. CountIn(Append(r, v), SelfFacts) = CountIn(r, SelfFacts) + 0
        BY <1>3, <1>5, CountInAppend
      <3>. QED
        BY <1>5, <1>8, <1>9, <3>1, <3>2, <3>3
    <2>. QED
      BY <2>1, <2>2
  <1>12. /\ Total(Take(s, 500)) = Smaller(500, Total(s))
         /\ Total(s) <= 500 => CountIn(Take(s, 500), SelfFacts) = CountIn(s, SelfFacts)
    <2>1. Cuttable(Fact) /\ 500 \in Nat
      BY CuttableParts
    <2>. QED
      BY <2>1, TakeCounts
  <1>13. facts' \in Seq(Fact)
    <2>1. Cuttable(Fact) /\ 500 \in Nat
      BY CuttableParts
    <2>2. Take(s, 500) \in Seq(Fact)
      BY <2>1, TakeType
    <2>. QED
      BY <1>7, <1>10, <2>2
  <1>14. PICK a \in Nat : a = Total(got)
    BY <1>8
  <1>15. Smaller(500, a + SnapshotVotes) = Smaller(500, a + Votes)
    BY <1>4 DEF Smaller
  <1>16. a + Votes <= 500 => a + SnapshotVotes <= 500
    BY <1>4 DEF Smaller
  <1>. QED
    BY <1>7, <1>10, <1>11, <1>12, <1>13, <1>14, <1>15, <1>16

\* How far the fetch is, and that it has everything.
FetchOK ==
    /\ stage \in {"out", "in", "classify", "store"} => chain \in Chains
    /\ stage = "in" => got = Page("out")
    /\ stage = "classify" => got = WithoutDuplicates(Page("out") \o Page("in"))
    /\ FactsComplete

LEMMA CollectComplete ==
    ASSUME AInv, FetchOK, Collect
    PROVE  FetchOK'
  <1>1. stage = "classify" /\ stage' = "store" /\ chain' = chain /\ chain \in Chains
    BY DEF Collect, FetchOK
  <1>2. chain \in Seq(Transfers) /\ Grouped(chain) /\ Votes \in Nat
    BY <1>1, AnalysisAssumption DEF Parameters
  <1>3. /\ got \in Seq(Parts) /\ Transactions \in Nat /\ Total(got) \in Nat
        /\ Total(got) <= Transactions
        /\ WholePages => /\ Total(got) = Transactions
                         /\ CountIn(got, SelfParts) = SelfTransactions
    BY <1>1, <1>2, GotAll DEF FetchOK
  <1>4. /\ facts' \in Seq(Fact)
        /\ Total(facts') = Smaller(500, Total(got) + Votes)
        /\ Total(got) + Votes <= 500 => CountIn(facts', SelfFacts) = CountIn(got, SelfParts)
    BY CollectCounts
  <1>5. /\ Transactions' = Transactions /\ SelfTransactions' = SelfTransactions
        /\ WholePages' = WholePages
    BY <1>1 DEF Transactions, SelfTransactions, Counted, WholePages
  <1>6. /\ Total(facts') <= Smaller(500, Transactions + Votes)
        /\ WholePages => Total(facts') = Smaller(500, Transactions + Votes)
    BY <1>2, <1>3, <1>4 DEF Smaller
  <1>7. Count(facts', LAMBDA f : f.dir = "self") = CountIn(facts', SelfFacts)
    <2>1. PICK s \in Seq(Fact) : s = facts'
      BY <1>4
    <2>2. [i \in 1..Len(s) |-> IF s[i].dir = "self" THEN s[i].m ELSE 0]
              = [i \in 1..Len(s) |-> IF s[i] \in SelfFacts THEN s[i].m ELSE 0]
      BY DEF SelfFacts
    <2>3. Count(s, LAMBDA f : f.dir = "self") = CountIn(s, SelfFacts)
      BY <2>2 DEF Count, CountIn
    <2>. QED
      BY <2>1, <2>3
  <1>8. "high_self_transfer" \in Flags(facts') <=> Count(facts', LAMBDA f : f.dir = "self") > 5
    BY DEF Flags
  <1>9. WholePages /\ Transactions + Votes <= 500 =>
            ("high_self_transfer" \in Flags(facts') <=> SelfTransactions > 5)
    BY <1>2, <1>3, <1>4, <1>7, <1>8
  <1>10. FactsComplete'
    BY <1>1, <1>5, <1>6, <1>9 DEF FactsComplete, Collected, Threshold
  <1>. QED
    BY <1>1, <1>10 DEF FetchOK

LEMMA FetchStays ==
    ASSUME FetchOK, UNCHANGED <<chain, facts>>,
           \/ UNCHANGED <<stage, got>>
           \/ stage' \notin {"out", "in", "classify", "store"}
    PROVE  FetchOK'
  <1>1. /\ Page("out")' = Page("out") /\ Page("in")' = Page("in") /\ Transactions' = Transactions
        /\ SelfTransactions' = SelfTransactions /\ WholePages' = WholePages
    BY DEF Page, Transactions, SelfTransactions, Counted, WholePages
  <1>2. ASSUME stage' # "store" PROVE FactsComplete'
    BY <1>2 DEF FetchOK, FactsComplete, Collected
  <1>3. ASSUME stage' = "store" PROVE FactsComplete'
    BY <1>1, <1>3 DEF FetchOK, FactsComplete, Collected
  <1>. QED
    BY <1>1, <1>2, <1>3 DEF FetchOK

LEMMA FetchStep ==
    ASSUME AInv, FetchOK, AnalysisNext
    PROVE  FetchOK'
  <1>1. CASE BeginJob \/ RestartWorker
    BY <1>1 DEF BeginJob, RestartWorker, FetchOK, FactsComplete, Collected
  <1>2. CASE LatestBlock
    BY <1>2 DEF LatestBlock, FetchOK, FactsComplete, Collected
  <1>3. CASE Rpc
    <2>1. chain' = chain /\ chain \in Chains /\ stage \in {"out", "in"}
      BY <1>3 DEF Rpc, MayCall, FetchOK
    <2>2. Page("out")' = Page("out") /\ Page("in")' = Page("in")
      BY <2>1 DEF Page
    <2>3. CASE stage = "out"
      BY <1>3, <2>1, <2>2, <2>3 DEF Rpc, FetchOK, FactsComplete, Collected
    <2>4. CASE stage = "in"
      BY <1>3, <2>1, <2>2, <2>4 DEF Rpc, FetchOK, FactsComplete, Collected
    <2>. QED
      BY <2>1, <2>3, <2>4
  <1>4. CASE RpcFails(TRUE) \/ RpcFails(FALSE) \/ RpcRefuses \/ Throw
    <2>1. UNCHANGED <<chain, facts, got>> /\ (stage' = stage \/ stage' = "failed")
      BY <1>4 DEF RpcFails, RpcRefuses, Throw, job, fetch
    <2>. QED
      BY <2>1, FetchStays
  <1>5. CASE Collect
    BY <1>5, CollectComplete
  <1>6. CASE StoreScores \/ SyncAward \/ Revoke \/ Aggregate
    <2>1. /\ UNCHANGED <<chain, facts, got>>
          /\ stage' = stage \/ stage' \in {"awards", "revoke", "dao", "done", "failed"}
      BY <1>6 DEF StoreScores, SyncAward, Revoke, Aggregate, job, fetch
    <2>. QED
      BY <2>1, FetchStays
  <1>7. CASE \E i \in DOMAIN loads : Fill(i) \/ \E table \in RegistryTables : AnswerOf(i, table)
    <2>1. UNCHANGED <<stage, chain, facts, got>>
      BY <1>7 DEF AnswerOf, Fill, fetch
    <2>. QED
      BY <2>1, FetchStays
  <1>8. CASE PauseEnds \/ \E e \in Entries : Change(e)
    <2>1. UNCHANGED <<stage, chain, facts, got>>
      BY <1>8 DEF PauseEnds, Change, job, fetch
    <2>. QED
      BY <2>1, FetchStays
  <1>. QED
    BY <1>1, <1>2, <1>3, <1>4, <1>5, <1>6, <1>7, <1>8 DEF AnalysisNext, Step

\* Two calls of one page each, one for each direction, and the removal of duplicates by
\* transaction in fetchTransactions never give more than one fact for a transaction; up to
\* the threshold of summarizeIfNeeded they give one for each unless a page was full, however
\* many transfers a transaction makes; and transactions that begin by paying oneself are then
\* neither lost nor counted twice.
THEOREM NothingIsLost == AnalysisSpec => []FactsComplete
  <1>1. AnalysisInit => FetchOK
    BY DEF AnalysisInit, FetchOK, FactsComplete, Collected
  <1>2. AInv /\ FetchOK /\ [AnalysisNext]_analysisVars => FetchOK'
    <2>1. ASSUME AInv, FetchOK, UNCHANGED analysisVars PROVE FetchOK'
      BY <2>1, FetchStays DEF analysisVars
    <2>. QED
      BY <2>1, FetchStep
  <1>3. FetchOK => FactsComplete
    BY DEF FetchOK
  <1>. QED
    BY <1>1, <1>2, <1>3, AInvariance, PTL DEF AnalysisSpec

==============================================================================
