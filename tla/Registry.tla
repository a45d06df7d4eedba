------------------------------- MODULE Registry -------------------------------
(***************************************************************************)
(* The protocol and DAO registry: RegistryService with its in-process      *)
(* cache in every API instance, the admin and the debug endpoint, and the  *)
(* admin page of the web application.  One entry of every table: what a    *)
(* reader can tell apart is whether it is listed.                          *)
(***************************************************************************)
EXTENDS Naturals, FiniteSets

CONSTANTS Instances,    \* processes of the API
          Requests,     \* requests in flight at a time
          MaxRequests,  \* bound: requests
          MaxFaults     \* bound: failed requests and restarts

ASSUME RegistryAssumption ==
    /\ Instances # {} /\ IsFiniteSet(Instances)
    /\ MaxRequests \in Nat /\ MaxFaults \in Nat

VARIABLES
    access,  \* what the environment allows an admin: "read", "write"
    row,     \* row[t]: the entry of table t
    cache,   \* cache[i][k]: the cached list of kind k, "none" if absent or expired
    at,      \* at[r]: the next await of request r
    req,     \* req[r]: who asks for what, where
    load,    \* load[r][k]: how far the list of kind k is, and the list
    shown,   \* the snapshot on the admin page
    error,   \* the page shows an error
    begun, faults,
    used,    \* history: instances that handled a request
    calm,    \* history: no change was written while a load held an older list
    solo     \* history: only the page asked, one thing at a time, and heard every answer

page == <<shown, error>>
history == <<used, calm, solo>>
vars == <<access, row, cache, at, req, load, shown, error, begun, faults, used, calm, solo>>

Kinds == {"protocols", "daos"}
Tables == Kinds \cup {"labels"}     \* risk labels are not cached
Lists == {"listed", "empty"}
Listing(t) == IF row[t] = "active" THEN "listed" ELSE "empty"
Snapshot == [Kinds -> Lists]
Nothing == [k \in Kinds |-> "nothing"]

Ops == {"create", "activate", "deactivate", "snapshot"}
Request == [by : {"page", "api"}, op : Ops, table : Tables, inst : Instances]
NoRequest == [by |-> "api", op |-> "snapshot", table |-> "daos", inst |-> CHOOSE i \in Instances : TRUE]
Steps == {"idle", "find", "write", "invalidate", "answer", "load"}
NoLoad == [k \in Kinds |-> [step |-> "done", list |-> "empty"]]
Open == {r \in Requests : at[r] # "idle"}

Init ==
    \* No key: neither; production: no snapshot, and no writes if disabled.
    /\ access \in {{}, {"write"}, {"read", "write"}}
    /\ row \in [Tables -> {"none", "active"}] /\ row["labels"] = "active"
    /\ cache = [i \in Instances |-> [k \in Kinds |-> "none"]]
    /\ at = [r \in Requests |-> "idle"]
    /\ req = [r \in Requests |-> NoRequest]
    /\ load = [r \in Requests |-> NoLoad]
    /\ shown = Nothing /\ error = FALSE
    /\ begun = 0 /\ faults = 0
    /\ used = {} /\ calm = TRUE /\ solo = TRUE
----------------------------------------------------------------------------
(* A request and its end *)

\* Request r goes on at step next, as q.
As(r, next, q) ==
    /\ at' = [at EXCEPT ![r] = next]
    /\ req' = [req EXCEPT ![r] = IF next = "idle" THEN NoRequest ELSE q]

Go(r, next) == As(r, next, req[r])

\* getProtocols and getDaos of the snapshot, in parallel: from the cache or to be loaded.
Arrive(r, i) ==
    load' = [load EXCEPT ![r] = [k \in Kinds |->
        IF cache[i][k] # "none" THEN [step |-> "done", list |-> cache[i][k]]
                                ELSE [step |-> "ask", list |-> "empty"]]]

\* The page catches what a creation or a load throws; a removal has no catch.
Refused(r) == error' = (error \/ (req[r].by = "page" /\ req[r].op # "deactivate"))

\* assertX comes before an update; the guards come before everything.
Begin(r, q) ==
    /\ at[r] = "idle" /\ begun < MaxRequests /\ begun' = begun + 1
    /\ (IF q.op = "snapshot" THEN "read" ELSE "write") \in access
    /\ used' = used \cup {q.inst} /\ solo' = (solo /\ q.by = "page" /\ Open = {})
    /\ As(r, CASE q.op = "snapshot" -> "load" [] q.op = "create" -> "write" [] OTHER -> "find", q)
    /\ IF q.op = "snapshot"
       THEN Arrive(r, q.inst) /\ error' = (error /\ q.by # "page")
       ELSE UNCHANGED <<load, error>>
    /\ UNCHANGED <<access, row, cache, shown, faults, calm>>

\* The buttons: open or reload the page, create, and delete of what is shown.
PageClicks(r) ==
    \E q \in [by : {"page"}, op : Ops \ {"activate"}, table : Kinds, inst : Instances] :
        /\ q.op = "deactivate" => shown[q.table] = "listed"
        /\ Begin(r, q)

ApiCall(r) ==
    \E q \in [by : {"api"}, op : Ops \ {"snapshot"}, table : Tables, inst : Instances] : Begin(r, q)

\* The environment does not allow it: 401, 403 or 404 before anything is done.
Denied(r) ==
    /\ at[r] = "idle" /\ begun < MaxRequests /\ begun' = begun + 1
    /\ \E op \in Ops \ {"deactivate", "activate"} :
          (IF op = "snapshot" THEN "read" ELSE "write") \notin access
    /\ error' = TRUE
    /\ UNCHANGED <<access, row, cache, at, req, load, shown, faults, history>>

\* Find the row of an update: NotFoundException.
Find(r) ==
    /\ at[r] = "find"
    /\ IF row[req[r].table] = "none" THEN Go(r, "idle") /\ Refused(r)
                                     ELSE Go(r, "write") /\ UNCHANGED error
    /\ UNCHANGED <<access, row, cache, load, shown, begun, faults, history>>

\* The slug is unique, also among inactive entries.
Write(r) ==
    LET t == req[r].table
        taken == req[r].op = "create" /\ row[t] # "none"
    IN  /\ at[r] = "write"
        /\ row' = IF taken THEN row
                  ELSE [row EXCEPT ![t] = IF req[r].op = "deactivate" THEN "inactive" ELSE "active"]
        /\ Go(r, IF taken THEN "idle" ELSE "invalidate")
        /\ IF taken THEN Refused(r) ELSE UNCHANGED error
        /\ calm' = (calm /\ (taken \/ t = "labels" \/ \A s \in Requests : load[s][t].step # "hold"))
        /\ UNCHANGED <<access, cache, load, shown, begun, faults, used, solo>>

\* invalidateCache, in the process that handled the change.
InvalidateWith(r, doomed) ==
    /\ at[r] = "invalidate" /\ Go(r, "answer")
    /\ cache' = [cache EXCEPT ![req[r].inst] =
                    [k \in Kinds |-> IF k \in doomed THEN "none" ELSE @[k]]]
    /\ UNCHANGED <<access, row, load, page, begun, faults, history>>

Invalidate_OnlyCreated(r) == InvalidateWith(r, IF req[r].op = "create" THEN Kinds ELSE {})
Invalidate(r) == InvalidateWith(r, IF req[r].table = "labels" THEN {} ELSE Kinds)

\* The answer of a change; the page then loads, from whichever instance is asked.
AnswerTo(r, reloads) ==
    /\ at[r] = "answer"
    /\ IF reloads /\ "read" \in access
       THEN \E i \in Instances :
              /\ As(r, "load", [req[r] EXCEPT !.op = "snapshot", !.inst = i])
              /\ used' = used \cup {i} /\ Arrive(r, i) /\ error' = FALSE
       ELSE /\ Go(r, "idle") /\ error' = (error \/ reloads)
            /\ UNCHANGED <<load, used>>
    /\ UNCHANGED <<access, row, cache, shown, begun, faults, calm, solo>>

Answer_NotRemoved(r) == AnswerTo(r, req[r].by = "page" /\ req[r].op # "deactivate")
Answer(r) == AnswerTo(r, req[r].by = "page")
----------------------------------------------------------------------------
(* The lists *)

\* findMany reads the table; the answer is on its way.
Query(r, k) ==
    /\ at[r] = "load" /\ load[r][k].step = "ask"
    /\ load' = [load EXCEPT ![r][k] = [step |-> "hold", list |-> Listing(k)]]
    /\ UNCHANGED <<access, row, cache, at, req, page, begun, faults, history>>

Store(r, k) ==
    /\ at[r] = "load" /\ load[r][k].step = "hold"
    /\ load' = [load EXCEPT ![r][k].step = "done"]
    /\ cache' = [cache EXCEPT ![req[r].inst][k] = load[r][k].list]
    /\ UNCHANGED <<access, row, at, req, page, begun, faults, history>>

\* The snapshot arrives at the page, whatever was shown before.
Show(r) ==
    /\ at[r] = "load" /\ \A k \in Kinds : load[r][k].step = "done"
    /\ shown' = [k \in Kinds |-> load[r][k].list] /\ Go(r, "idle")
    /\ load' = [load EXCEPT ![r] = NoLoad]
    /\ UNCHANGED <<access, row, cache, error, begun, faults, history>>

Drop(i, k) ==
    /\ cache[i][k] # "none" /\ cache' = [cache EXCEPT ![i][k] = "none"]
    /\ UNCHANGED <<access, row, at, req, load, page, begun, faults, history>>

\* A cached list of DAOs without an expiry.
Expire_NotDaos(i, k) == k # "daos" /\ Drop(i, k)
Expire(i, k) == Drop(i, k)
----------------------------------------------------------------------------
(* Faults *)

\* Requests rs end without an answer; those of the page that only delete leave no trace on it.
Lose(rs) ==
    /\ faults < MaxFaults /\ faults' = faults + 1
    /\ at' = [r \in Requests |-> IF r \in rs THEN "idle" ELSE at[r]]
    /\ req' = [r \in Requests |-> IF r \in rs THEN NoRequest ELSE req[r]]
    /\ load' = [r \in Requests |-> IF r \in rs THEN NoLoad ELSE load[r]]
    /\ error' = (error \/ \E r \in rs : req[r].by = "page" /\ req[r].op # "deactivate")
    /\ solo' = (solo /\ \A r \in rs : req[r].op = "deactivate" => at[r] \in {"find", "write"})

\* The database or the connection fails.
Fail(r) ==
    /\ at[r] \in {"find", "write", "answer", "load"} /\ Lose({r})
    /\ UNCHANGED <<access, row, cache, shown, begun, used, calm>>

\* A process stops; the next one starts with an empty cache.
Restart(i) ==
    /\ Lose({r \in Open : req[r].inst = i})
    /\ cache' = [cache EXCEPT ![i] = [k \in Kinds |-> "none"]]
    /\ UNCHANGED <<access, row, shown, begun, used, calm>>
----------------------------------------------------------------------------
Serve(r) ==
    \/ Find(r) \/ Write(r) \/ Invalidate(r) \/ Answer(r) \/ Show(r)
    \/ \E k \in Kinds : Query(r, k) \/ Store(r, k)

Next ==
    \/ \E r \in Requests : PageClicks(r) \/ ApiCall(r) \/ Denied(r) \/ Serve(r) \/ Fail(r)
    \/ \E i \in Instances : Restart(i) \/ \E k \in Kinds : Expire(i, k)

Spec == Init /\ [][Next]_vars

\* Handlers go on, and time passes; nobody has to ask anything.
FairSpec ==
    /\ Spec
    /\ \A r \in Requests : WF_vars(Serve(r))
    /\ \A i \in Instances, k \in Kinds : WF_vars(Expire(i, k))
----------------------------------------------------------------------------
(* Properties *)

\* An instance that handled all requests serves the table as it is, unless a
\* change was written while a load held the list as it was before: the cache
\* follows every kind of change, and only the process of that change.
CacheExact ==
    \A i \in Instances, k \in Kinds :
        /\ calm /\ used \subseteq {i}
        /\ \A r \in Requests : at[r] # "invalidate"
        => cache[i][k] \in {"none", Listing(k)}

\* After its own work the admin page shows the registry or an error: creation,
\* removal and reload one after the other, through one instance, whatever fails
\* (but not a removal whose answer is lost, which nothing on the page reports).
PageShowsWork ==
    solo /\ Cardinality(used) = 1 /\ Open = {} /\ ~error /\ shown # Nothing
        => shown = [k \in Kinds |-> Listing(k)]

\* An outdated list, stored by a late load or left in another process, is not served forever.
StaleEnds == <>[](\A i \in Instances, k \in Kinds : cache[i][k] \in {"none", Listing(k)})

TypeOK ==
    /\ access \subseteq {"read", "write"}
    /\ row \in [Tables -> {"none", "active", "inactive"}]
    /\ cache \in [Instances -> [Kinds -> Lists \cup {"none"}]]
    /\ at \in [Requests -> Steps] /\ req \in [Requests -> Request]
    /\ load \in [Requests -> [Kinds -> [step : {"ask", "hold", "done"}, list : Lists]]]
    /\ shown \in Snapshot \cup {Nothing} /\ error \in BOOLEAN
    /\ begun \in 0..MaxRequests /\ faults \in 0..MaxFaults
    /\ used \subseteq Instances /\ calm \in BOOLEAN /\ solo \in BOOLEAN
==============================================================================
