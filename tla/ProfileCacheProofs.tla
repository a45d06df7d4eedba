------------------------- MODULE ProfileCacheProofs -------------------------
(***************************************************************************)
(* Machine-checked proofs about ProfileCache, for every set of requests,   *)
(* projections, reads and slugs: a version tells payloads apart, and what  *)
(* writers that do not overlap leave behind.                               *)
(***************************************************************************)
EXTENDS ProfileCache, FiniteSetTheorems, TLAPS

----------------------------------------------------------------------------
(* Types, and how far the version can get *)

Views == View \cup {NoView}
Local == [row : Row, next : Row, view : Views]

\* Writers that have increased the version, or never will.
Past == {x \in Writers : at[x] \notin {"new", "update", "bump", "increment"}}

\* Where a view was read that is there.
WithView == {"rewrite", "get", "lock", "retry", "fill", "unlock"}

Types ==
    /\ TypeOK
    /\ \A x \in Procs : at[x] \in WithView => loc[x].view # NoView
    /\ cache \in [Keys -> [view : Views, ttl : BOOLEAN]]
    /\ row.version <= Cardinality(Past)

LEMMA Finite ==
    /\ IsFiniteSet(Writers) /\ Cardinality(Writers) \in Nat
    /\ Versions \subseteq Nat /\ 0 \in Versions
  <1>1. IsFiniteSet(Writers)
    BY ProfileAssumption, FS_Union DEF Writers
  <1>2. Cardinality(Writers) \in Nat
    BY <1>1, FS_CardinalityType
  <1>. QED
    BY <1>1, <1>2 DEF Versions

\* The version of every view is a number, also of the one that is not there.
LEMMA ViewVersions == \A v \in Views : v.version \in Versions /\ v.version \in Nat
  <1>. SUFFICES ASSUME NEW v \in Views PROVE v.version \in Versions
    BY Finite
  <1>1. CASE v \in View
    BY <1>1 DEF View
  <1>2. CASE v = NoView
    <2>1. v.version = 0
      BY <1>2 DEF NoView
    <2>. QED
      BY <2>1, Finite
  <1>. QED
    BY <1>1, <1>2 DEF Views

LEMMA RowVersions == \A r \in Row : r.version \in Versions /\ r.version \in Nat /\ Key(r) \in Keys
                                    /\ Key(r)[2] = r.version
  <1>. SUFFICES ASSUME NEW r \in Row
                PROVE  /\ r.version \in Versions /\ r.version \in Nat /\ Key(r) \in Keys
                       /\ Key(r)[2] = r.version
    OBVIOUS
  <1>1. r.slug \in Slugs /\ r.version \in Versions
    BY DEF Row
  <1>2. Key(r) = <<r.slug, r.version>>
    BY DEF Key
  <1>3. Key(r) \in Keys
    BY <1>1, <1>2 DEF Keys
  <1>4. Key(r)[2] = r.version
    BY <1>2
  <1>. QED
    BY <1>1, <1>3, <1>4, Finite

LEMMA KeyVersions == \A k \in Keys : k[2] \in Nat
  BY Finite DEF Keys

LEMMA ViewOfType ==
    ASSUME NEW r \in Row, NEW j \in Projections
    PROVE  ViewOf(r, j) \in View /\ ViewOf(r, j).version = r.version
           /\ ViewOf(r, j).visibility = r.visibility /\ ViewOf(r, j).name = r.name
  BY DEF ViewOf, View, Row

LEMMA EmptyType == Empty \in [view : Views, ttl : BOOLEAN] /\ Empty.view = NoView /\ NoView.version = 0
  BY DEF Empty, Views, NoView

LEMMA EntryType ==
    ASSUME NEW v \in Views
    PROVE  Entry(v) \in [view : Views, ttl : BOOLEAN] /\ Entry(v).view = v /\ Entry(v).ttl = TRUE
  BY DEF Entry

\* A writer that increases the version was not counted before.
LEMMA Bumping ==
    ASSUME Types, NEW x \in Writers, at[x] \in {"bump", "increment"}, NEW s,
           s \notin {"new", "update", "bump", "increment"}, at' = [at EXCEPT ![x] = s]
    PROVE  row.version + 1 \in Versions /\ row.version + 1 <= Cardinality(Past')
  <1>1. at \in [Procs -> Steps] /\ Writers \subseteq Procs
    BY DEF Types, TypeOK, Procs
  <1>2. Past' = Past \cup {x} /\ x \notin Past /\ Past \subseteq Writers /\ Past' \subseteq Writers
    BY <1>1 DEF Past
  <1>3. IsFiniteSet(Past) /\ Cardinality(Past) \in Nat /\ Cardinality(Past') <= Cardinality(Writers)
    BY <1>2, Finite, FS_Subset, FS_CardinalityType
  <1>4. Cardinality(Past') = Cardinality(Past) + 1
    BY <1>2, <1>3, FS_AddElement
  <1>5. row.version \in Nat
    BY RowVersions DEF Types, TypeOK
  <1>. QED
    BY <1>3, <1>4, <1>5, Finite DEF Types, Versions

\* Other steps of a writer leave it counted or do not make it bump again.
LEMMA Counting ==
    ASSUME Types, NEW x \in Procs, NEW s, at' = [at EXCEPT ![x] = s],
           s \in {"new", "update", "bump", "increment"} => x \notin Past,
           row'.version = row.version
    PROVE  row'.version <= Cardinality(Past')
  <1>1. at \in [Procs -> Steps] /\ Writers \subseteq Procs
    BY DEF Types, TypeOK, Procs
  <1>2. Past \subseteq Past' /\ Past' \subseteq Writers
    BY <1>1 DEF Past
  <1>3. IsFiniteSet(Past') /\ Cardinality(Past) <= Cardinality(Past')
    BY <1>2, Finite, FS_Subset
  <1>4. Cardinality(Past) \in Nat /\ Cardinality(Past') \in Nat
    BY <1>2, <1>3, FS_Subset, FS_CardinalityType
  <1>5. row.version \in Nat
    BY RowVersions DEF Types, TypeOK
  <1>. QED
    BY <1>3, <1>4, <1>5 DEF Types

LEMMA LocSet ==
    ASSUME Types, NEW x \in Procs, NEW l \in Local, loc' = [loc EXCEPT ![x] = l]
    PROVE  loc' \in [Procs -> Local] /\ loc'[x] = l /\ \A y \in Procs \ {x} : loc'[y] = loc[y]
  BY DEF Types, TypeOK, Local, Views

LEMMA CacheSet ==
    ASSUME Types, NEW k \in Keys, NEW e \in [view : Views, ttl : BOOLEAN],
           e = Empty \/ (e.ttl /\ e.view \in View), cache' = [cache EXCEPT ![k] = e]
    PROVE  /\ cache' \in [Keys -> [view : Views, ttl : BOOLEAN]] /\ cache'[k] = e
           /\ \A q \in Keys \ {k} : cache'[q] = cache[q]
           /\ \A q \in Keys : cache'[q] = Empty \/ (cache'[q].ttl /\ cache'[q].view \in View)
  BY DEF Types, TypeOK

----------------------------------------------------------------------------
(* What each step does, and that it keeps the types *)

\* x goes on to its next await; nobody else does.
Goes(x, here, next) ==
    /\ at[x] = here /\ at'[x] = next /\ faults' = faults
    /\ \A y \in Procs \ {x} : at'[y] = at[y]

LEMMA Awaiting ==
    ASSUME Types, NEW x \in Procs, NEW here, NEW next \in Steps, Await(x, here, next)
    PROVE  Goes(x, here, next) /\ at' = [at EXCEPT ![x] = next] /\ at' \in [Procs -> Steps]
  BY DEF Types, TypeOK, Await, Goes

\* Nothing but the step of x.
LEMMA OtherLoc ==
    ASSUME Types, NEW x \in Procs, NEW here, NEW next, Goes(x, here, next),
           \A y \in Procs \ {x} : loc'[y] = loc[y],
           next \in WithView => loc'[x].view # NoView
    PROVE  \A y \in Procs : at'[y] \in WithView => loc'[y].view # NoView
  BY DEF Types, Goes

LEMMA StartEffect ==
    ASSUME Types, NEW x \in Writers, NEW next \in {"update", "increment"}, WriterStarts(x, next)
    PROVE  /\ Types' /\ Goes(x, "new", next) /\ UNCHANGED <<row, payload, cache, answer>>
           /\ \A y \in Procs \ {x} : loc'[y] = loc[y]
           /\ loc'[x].row = row /\ loc'[x].next = loc[x].next /\ loc'[x].view = loc[x].view
           /\ Cardinality(InFlight \cap Writers) < MaxWriters
  <1>1. x \in Procs /\ next \in Steps /\ next \notin WithView
    BY DEF Procs, Steps, WithView
  <1>2. /\ Await(x, "new", next) /\ loc' = [loc EXCEPT ![x].row = row]
        /\ UNCHANGED <<row, payload, cache, locks, events, answer>>
        /\ Cardinality(InFlight \cap Writers) < MaxWriters
    BY DEF WriterStarts, store, redis
  <1>3. Goes(x, "new", next) /\ at' = [at EXCEPT ![x] = next] /\ at' \in [Procs -> Steps]
    BY <1>1, <1>2, Awaiting
  <1>. DEFINE l == [loc[x] EXCEPT !.row = row]
  <1>4. loc[x] \in Local /\ row \in Row
    BY <1>1 DEF Types, TypeOK, Local, Views
  <1>5. l \in Local /\ l.row = row /\ l.next = loc[x].next /\ l.view = loc[x].view
    BY <1>4 DEF Local
  <1>6. loc' = [loc EXCEPT ![x] = l]
    BY <1>1, <1>2
  <1>. HIDE DEF l
  <1>7. loc' \in [Procs -> Local] /\ loc'[x] = l /\ \A y \in Procs \ {x} : loc'[y] = loc[y]
    BY <1>1, <1>5, <1>6, LocSet
  <1>8. row'.version <= Cardinality(Past')
    BY <1>1, <1>2, <1>3, Counting DEF Goes, Past
  <1>9. \A y \in Procs : at'[y] \in WithView => loc'[y].view # NoView
    BY <1>1, <1>3, <1>7, OtherLoc
  <1>10. TypeOK'
    BY <1>2, <1>3, <1>7 DEF Types, TypeOK, Goes, Local, Views
  <1>. QED
    BY <1>2, <1>3, <1>5, <1>7, <1>8, <1>9, <1>10 DEF Types

LEMMA UpdateEffect ==
    ASSUME Types, NEW p \in Patches, PatchUpdate(p)
    PROVE  /\ Types' /\ Goes(p, "update", "bump") /\ UNCHANGED <<payload, cache, answer, loc>>
           /\ row' \in Row /\ row'.version = row.version
  <1>1. p \in Procs /\ "bump" \in Steps /\ "bump" \notin WithView
    BY DEF Procs, Writers, Steps, WithView
  <1>2. Await(p, "update", "bump") /\ UNCHANGED <<payload, cache, locks, events, loc, answer>>
    BY DEF PatchUpdate, redis
  <1>3. Goes(p, "update", "bump") /\ at' = [at EXCEPT ![p] = "bump"] /\ at' \in [Procs -> Steps]
    BY <1>1, <1>2, Awaiting
  <1>4. row \in Row
    BY DEF Types, TypeOK
  <1>5. row' \in Row /\ row'.version = row.version
    BY <1>4 DEF PatchUpdate, Row
  <1>6. row'.version <= Cardinality(Past')
    BY <1>1, <1>3, <1>5, Counting DEF Goes, Past
  <1>7. \A y \in Procs : at'[y] \in WithView => loc'[y].view # NoView
    BY <1>1, <1>2, <1>3, OtherLoc
  <1>8. TypeOK'
    BY <1>2, <1>3, <1>5 DEF Types, TypeOK, Goes
  <1>. QED
    BY <1>2, <1>3, <1>5, <1>6, <1>7, <1>8 DEF Types

\* What the increment makes of the row.
Bumped == [row EXCEPT !.version = @ + 1]

LEMMA BumpEffect ==
    ASSUME Types, NEW p \in Patches, PatchBump(p)
    PROVE  /\ Types' /\ Goes(p, "bump", "delOld") /\ UNCHANGED <<payload, cache, answer>>
           /\ row' = Bumped /\ row'.version = row.version + 1 /\ loc'[p].next = row'
           /\ loc'[p].row = loc[p].row /\ loc'[p].view = loc[p].view
           /\ \A y \in Procs \ {p} : loc'[y] = loc[y]
  <1>1. p \in Procs /\ p \in Writers /\ "delOld" \in Steps /\ "delOld" \notin WithView
    BY DEF Procs, Writers, Steps, WithView
  <1>2. /\ Await(p, "bump", "delOld") /\ row' = Bumped /\ loc' = [loc EXCEPT ![p].next = row']
        /\ UNCHANGED <<payload, cache, locks, events, answer>>
    BY DEF PatchBump, redis, Bumped
  <1>3. Goes(p, "bump", "delOld") /\ at' = [at EXCEPT ![p] = "delOld"] /\ at' \in [Procs -> Steps]
    BY <1>1, <1>2, Awaiting
  <1>4. row \in Row /\ loc[p] \in Local
    BY <1>1 DEF Types, TypeOK, Local, Views
  <1>5. row.version + 1 \in Versions /\ row.version + 1 <= Cardinality(Past')
    BY <1>1, <1>3, Bumping DEF Goes
  <1>6. row' \in Row /\ row'.version = row.version + 1
    BY <1>2, <1>4, <1>5 DEF Bumped, Row
  <1>7. PICK r \in Row : r = row'
    BY <1>6
  <1>. DEFINE l == [loc[p] EXCEPT !.next = r]
  <1>8. l \in Local /\ l.next = r /\ l.row = loc[p].row /\ l.view = loc[p].view
    BY <1>4 DEF Local
  <1>9. loc' = [loc EXCEPT ![p] = l]
    BY <1>2, <1>7
  <1>. HIDE DEF l
  <1>10. loc' \in [Procs -> Local] /\ loc'[p] = l /\ \A y \in Procs \ {p} : loc'[y] = loc[y]
    BY <1>1, <1>8, <1>9, LocSet
  <1>11. \A y \in Procs : at'[y] \in WithView => loc'[y].view # NoView
    BY <1>1, <1>3, <1>10, OtherLoc
  <1>12. TypeOK'
    BY <1>2, <1>3, <1>6, <1>10 DEF Types, TypeOK, Goes, Local, Views
  <1>. QED
    BY <1>2, <1>3, <1>5, <1>6, <1>7, <1>8, <1>10, <1>11, <1>12 DEF Types

\* A step that leaves the row alone and keeps the types of what it changes.
LEMMA Closing ==
    ASSUME Types, NEW x \in Procs, NEW here, NEW next \in Steps, Await(x, here, next),
           next \notin {"new", "update", "bump", "increment"}, UNCHANGED row,
           payload' \in Views, loc' \in [Procs -> Local], \A y \in Procs \ {x} : loc'[y] = loc[y],
           next \in WithView => loc'[x].view # NoView,
           cache' \in [Keys -> [view : Views, ttl : BOOLEAN]],
           \A q \in Keys : cache'[q] = Empty \/ (cache'[q].ttl /\ cache'[q].view \in View),
           locks' \subseteq Keys, events' \subseteq Keys, answer' \in [Readers -> Views]
    PROVE  Types' /\ Goes(x, here, next)
  <1>1. Goes(x, here, next) /\ at' = [at EXCEPT ![x] = next] /\ at' \in [Procs -> Steps]
    BY Awaiting
  <1>2. row'.version <= Cardinality(Past')
    BY <1>1, Counting
  <1>3. \A y \in Procs : at'[y] \in WithView => loc'[y].view # NoView
    BY <1>1, OtherLoc
  <1>4. TypeOK'
    BY <1>1 DEF Types, TypeOK, Goes, Local, Views
  <1>. QED
    BY <1>1, <1>2, <1>3, <1>4 DEF Types

\* What the types say of the parts of the state.
LEMMA Parts ==
    ASSUME Types
    PROVE  /\ row \in Row /\ payload \in Views /\ loc \in [Procs -> Local]
           /\ cache \in [Keys -> [view : Views, ttl : BOOLEAN]]
           /\ \A q \in Keys : cache[q] = Empty \/ (cache[q].ttl /\ cache[q].view \in View)
           /\ locks \subseteq Keys /\ events \subseteq Keys /\ answer \in [Readers -> Views]
           /\ \A x \in Procs : loc[x] \in Local /\ loc[x].row \in Row /\ loc[x].next \in Row
                               /\ loc[x].view \in Views
           /\ \A x \in Procs : Key(loc[x].row) \in Keys /\ Key(loc[x].next) \in Keys
  <1>1. /\ row \in Row /\ payload \in Views /\ loc \in [Procs -> Local]
        /\ cache \in [Keys -> [view : Views, ttl : BOOLEAN]]
        /\ \A q \in Keys : cache[q] = Empty \/ (cache[q].ttl /\ cache[q].view \in View)
        /\ locks \subseteq Keys /\ events \subseteq Keys /\ answer \in [Readers -> Views]
    BY DEF Types, TypeOK, Local, Views
  <1>2. \A x \in Procs : loc[x] \in Local /\ loc[x].row \in Row /\ loc[x].next \in Row
                         /\ loc[x].view \in Views
    BY <1>1 DEF Local
  <1>. QED
    BY <1>1, <1>2, RowVersions

\* A key that is removed.
LEMMA DelSet ==
    ASSUME Types, NEW k \in Keys, Del(k)
    PROVE  /\ cache' \in [Keys -> [view : Views, ttl : BOOLEAN]] /\ cache'[k] = Empty
           /\ \A q \in Keys \ {k} : cache'[q] = cache[q]
           /\ \A q \in Keys : cache'[q] = Empty \/ (cache'[q].ttl /\ cache'[q].view \in View)
  BY CacheSet, EmptyType DEF Del

LEMMA DelEffect ==
    ASSUME Types, NEW p \in Patches, PatchDelOld(p) \/ PatchDelNew(p)
    PROVE  /\ Types' /\ UNCHANGED <<row, payload, loc, answer>>
           /\ \E here \in {"delOld", "delNew"}, next \in {"delNew", "reload"} : Goes(p, here, next)
           /\ \A q \in Keys : cache'[q] \in {cache[q], Empty}
  <1>1. p \in Procs
    BY DEF Procs, Writers
  <1>2. PICK here \in {"delOld", "delNew"}, next \in {"delNew", "reload"}, k \in Keys :
            Await(p, here, next) /\ Del(k)
    BY <1>1, Parts DEF PatchDelOld, PatchDelNew
  <1>3. UNCHANGED <<row, payload, locks, events, loc, answer>>
    BY DEF PatchDelOld, PatchDelNew, store
  <1>4. /\ cache' \in [Keys -> [view : Views, ttl : BOOLEAN]] /\ cache'[k] = Empty
        /\ \A q \in Keys \ {k} : cache'[q] = cache[q]
        /\ \A q \in Keys : cache'[q] = Empty \/ (cache'[q].ttl /\ cache'[q].view \in View)
    BY <1>2, DelSet
  <1>5. /\ next \in Steps /\ next \notin {"new", "update", "bump", "increment"} /\ next \notin WithView
        /\ payload' \in Views /\ loc' \in [Procs -> Local] /\ locks' \subseteq Keys
        /\ events' \subseteq Keys /\ answer' \in [Readers -> Views]
    BY <1>3, Parts DEF Steps, WithView
  <1>6. Await(p, here, next)
    BY <1>2
  <1>7. Types' /\ Goes(p, here, next)
    BY <1>1, <1>3, <1>4, <1>5, <1>6, Closing
  <1>. QED
    BY <1>3, <1>4, <1>7

LEMMA ReloadEffect ==
    ASSUME Types, NEW p \in Patches, PatchReload(p)
    PROVE  /\ Types' /\ UNCHANGED <<row, payload, cache, loc, answer>>
           /\ IF row.slug = loc[p].next.slug THEN Goes(p, "reload", "include")
                                             ELSE Goes(p, "reload", "done")
  <1>1. p \in Procs
    BY DEF Procs, Writers
  <1>2. UNCHANGED <<row, payload, cache, locks, events, loc, answer>>
    BY DEF PatchReload, store, redis
  <1>3. /\ payload' \in Views /\ locks' \subseteq Keys /\ events' \subseteq Keys
        /\ answer' \in [Readers -> Views] /\ loc' \in [Procs -> Local]
        /\ cache' \in [Keys -> [view : Views, ttl : BOOLEAN]]
        /\ \A q \in Keys : cache'[q] = Empty \/ (cache'[q].ttl /\ cache'[q].view \in View)
    BY <1>2, Parts
  <1>4. ASSUME NEW next \in {"include", "done"}, Await(p, "reload", next)
        PROVE  Types' /\ Goes(p, "reload", next)
    BY <1>1, <1>2, <1>3, <1>4, Closing DEF Steps, WithView
  <1>. QED
    BY <1>2, <1>4 DEF PatchReload

LEMMA IncludeEffect ==
    ASSUME Types, NEW x \in Procs, NEW next \in {"rewrite", "get"}, Include(x, next)
    PROVE  /\ Types' /\ UNCHANGED <<row, payload, cache, answer>>
           /\ IF payload # NoView THEN Goes(x, "include", next) ELSE Goes(x, "include", "done")
           /\ loc'[x].view = payload /\ loc'[x].row = loc[x].row /\ loc'[x].next = loc[x].next
           /\ \A y \in Procs \ {x} : loc'[y] = loc[y]
  <1>1. /\ UNCHANGED <<row, payload, cache, locks, events, answer>>
        /\ loc' = [loc EXCEPT ![x].view = payload]
    BY DEF Include, store, redis
  <1>. DEFINE l == [loc[x] EXCEPT !.view = payload]
  <1>2. l \in Local /\ l.view = payload /\ l.row = loc[x].row /\ l.next = loc[x].next
    BY Parts DEF Local
  <1>3. loc' = [loc EXCEPT ![x] = l]
    BY <1>1
  <1>. HIDE DEF l
  <1>4. loc' \in [Procs -> Local] /\ loc'[x] = l /\ \A y \in Procs \ {x} : loc'[y] = loc[y]
    BY <1>2, <1>3, LocSet
  <1>5. /\ payload' \in Views /\ locks' \subseteq Keys /\ events' \subseteq Keys
        /\ answer' \in [Readers -> Views]
        /\ cache' \in [Keys -> [view : Views, ttl : BOOLEAN]]
        /\ \A q \in Keys : cache'[q] = Empty \/ (cache'[q].ttl /\ cache'[q].view \in View)
    BY <1>1, Parts
  <1>6. ASSUME NEW then \in {next, "done"}, Await(x, "include", then),
               then # "done" => payload # NoView
        PROVE  Types' /\ Goes(x, "include", then)
    <2>1. then \in Steps /\ then \notin {"new", "update", "bump", "increment"}
      BY <1>6 DEF Steps
    <2>2. then \in WithView => loc'[x].view # NoView
      BY <1>2, <1>4, <1>6 DEF WithView
    <2>. QED
      BY <1>1, <1>4, <1>5, <1>6, <2>1, <2>2, Closing
  <1>. QED
    BY <1>1, <1>2, <1>4, <1>6 DEF Include

LEMMA RewriteEffect ==
    ASSUME Types, NEW p \in Patches, PatchRewrite(p)
    PROVE  /\ Types' /\ Goes(p, "rewrite", "done") /\ UNCHANGED <<row, cache, loc, answer>>
           /\ loc[p].view \in View
           /\ payload'.visibility = loc[p].next.visibility /\ payload'.name = loc[p].next.name
           /\ payload'.version = loc[p].next.version
  <1>1. p \in Procs /\ loc[p].next \in Row
    BY Parts DEF Procs, Writers
  <1>2. /\ Await(p, "rewrite", "done") /\ UNCHANGED <<row, cache, locks, events, loc, answer>>
        /\ payload' = [loc[p].view EXCEPT !.visibility = loc[p].next.visibility,
                                          !.name = loc[p].next.name,
                                          !.version = loc[p].next.version]
    BY DEF PatchRewrite, redis
  <1>3. loc[p].view \in View
    BY <1>1, <1>2, Parts DEF Types, WithView, Await, Views
  <1>4. /\ payload' \in View
        /\ payload'.visibility = loc[p].next.visibility /\ payload'.name = loc[p].next.name
        /\ payload'.version = loc[p].next.version
    BY <1>1, <1>2, <1>3 DEF View, Row
  <1>5. Types' /\ Goes(p, "rewrite", "done")
    BY <1>1, <1>2, <1>4, Parts, Closing DEF Steps, WithView, Views
  <1>. QED
    BY <1>2, <1>3, <1>4, <1>5

LEMMA IncrementEffect ==
    ASSUME Types, NEW j \in Projections, ProjectIncrement(j)
    PROVE  /\ Types' /\ Goes(j, "increment", "upsert") /\ UNCHANGED <<payload, cache, answer>>
           /\ row' = Bumped /\ row'.version = row.version + 1
           /\ loc'[j].next.version = row'.version
           /\ loc'[j].next.slug = loc[j].row.slug
           /\ loc'[j].next.visibility = loc[j].row.visibility
           /\ loc'[j].next.name = loc[j].row.name
           /\ loc'[j].row = loc[j].row /\ loc'[j].view = loc[j].view
           /\ \A y \in Procs \ {j} : loc'[y] = loc[y]
  <1>1. j \in Procs /\ j \in Writers /\ "upsert" \in Steps /\ "upsert" \notin WithView
    BY DEF Procs, Writers, Steps, WithView
  <1>2. /\ Await(j, "increment", "upsert") /\ row' = Bumped
        /\ loc' = [loc EXCEPT ![j].next = [loc[j].row EXCEPT !.version = row'.version]]
        /\ UNCHANGED <<payload, cache, locks, events, answer>>
    BY DEF ProjectIncrement, redis, Bumped
  <1>3. Goes(j, "increment", "upsert") /\ at' = [at EXCEPT ![j] = "upsert"] /\ at' \in [Procs -> Steps]
    BY <1>1, <1>2, Awaiting
  <1>4. row \in Row /\ loc[j] \in Local /\ loc[j].row \in Row
    BY <1>1, Parts
  <1>5. row.version + 1 \in Versions /\ row.version + 1 <= Cardinality(Past')
    BY <1>1, <1>3, Bumping DEF Goes
  <1>6. row' \in Row /\ row'.version = row.version + 1 /\ row'.version \in Versions
    BY <1>2, <1>4, <1>5 DEF Bumped, Row
  <1>7. PICK n \in Versions : n = row'.version
    BY <1>6
  <1>. DEFINE next == [loc[j].row EXCEPT !.version = n]
              l == [loc[j] EXCEPT !.next = next]
  <1>8. /\ next \in Row /\ next.version = n /\ next.slug = loc[j].row.slug
        /\ next.visibility = loc[j].row.visibility /\ next.name = loc[j].row.name
    BY <1>4 DEF Row
  <1>9. loc' = [loc EXCEPT ![j] = l]
    BY <1>2, <1>7
  <1>. HIDE DEF next
  <1>10. l \in Local /\ l.next = next /\ l.row = loc[j].row /\ l.view = loc[j].view
    BY <1>4, <1>8 DEF Local
  <1>. HIDE DEF l
  <1>11. loc' \in [Procs -> Local] /\ loc'[j] = l /\ \A y \in Procs \ {j} : loc'[y] = loc[y]
    BY <1>1, <1>9, <1>10, LocSet
  <1>12. \A y \in Procs : at'[y] \in WithView => loc'[y].view # NoView
    BY <1>1, <1>3, <1>11, OtherLoc
  <1>13. TypeOK'
    BY <1>2, <1>3, <1>6, <1>11 DEF Types, TypeOK, Goes, Local, Views
  <1>14. Types'
    BY <1>2, <1>5, <1>6, <1>12, <1>13 DEF Types
  <1>15. loc'[j].next = next /\ loc'[j].row = loc[j].row /\ loc'[j].view = loc[j].view
    BY <1>10, <1>11
  <1>. QED
    BY <1>2, <1>3, <1>6, <1>7, <1>8, <1>11, <1>14, <1>15

LEMMA UpsertEffect ==
    ASSUME Types, NEW j \in Projections, ProjectUpsert(j)
    PROVE  /\ Types' /\ UNCHANGED <<row, cache, loc, answer>>
           /\ payload' = ViewOf(loc[j].next, j) /\ payload' \in View
           /\ \E next \in {"setex", "done"} : Goes(j, "upsert", next)
  <1>1. j \in Procs /\ loc[j].next \in Row
    BY Parts DEF Procs, Writers
  <1>2. UNCHANGED <<row, cache, locks, events, loc, answer>> /\ payload' = ViewOf(loc[j].next, j)
    BY DEF ProjectUpsert, redis
  <1>3. PICK next \in {"setex", "done"} : Await(j, "upsert", next)
    BY DEF ProjectUpsert
  <1>4. payload' \in View
    BY <1>1, <1>2, ViewOfType
  <1>5. /\ next \in Steps /\ next \notin {"new", "update", "bump", "increment"} /\ next \notin WithView
        /\ payload' \in Views /\ loc' \in [Procs -> Local] /\ locks' \subseteq Keys
        /\ events' \subseteq Keys /\ answer' \in [Readers -> Views]
        /\ cache' \in [Keys -> [view : Views, ttl : BOOLEAN]]
        /\ \A q \in Keys : cache'[q] = Empty \/ (cache'[q].ttl /\ cache'[q].view \in View)
    BY <1>2, <1>4, Parts DEF Steps, WithView, Views
  <1>6. Types' /\ Goes(j, "upsert", next)
    BY <1>1, <1>2, <1>3, <1>5, Closing
  <1>. QED
    BY <1>2, <1>4, <1>6

LEMMA SetexEffect ==
    ASSUME Types, NEW j \in Projections, ProjectSetex(j)
    PROVE  /\ Types' /\ UNCHANGED <<row, payload, loc, answer>> /\ Goes(j, "setex", "publish")
           /\ loc[j].next \in Row
           /\ cache'[Key(loc[j].next)].view = ViewOf(loc[j].next, j)
           /\ \A q \in Keys \ {Key(loc[j].next)} : cache'[q] = cache[q]
  <1>1. j \in Procs /\ loc[j].next \in Row /\ Key(loc[j].next) \in Keys
    BY Parts DEF Procs, Writers
  <1>2. /\ UNCHANGED <<row, payload, locks, events, loc, answer>> /\ Await(j, "setex", "publish")
        /\ cache' = [cache EXCEPT ![Key(loc[j].next)] = Entry(ViewOf(loc[j].next, j))]
    BY DEF ProjectSetex, store
  <1>3. PICK v \in View : v = ViewOf(loc[j].next, j)
    BY <1>1, ViewOfType
  <1>4. Entry(v) \in [view : Views, ttl : BOOLEAN] /\ Entry(v).view = v /\ Entry(v).ttl
    BY EntryType DEF Views
  <1>5. PICK k \in Keys : k = Key(loc[j].next)
    BY <1>1
  <1>6. cache' = [cache EXCEPT ![k] = Entry(v)]
    BY <1>2, <1>3, <1>5
  <1>7. /\ cache' \in [Keys -> [view : Views, ttl : BOOLEAN]] /\ cache'[k] = Entry(v)
        /\ \A q \in Keys \ {k} : cache'[q] = cache[q]
        /\ \A q \in Keys : cache'[q] = Empty \/ (cache'[q].ttl /\ cache'[q].view \in View)
    BY <1>4, <1>6, CacheSet
  <1>8. /\ "publish" \in Steps /\ "publish" \notin WithView
        /\ "publish" \notin {"new", "update", "bump", "increment"}
        /\ payload' \in Views /\ loc' \in [Procs -> Local] /\ locks' \subseteq Keys
        /\ events' \subseteq Keys /\ answer' \in [Readers -> Views]
    BY <1>2, Parts DEF Steps, WithView
  <1>9. Types' /\ Goes(j, "setex", "publish")
    BY <1>1, <1>2, <1>7, <1>8, Closing
  <1>. QED
    BY <1>1, <1>2, <1>3, <1>4, <1>5, <1>7, <1>9

LEMMA PublishEffect ==
    ASSUME Types, NEW j \in Projections, ProjectPublish(j)
    PROVE  /\ Types' /\ UNCHANGED <<row, payload, cache, loc, answer>> /\ Goes(j, "publish", "done")
  <1>1. j \in Procs /\ Key(loc[j].row) \in Keys
    BY Parts DEF Procs, Writers
  <1>2. /\ UNCHANGED <<row, payload, cache, locks, loc, answer>> /\ Await(j, "publish", "done")
        /\ events' = events \cup {Key(loc[j].row)}
    BY DEF ProjectPublish, store, redis
  <1>3. /\ "done" \in Steps /\ "done" \notin WithView
        /\ "done" \notin {"new", "update", "bump", "increment"}
        /\ payload' \in Views /\ loc' \in [Procs -> Local] /\ locks' \subseteq Keys
        /\ events' \subseteq Keys /\ answer' \in [Readers -> Views]
        /\ cache' \in [Keys -> [view : Views, ttl : BOOLEAN]]
        /\ \A q \in Keys : cache'[q] = Empty \/ (cache'[q].ttl /\ cache'[q].view \in View)
    BY <1>1, <1>2, Parts DEF Steps, WithView
  <1>4. Types' /\ Goes(j, "publish", "done")
    BY <1>1, <1>2, <1>3, Closing
  <1>. QED
    BY <1>2, <1>4

LEMMA ReadEffect ==
    ASSUME Types, NEW r \in Readers, ReadRow(r)
    PROVE  /\ Types' /\ UNCHANGED <<row, payload, cache, answer>>
           /\ \/ Goes(r, "new", "done") /\ loc' = loc
              \/ /\ Goes(r, "new", "include") /\ loc'[r].row = row /\ loc'[r].view = loc[r].view
                 /\ loc'[r].next = loc[r].next /\ \A y \in Procs \ {r} : loc'[y] = loc[y]
  <1>1. r \in Procs
    BY DEF Procs
  <1>2. UNCHANGED <<row, payload, cache, locks, events, answer>>
    BY DEF ReadRow, store, redis
  <1>3. /\ payload' \in Views /\ locks' \subseteq Keys /\ events' \subseteq Keys
        /\ answer' \in [Readers -> Views]
        /\ cache' \in [Keys -> [view : Views, ttl : BOOLEAN]]
        /\ \A q \in Keys : cache'[q] = Empty \/ (cache'[q].ttl /\ cache'[q].view \in View)
    BY <1>2, Parts
  <1>4. CASE Await(r, "new", "done") /\ loc' = loc
    <2>1. /\ "done" \in Steps /\ "done" \notin WithView
          /\ "done" \notin {"new", "update", "bump", "increment"} /\ loc' \in [Procs -> Local]
      BY <1>4, Parts DEF Steps, WithView
    <2>2. Types' /\ Goes(r, "new", "done")
      BY <1>1, <1>2, <1>3, <1>4, <2>1, Closing
    <2>. QED
      BY <1>2, <1>4, <2>2
  <1>5. CASE Await(r, "new", "include") /\ loc' = [loc EXCEPT ![r].row = row]
    <2>1. row \in Row /\ loc[r] \in Local
      BY <1>1, Parts
    <2>. DEFINE l == [loc[r] EXCEPT !.row = row]
    <2>2. l \in Local /\ l.row = row /\ l.view = loc[r].view /\ l.next = loc[r].next
      BY <2>1 DEF Local
    <2>3. loc' = [loc EXCEPT ![r] = l]
      BY <1>5
    <2>. HIDE DEF l
    <2>4. loc' \in [Procs -> Local] /\ loc'[r] = l /\ \A y \in Procs \ {r} : loc'[y] = loc[y]
      BY <1>1, <2>2, <2>3, LocSet
    <2>5. /\ "include" \in Steps /\ "include" \notin WithView
          /\ "include" \notin {"new", "update", "bump", "increment"}
      BY DEF Steps, WithView
    <2>6. Types' /\ Goes(r, "new", "include")
      BY <1>1, <1>2, <1>3, <1>5, <2>4, <2>5, Closing
    <2>. QED
      BY <1>2, <2>2, <2>4, <2>6
  <1>. QED
    BY <1>4, <1>5 DEF ReadRow

LEMMA LookupEffect ==
    ASSUME Types, NEW r \in Readers, Get(r) \/ Retry(r)
    PROVE  /\ Types' /\ UNCHANGED <<row, payload, cache, loc>>
           /\ \E here \in {"get", "retry"}, next \in {"lock", "fill", "done"} : Goes(r, here, next)
           /\ \/ answer' = answer
              \/ /\ cache[Key(loc[r].row)] # Empty
                 /\ answer'[r] = cache[Key(loc[r].row)].view
                 /\ \A y \in Readers \ {r} : answer'[y] = answer[y]
  <1>1. r \in Procs /\ Key(loc[r].row) \in Keys
    BY Parts DEF Procs
  <1>2. /\ UNCHANGED <<row, payload, cache, locks, events, loc>>
        /\ answer' = IF cache[Key(loc[r].row)] = Empty THEN answer
                     ELSE [answer EXCEPT ![r] = cache[Key(loc[r].row)].view]
    BY DEF Get, Retry, Lookup, store, redis
  <1>3. PICK here \in {"get", "retry"}, next \in {"lock", "fill", "done"} : Await(r, here, next)
    BY DEF Get, Retry, Lookup
  <1>4. cache[Key(loc[r].row)].view \in Views /\ answer \in [Readers -> Views]
    BY <1>1, Parts
  <1>5. /\ answer' \in [Readers -> Views]
        /\ \/ answer' = answer
           \/ /\ cache[Key(loc[r].row)] # Empty
              /\ answer'[r] = cache[Key(loc[r].row)].view
              /\ \A y \in Readers \ {r} : answer'[y] = answer[y]
    BY <1>2, <1>4
  <1>6. at[r] \in WithView
    BY <1>3 DEF Await, WithView
  <1>7. loc'[r].view # NoView
    BY <1>1, <1>2, <1>6 DEF Types
  <1>8. /\ next \in Steps /\ next \notin {"new", "update", "bump", "increment"}
        /\ payload' \in Views /\ loc' \in [Procs -> Local] /\ locks' \subseteq Keys
        /\ events' \subseteq Keys
        /\ cache' \in [Keys -> [view : Views, ttl : BOOLEAN]]
        /\ \A q \in Keys : cache'[q] = Empty \/ (cache'[q].ttl /\ cache'[q].view \in View)
    BY <1>2, Parts DEF Steps
  <1>9. Types' /\ Goes(r, here, next)
    BY <1>1, <1>2, <1>3, <1>5, <1>7, <1>8, Closing
  <1>. QED
    BY <1>2, <1>5, <1>9

LEMMA LockEffect ==
    ASSUME Types, NEW r \in Readers, Lock(r)
    PROVE  /\ Types' /\ UNCHANGED <<row, payload, cache, loc, answer>>
           /\ \E next \in {"retry", "fill"} : Goes(r, "lock", next)
  <1>1. r \in Procs /\ Key(loc[r].row) \in Keys
    BY Parts DEF Procs
  <1>2. /\ UNCHANGED <<row, payload, cache, events, loc, answer>>
        /\ locks' = locks \cup {Key(loc[r].row)}
    BY DEF Lock, store
  <1>3. PICK next \in {"retry", "fill"} : Await(r, "lock", next)
    BY DEF Lock
  <1>4. at[r] \in WithView
    BY <1>3 DEF Await, WithView
  <1>5. loc'[r].view # NoView
    BY <1>1, <1>2, <1>4 DEF Types
  <1>6. /\ next \in Steps /\ next \notin {"new", "update", "bump", "increment"}
        /\ payload' \in Views /\ loc' \in [Procs -> Local] /\ locks' \subseteq Keys
        /\ events' \subseteq Keys /\ answer' \in [Readers -> Views]
        /\ cache' \in [Keys -> [view : Views, ttl : BOOLEAN]]
        /\ \A q \in Keys : cache'[q] = Empty \/ (cache'[q].ttl /\ cache'[q].view \in View)
    BY <1>1, <1>2, Parts DEF Steps
  <1>7. Types' /\ Goes(r, "lock", next)
    BY <1>1, <1>2, <1>3, <1>5, <1>6, Closing
  <1>. QED
    BY <1>2, <1>7

LEMMA FillEffect ==
    ASSUME Types, NEW r \in Readers, Fill(r)
    PROVE  /\ Types' /\ UNCHANGED <<row, payload, loc, answer>> /\ Goes(r, "fill", "unlock")
           /\ loc[r].row \in Row
           /\ cache'[Key(loc[r].row)].view = loc[r].view
           /\ \A q \in Keys \ {Key(loc[r].row)} : cache'[q] = cache[q]
  <1>1. r \in Procs /\ loc[r].row \in Row
    BY Parts DEF Procs
  <1>2. /\ UNCHANGED <<row, payload, locks, events, loc, answer>> /\ Await(r, "fill", "unlock")
        /\ cache' = [cache EXCEPT ![Key(loc[r].row)] = Entry(loc[r].view)]
    BY DEF Fill, store
  <1>3. at[r] \in WithView
    BY <1>2 DEF Await, WithView
  <1>4. loc[r].view # NoView /\ loc'[r].view # NoView /\ loc[r].view \in View
    BY <1>1, <1>2, <1>3, Parts DEF Types, Views
  <1>5. PICK v \in View : v = loc[r].view
    BY <1>4
  <1>6. Entry(v) \in [view : Views, ttl : BOOLEAN] /\ Entry(v).view = v /\ Entry(v).ttl
    BY EntryType DEF Views
  <1>7. PICK k \in Keys : k = Key(loc[r].row)
    BY <1>1, Parts
  <1>8. cache' = [cache EXCEPT ![k] = Entry(v)]
    BY <1>2, <1>5, <1>7
  <1>9. /\ cache' \in [Keys -> [view : Views, ttl : BOOLEAN]] /\ cache'[k] = Entry(v)
        /\ \A q \in Keys \ {k} : cache'[q] = cache[q]
        /\ \A q \in Keys : cache'[q] = Empty \/ (cache'[q].ttl /\ cache'[q].view \in View)
    BY <1>6, <1>8, CacheSet
  <1>10. /\ "unlock" \in Steps /\ "unlock" \notin {"new", "update", "bump", "increment"}
         /\ payload' \in Views /\ loc' \in [Procs -> Local] /\ locks' \subseteq Keys
         /\ events' \subseteq Keys /\ answer' \in [Readers -> Views]
    BY <1>2, Parts DEF Steps
  <1>11. Types' /\ Goes(r, "fill", "unlock")
    BY <1>1, <1>2, <1>4, <1>9, <1>10, Closing
  <1>. QED
    BY <1>1, <1>2, <1>5, <1>6, <1>7, <1>9, <1>11

LEMMA UnlockEffect ==
    ASSUME Types, NEW r \in Readers, Unlock(r)
    PROVE  /\ Types' /\ UNCHANGED <<row, payload, cache, loc>> /\ Goes(r, "unlock", "done")
           /\ answer'[r] = loc[r].view
           /\ \A y \in Readers \ {r} : answer'[y] = answer[y]
  <1>1. r \in Procs /\ Key(loc[r].row) \in Keys /\ loc[r].view \in Views
    BY Parts DEF Procs
  <1>2. /\ UNCHANGED <<row, payload, cache, events, loc>> /\ Await(r, "unlock", "done")
        /\ locks' = locks \ {Key(loc[r].row)} /\ answer' = [answer EXCEPT ![r] = loc[r].view]
    BY DEF Unlock, store
  <1>3. /\ "done" \in Steps /\ "done" \notin {"new", "update", "bump", "increment"}
        /\ "done" \notin WithView
        /\ payload' \in Views /\ loc' \in [Procs -> Local] /\ locks' \subseteq Keys
        /\ events' \subseteq Keys
        /\ cache' \in [Keys -> [view : Views, ttl : BOOLEAN]]
        /\ \A q \in Keys : cache'[q] = Empty \/ (cache'[q].ttl /\ cache'[q].view \in View)
    BY <1>2, Parts DEF Steps, WithView
  <1>4. /\ answer' \in [Readers -> Views] /\ answer'[r] = loc[r].view
        /\ \A y \in Readers \ {r} : answer'[y] = answer[y]
    BY <1>1, <1>2, Parts
  <1>5. Types' /\ Goes(r, "unlock", "done")
    BY <1>1, <1>2, <1>3, <1>4, Closing
  <1>. QED
    BY <1>2, <1>4, <1>5

\* Steps of nobody.
LEMMA TimeEffect ==
    ASSUME Types,
           \/ Invalidate \/ LockExpires \/ LoseMessage \/ \E k \in Keys : Expire(k)
    PROVE  /\ Types' /\ UNCHANGED <<row, payload, loc, answer, at>>
           /\ \A q \in Keys : cache'[q] \in {cache[q], Empty}
           /\ faults' \in {faults, faults + 1}
  <1>1. UNCHANGED <<row, payload, at, loc, answer>>
    BY DEF Invalidate, LockExpires, LoseMessage, Expire, store
  <1>2. locks' \subseteq Keys /\ events' \subseteq Keys
    BY Parts DEF Invalidate, LockExpires, LoseMessage, Expire, redis
  <1>3. /\ cache' \in [Keys -> [view : Views, ttl : BOOLEAN]]
        /\ \A q \in Keys : cache'[q] \in {cache[q], Empty}
        /\ \A q \in Keys : cache'[q] = Empty \/ (cache'[q].ttl /\ cache'[q].view \in View)
    <2>1. CASE \E k \in Keys : Del(k)
      <3>1. PICK k \in Keys : Del(k)
        BY <2>1
      <3>2. /\ cache' \in [Keys -> [view : Views, ttl : BOOLEAN]] /\ cache'[k] = Empty
            /\ \A q \in Keys \ {k} : cache'[q] = cache[q]
            /\ \A q \in Keys : cache'[q] = Empty \/ (cache'[q].ttl /\ cache'[q].view \in View)
        BY <3>1, DelSet
      <3>. QED
        BY <3>2
    <2>2. CASE cache' = cache
      BY <2>2, Parts
    <2>3. events \subseteq Keys
      BY Parts
    <2>. QED
      BY <2>1, <2>2, <2>3 DEF Invalidate, LockExpires, LoseMessage, Expire, redis
  <1>4. faults' \in {faults, faults + 1} /\ faults' \in 0..MaxFaults
    BY ProfileAssumption DEF Invalidate, LockExpires, LoseMessage, Expire, Fault, Types, TypeOK
  <1>5. Past' = Past
    BY <1>1 DEF Past
  <1>6. TypeOK'
    BY <1>1, <1>2, <1>3, <1>4 DEF Types, TypeOK
  <1>. QED
    BY <1>1, <1>3, <1>4, <1>5, <1>6 DEF Types

LEMMA DiesEffect ==
    ASSUME Types, NEW x \in Procs, Dies(x)
    PROVE  /\ Types' /\ UNCHANGED <<row, payload, cache, loc, answer>>
           /\ faults' = faults + 1 /\ faults \in Nat
           /\ at[x] # "new" /\ at' = [at EXCEPT ![x] = "done"]
  <1>1. /\ UNCHANGED <<row, payload, cache, locks, events, loc, answer>>
        /\ at' = [at EXCEPT ![x] = "done"] /\ faults < MaxFaults /\ faults' = faults + 1
        /\ at[x] # "new"
    BY DEF Dies, store, redis, Fault, InFlight
  <1>2. faults \in Nat /\ faults' \in 0..MaxFaults
    BY <1>1, ProfileAssumption DEF Types, TypeOK
  <1>3. row'.version <= Cardinality(Past')
    BY <1>1, Counting
  <1>4. /\ at' \in [Procs -> Steps]
        /\ \A y \in Procs : at'[y] \in WithView => loc'[y].view # NoView
    BY <1>1 DEF Types, TypeOK, Steps, WithView
  <1>5. TypeOK'
    BY <1>1, <1>2, <1>4 DEF Types, TypeOK
  <1>. QED
    BY <1>1, <1>2, <1>3, <1>4, <1>5 DEF Types

LEMMA InitTypes == Init => Types
  <1>. SUFFICES ASSUME Init PROVE Types
    OBVIOUS
  <1>1. PICK s \in Slugs :
            LET first == [slug |-> s, visibility |-> "public", name |-> None, version |-> 0]
            IN  row = first /\ loc = [x \in Procs |-> [row |-> first, next |-> first, view |-> NoView]]
    BY DEF Init
  <1>. DEFINE first == [slug |-> s, visibility |-> "public", name |-> None, version |-> 0]
              l == [row |-> first, next |-> first, view |-> NoView]
  <1>2. first \in Row /\ first.version = 0
    BY Finite DEF Row, Visibility
  <1>3. row = first /\ loc = [x \in Procs |-> l]
    BY <1>1
  <1>. HIDE DEF first
  <1>4. l \in [row : Row, next : Row, view : Views]
    BY <1>2 DEF Views
  <1>. HIDE DEF l
  <1>5. loc \in [Procs -> [row : Row, next : Row, view : View \cup {NoView}]]
    BY <1>3, <1>4 DEF Views
  <1>6. at = [x \in Procs |-> "new"] /\ at \in [Procs -> Steps] /\ "new" \notin WithView
    BY DEF Init, Steps, WithView
  <1>7. /\ cache = [k \in Keys |-> Empty] /\ payload = NoView /\ locks = {} /\ events = {}
        /\ answer = [r \in Readers |-> NoView] /\ faults = 0
    BY DEF Init
  <1>8. cache \in [Keys -> [view : Views, ttl : BOOLEAN]]
    BY <1>7, EmptyType
  <1>9. Past = {}
    BY <1>6 DEF Past, Procs
  <1>10. row.version <= Cardinality(Past)
    BY <1>2, <1>3, <1>9, FS_EmptySet
  <1>11. TypeOK
    BY <1>2, <1>3, <1>5, <1>6, <1>7, ProfileAssumption DEF TypeOK
  <1>. QED
    BY <1>6, <1>8, <1>10, <1>11 DEF Types

LEMMA TypesHold == Spec => []Types
  <1>1. Types /\ [Next]_vars => Types'
    <2>. SUFFICES ASSUME Types, [Next]_vars PROVE Types'
      OBVIOUS
    <2>1. ASSUME NEW p \in Patches, PatchRead(p) \/ PatchStep(p) PROVE Types'
      BY <2>1, StartEffect, UpdateEffect, BumpEffect, DelEffect, ReloadEffect, IncludeEffect,
         RewriteEffect DEF PatchRead, PatchStep, PatchInclude, Writers, Procs
    <2>2. ASSUME NEW j \in Projections, ProjectRead(j) \/ ProjectStep(j) PROVE Types'
      BY <2>2, StartEffect, IncrementEffect, UpsertEffect, SetexEffect, PublishEffect
         DEF ProjectRead, ProjectStep, Writers
    <2>3. ASSUME NEW r \in Readers, ReadRow(r) \/ ReadStep(r) PROVE Types'
      BY <2>3, ReadEffect, IncludeEffect, LookupEffect, LockEffect, FillEffect, UnlockEffect
         DEF ReadStep, ReadInclude, Procs
    <2>4. ASSUME \/ Invalidate \/ LockExpires \/ LoseMessage \/ \E k \in Keys : Expire(k)
                 \/ \E x \in Procs : Dies(x)
          PROVE  Types'
      BY <2>4, TimeEffect, DiesEffect
    <2>5. CASE UNCHANGED vars
      BY <2>5 DEF vars, Types, TypeOK, Past
    <2>. QED
      BY <2>1, <2>2, <2>3, <2>4, <2>5 DEF Next
  <1>. QED
    BY InitTypes, <1>1, PTL DEF Spec

\* ProfileCache!TypeOK: row, payload, keys and requests keep their shape, and the version of the
\* row stays within the number of writers.
THEOREM TypeCorrect == Spec => []TypeOK
  <1>1. Types => TypeOK
    BY DEF Types
  <1>. QED
    BY <1>1, TypesHold, PTL

----------------------------------------------------------------------------
(* A version names one view *)

LEMMA Numbers ==
    ASSUME Types
    PROVE  /\ row.version \in Nat /\ payload.version \in Nat
           /\ \A x \in Procs : /\ loc[x].row.version \in Nat /\ loc[x].next.version \in Nat
                               /\ loc[x].view.version \in Nat
           /\ \A k \in Keys : cache[k].view.version \in Nat /\ k[2] \in Nat
           /\ NoView.version = 0 /\ Empty.view.version = 0
  <1>1. \A k \in Keys : cache[k].view \in Views
    BY Parts
  <1>. QED
    BY <1>1, Parts, RowVersions, ViewVersions, KeyVersions, EmptyType

\* What anybody has a copy of.
Held == Shown \cup ({loc[x].view : x \in Procs} \ {NoView})

\* Writers whose new version no payload carries yet, and those that may still write a key.
Unwritten == {x \in Writers : at[x] \in {"delOld", "delNew", "reload", "include", "rewrite", "upsert"}}
Owners == Unwritten \cup {x \in Writers : at[x] = "setex"}

Versioned ==
    /\ \A v, w \in Held : v.version <= row.version /\ (v.version = w.version => v = w)
    /\ \A x \in Unwritten, v \in Held : v.version # loc[x].next.version
    /\ \A x, y \in Owners : loc[x].next.version = loc[y].next.version => x = y
    /\ \A x \in Procs : loc[x].row.version <= row.version /\ loc[x].next.version <= row.version
    /\ \A j \in Projections, v \in Held :
           at[j] = "setex" /\ v.version = loc[j].next.version => v = ViewOf(loc[j].next, j)

\* Everything there is is held or no view.
LEMMA HeldHere ==
    /\ payload \in Held \cup {NoView}
    /\ \A k \in Keys : cache[k].view \in Held \cup {NoView}
    /\ \A r \in Readers : answer[r] \in Held \cup {NoView}
    /\ \A x \in Procs : loc[x].view \in Held \cup {NoView}
  BY DEF Held, Shown

LEMMA HeldNext ==
    ASSUME NEW S, payload' \in S,
           \A k \in Keys : cache'[k].view \in S, \A r \in Readers : answer'[r] \in S,
           \A x \in Procs : loc'[x].view \in S
    PROVE  Held' \subseteq S
  BY DEF Held, Shown

LEMMA HeldVersions == Types => \A v \in Held : v.version \in Nat
  <1>. SUFFICES ASSUME Types, NEW v \in Held PROVE v \in Views
    BY ViewVersions
  <1>1. \A k \in Keys : cache[k].view \in Views
    BY Parts
  <1>. QED
    BY <1>1, Parts DEF Held, Shown

\* A step of x that copies views and gives no version.
LEMMA Copied ==
    ASSUME Types, Versioned, NEW x \in Procs, Held' \subseteq Held \cup {NoView},
           row'.version = row.version, \A y \in Procs \ {x} : at'[y] = at[y] /\ loc'[y] = loc[y],
           loc'[x].next = loc[x].next, loc'[x].row.version <= row.version,
           x \in Unwritten' => x \in Unwritten, at'[x] # "setex" \/ at[x] = "setex"
    PROVE  Versioned'
  <1>1. Held' \subseteq Held
    BY DEF Held, Shown
  <1>2. Writers \subseteq Procs /\ Projections \subseteq Procs
    BY DEF Procs, Writers
  <1>3. Unwritten' \subseteq Unwritten /\ Owners' \subseteq Owners
        /\ \A j \in Projections : at'[j] = "setex" => at[j] = "setex"
    BY <1>2 DEF Unwritten, Owners
  <1>4. Owners \subseteq Procs /\ \A y \in Procs : loc'[y].next = loc[y].next
    BY <1>2 DEF Unwritten, Owners
  <1>5. /\ \A v, w \in Held' : v.version <= row'.version /\ (v.version = w.version => v = w)
        /\ \A y \in Unwritten', v \in Held' : v.version # loc'[y].next.version
    BY <1>1, <1>3, <1>4 DEF Versioned, Owners
  <1>6. \A y, z \in Owners' : loc'[y].next.version = loc'[z].next.version => y = z
    BY <1>3, <1>4 DEF Versioned
  <1>7. \A y \in Procs : loc'[y].row.version <= row'.version /\ loc'[y].next.version <= row'.version
    BY <1>4 DEF Versioned
  <1>8. \A j \in Projections, v \in Held' :
            at'[j] = "setex" /\ v.version = loc'[j].next.version => v = ViewOf(loc'[j].next, j)
    BY <1>1, <1>2, <1>3, <1>4 DEF Versioned
  <1>. QED
    BY <1>5, <1>6, <1>7, <1>8 DEF Versioned

\* A step in which x gets the next version.
LEMMA Numbered ==
    ASSUME Types, Versioned, NEW x \in Writers, Held' \subseteq Held \cup {NoView},
           row'.version = row.version + 1, \A y \in Procs \ {x} : at'[y] = at[y] /\ loc'[y] = loc[y],
           loc'[x].next.version = row'.version, loc'[x].row = loc[x].row,
           at'[x] \in {"delOld", "upsert"}
    PROVE  Versioned'
  <1>1. Held' \subseteq Held
    BY DEF Held, Shown
  <1>2. Writers \subseteq Procs /\ Projections \subseteq Procs /\ x \in Procs
    BY DEF Procs, Writers
  <1>3. Unwritten' \subseteq Unwritten \cup {x} /\ Owners' \subseteq Owners \cup {x}
        /\ \A j \in Projections : at'[j] = "setex" => at[j] = "setex" /\ j # x
    BY <1>2 DEF Unwritten, Owners
  <1>4. Owners \subseteq Procs /\ Unwritten \subseteq Procs
    BY <1>2 DEF Unwritten, Owners
  <1>5. row.version \in Nat /\ \A v \in Held : v.version \in Nat
    BY Numbers, HeldVersions
  <1>6. \A y \in Procs : loc[y].row.version \in Nat /\ loc[y].next.version \in Nat
    BY Numbers
  <1>7. \A v, w \in Held' : v.version <= row'.version /\ (v.version = w.version => v = w)
    BY <1>1, <1>5 DEF Versioned
  <1>8. \A y \in Unwritten', v \in Held' : v.version # loc'[y].next.version
    BY <1>1, <1>3, <1>4, <1>5 DEF Versioned
  <1>9. \A y, z \in Owners' : loc'[y].next.version = loc'[z].next.version => y = z
    BY <1>3, <1>4, <1>5, <1>6 DEF Versioned
  <1>10. \A y \in Procs : loc'[y].row.version <= row'.version /\ loc'[y].next.version <= row'.version
    BY <1>2, <1>5, <1>6 DEF Versioned
  <1>11. \A j \in Projections, v \in Held' :
             at'[j] = "setex" /\ v.version = loc'[j].next.version => v = ViewOf(loc'[j].next, j)
    BY <1>1, <1>2, <1>3 DEF Versioned
  <1>. QED
    BY <1>7, <1>8, <1>9, <1>10, <1>11 DEF Versioned

\* A step in which x writes the view w of its version.
LEMMA Written ==
    ASSUME Types, Versioned, NEW x \in Owners, NEW w, w.version = loc[x].next.version,
           \A v \in Held : v.version = w.version => v = w,
           Held' \subseteq Held \cup {w, NoView}, row' = row, loc' = loc,
           \A y \in Procs \ {x} : at'[y] = at[y], at'[x] \in {"done", "setex", "publish"},
           at'[x] = "setex" => w = ViewOf(loc[x].next, x)
    PROVE  Versioned'
  <1>1. Held' \subseteq Held \cup {w}
    BY DEF Held, Shown
  <1>2. Writers \subseteq Procs /\ Projections \subseteq Procs /\ Owners \subseteq Writers
    BY DEF Procs, Writers, Owners, Unwritten
  <1>3. Unwritten' \subseteq Unwritten \ {x} /\ Owners' \subseteq Owners
        /\ \A j \in Projections \ {x} : at'[j] = "setex" => at[j] = "setex" /\ j \in Owners
    BY <1>2 DEF Unwritten, Owners, Writers
  <1>4. \A v, u \in Held' : v.version <= row'.version /\ (v.version = u.version => v = u)
    BY <1>1, <1>2 DEF Versioned
  <1>5. \A y \in Unwritten', v \in Held' : v.version # loc'[y].next.version
    <2>. SUFFICES ASSUME NEW y \in Unwritten', NEW v \in Held' PROVE v.version # loc[y].next.version
      OBVIOUS
    <2>1. y \in Unwritten /\ y \in Owners /\ y # x
      BY <1>3 DEF Owners
    <2>. QED
      BY <1>1, <2>1 DEF Versioned
  <1>6. \A y, z \in Owners' : loc'[y].next.version = loc'[z].next.version => y = z
    BY <1>3 DEF Versioned
  <1>7. \A j \in Projections, v \in Held' :
            at'[j] = "setex" /\ v.version = loc'[j].next.version => v = ViewOf(loc'[j].next, j)
    <2>. SUFFICES ASSUME NEW j \in Projections, NEW v \in Held', at'[j] = "setex",
                         v.version = loc[j].next.version
                  PROVE  v = ViewOf(loc[j].next, j)
      OBVIOUS
    <2>1. CASE j = x
      BY <1>1, <2>1
    <2>2. CASE j # x
      BY <1>1, <1>3, <2>2 DEF Versioned
    <2>. QED
      BY <2>1, <2>2
  <1>8. \A y \in Procs : loc'[y].row.version <= row'.version /\ loc'[y].next.version <= row'.version
    BY DEF Versioned
  <1>. QED
    BY <1>4, <1>5, <1>6, <1>7, <1>8 DEF Versioned

LEMMA VersionedPatch ==
    ASSUME Types, Versioned, NEW p \in Patches, PatchRead(p) \/ PatchStep(p)
    PROVE  Versioned'
  <1>1. p \in Writers /\ p \in Procs /\ p \notin Projections
    BY ProfileAssumption DEF Procs, Writers
  <1>. DEFINE H == Held \cup {NoView}
  <1>2. CASE PatchRead(p)
    <2>1. WriterStarts(p, "update")
      BY <1>2 DEF PatchRead
    <2>2. /\ UNCHANGED <<row, payload, cache, answer>> /\ Goes(p, "new", "update")
          /\ \A y \in Procs \ {p} : loc'[y] = loc[y]
          /\ loc'[p].row = row /\ loc'[p].next = loc[p].next /\ loc'[p].view = loc[p].view
      BY <1>1, <2>1, StartEffect
    <2>3. Held' \subseteq H
      BY <1>1, <2>2, HeldHere, HeldNext
    <2>4. p \notin Unwritten' /\ at'[p] # "setex"
      BY <2>2 DEF Goes, Unwritten
    <2>. QED
      BY <1>1, <2>2, <2>3, <2>4, Copied, Numbers DEF Goes
  <1>3. CASE PatchUpdate(p)
    <2>1. /\ UNCHANGED <<payload, cache, answer, loc>> /\ row'.version = row.version
          /\ Goes(p, "update", "bump")
      BY <1>3, UpdateEffect
    <2>2. Held' \subseteq H
      BY <2>1, HeldHere, HeldNext
    <2>3. p \notin Unwritten' /\ at'[p] # "setex"
      BY <2>1 DEF Goes, Unwritten
    <2>. QED
      BY <1>1, <2>1, <2>2, <2>3, Copied DEF Goes, Versioned
  <1>4. CASE PatchBump(p)
    <2>1. /\ UNCHANGED <<payload, cache, answer>> /\ row'.version = row.version + 1
          /\ loc'[p].next.version = row'.version /\ loc'[p].row = loc[p].row
          /\ loc'[p].view = loc[p].view /\ Goes(p, "bump", "delOld")
          /\ \A y \in Procs \ {p} : loc'[y] = loc[y]
      BY <1>4, BumpEffect
    <2>2. Held' \subseteq H
      BY <1>1, <2>1, HeldHere, HeldNext
    <2>. QED
      BY <1>1, <2>1, <2>2, Numbered DEF Goes
  <1>5. CASE PatchDelOld(p) \/ PatchDelNew(p)
    <2>1. /\ UNCHANGED <<row, payload, loc, answer>> /\ \A q \in Keys : cache'[q] \in {cache[q], Empty}
          /\ \E here \in {"delOld", "delNew"}, next \in {"delNew", "reload"} : Goes(p, here, next)
      BY <1>5, DelEffect
    <2>2. Held' \subseteq H
      BY <2>1, HeldHere, HeldNext, EmptyType
    <2>3. p \in Unwritten /\ at'[p] # "setex"
      BY <1>1, <2>1 DEF Goes, Unwritten
    <2>. QED
      BY <1>1, <2>1, <2>2, <2>3, Copied DEF Goes, Versioned
  <1>6. CASE PatchReload(p)
    <2>1. /\ UNCHANGED <<row, payload, cache, loc, answer>>
          /\ \E next \in {"include", "done"} : Goes(p, "reload", next)
      BY <1>6, ReloadEffect
    <2>2. Held' \subseteq H
      BY <2>1, HeldHere, HeldNext
    <2>3. p \in Unwritten /\ at'[p] # "setex"
      BY <1>1, <2>1 DEF Goes, Unwritten
    <2>. QED
      BY <1>1, <2>1, <2>2, <2>3, Copied DEF Goes, Versioned
  <1>7. CASE PatchInclude(p)
    <2>1. /\ UNCHANGED <<row, payload, cache, answer>> /\ loc'[p].view = payload
          /\ loc'[p].row = loc[p].row /\ loc'[p].next = loc[p].next
          /\ \A y \in Procs \ {p} : loc'[y] = loc[y]
          /\ \E next \in {"rewrite", "done"} : Goes(p, "include", next)
      BY <1>1, <1>7, IncludeEffect DEF PatchInclude
    <2>2. Held' \subseteq H
      BY <1>1, <2>1, HeldHere, HeldNext
    <2>3. p \in Unwritten /\ at'[p] # "setex"
      BY <1>1, <2>1 DEF Goes, Unwritten
    <2>. QED
      BY <1>1, <2>1, <2>2, <2>3, Copied DEF Goes, Versioned
  <1>8. CASE PatchRewrite(p)
    <2>1. /\ UNCHANGED <<row, cache, loc, answer>> /\ payload'.version = loc[p].next.version
          /\ Goes(p, "rewrite", "done")
      BY <1>8, RewriteEffect
    <2>2. p \in Unwritten /\ p \in Owners /\ at'[p] = "done"
      BY <1>1, <2>1 DEF Goes, Unwritten, Owners
    <2>3. PICK w : w = payload'
      OBVIOUS
    <2>4. Held' \subseteq Held \cup {w, NoView}
      <3>. DEFINE S == Held \cup {w, NoView}
      <3>1. payload' \in S /\ \A k \in Keys : cache'[k].view \in S
        BY <2>1, <2>3, HeldHere
      <3>2. (\A r \in Readers : answer'[r] \in S) /\ \A x \in Procs : loc'[x].view \in S
        BY <2>1, HeldHere
      <3>. HIDE DEF S
      <3>3. Held' \subseteq S
        BY <3>1, <3>2, HeldNext
      <3>. QED
        BY <3>3 DEF S
    <2>5. w.version = loc[p].next.version /\ \A v \in Held : v.version # w.version
      BY <2>1, <2>2, <2>3 DEF Versioned
    <2>. QED
      BY <2>1, <2>2, <2>4, <2>5, Written DEF Goes
  <1>. QED
    BY <1>2, <1>3, <1>4, <1>5, <1>6, <1>7, <1>8 DEF PatchStep

LEMMA VersionedProject ==
    ASSUME Types, Versioned, NEW j \in Projections, ProjectRead(j) \/ ProjectStep(j)
    PROVE  Versioned'
  <1>1. j \in Writers /\ j \in Procs
    BY DEF Procs, Writers
  <1>. DEFINE H == Held \cup {NoView}
  <1>2. CASE ProjectRead(j)
    <2>1. WriterStarts(j, "increment")
      BY <1>2 DEF ProjectRead
    <2>2. /\ UNCHANGED <<row, payload, cache, answer>> /\ Goes(j, "new", "increment")
          /\ \A y \in Procs \ {j} : loc'[y] = loc[y]
          /\ loc'[j].row = row /\ loc'[j].next = loc[j].next /\ loc'[j].view = loc[j].view
      BY <1>1, <2>1, StartEffect
    <2>3. Held' \subseteq H
      BY <1>1, <2>2, HeldHere, HeldNext
    <2>4. j \notin Unwritten' /\ at'[j] # "setex"
      BY <2>2 DEF Goes, Unwritten
    <2>. QED
      BY <1>1, <2>2, <2>3, <2>4, Copied, Numbers DEF Goes
  <1>3. CASE ProjectIncrement(j)
    <2>1. /\ UNCHANGED <<payload, cache, answer>> /\ row'.version = row.version + 1
          /\ loc'[j].next.version = row'.version /\ loc'[j].row = loc[j].row
          /\ loc'[j].view = loc[j].view /\ Goes(j, "increment", "upsert")
          /\ \A y \in Procs \ {j} : loc'[y] = loc[y]
      BY <1>3, IncrementEffect
    <2>2. Held' \subseteq H
      BY <1>1, <2>1, HeldHere, HeldNext
    <2>. QED
      BY <1>1, <2>1, <2>2, Numbered DEF Goes
  <1>4. CASE ProjectUpsert(j)
    <2>1. /\ UNCHANGED <<row, cache, loc, answer>> /\ payload' = ViewOf(loc[j].next, j)
          /\ \E next \in {"setex", "done"} : Goes(j, "upsert", next)
      BY <1>4, UpsertEffect
    <2>2. j \in Unwritten /\ j \in Owners /\ at'[j] \in {"done", "setex"}
      BY <1>1, <2>1 DEF Goes, Unwritten, Owners
    <2>3. PICK w : w = ViewOf(loc[j].next, j)
      OBVIOUS
    <2>4. Held' \subseteq Held \cup {w, NoView}
      <3>. DEFINE S == Held \cup {w, NoView}
      <3>1. payload' \in S /\ \A k \in Keys : cache'[k].view \in S
        BY <2>1, <2>3, HeldHere
      <3>2. (\A r \in Readers : answer'[r] \in S) /\ \A x \in Procs : loc'[x].view \in S
        BY <2>1, HeldHere
      <3>. HIDE DEF S
      <3>3. Held' \subseteq S
        BY <3>1, <3>2, HeldNext
      <3>. QED
        BY <3>3 DEF S
    <2>5. w.version = loc[j].next.version
      BY <1>1, <2>3, Parts, ViewOfType
    <2>6. \A v \in Held : v.version # w.version
      BY <2>2, <2>5 DEF Versioned
    <2>. QED
      BY <2>1, <2>2, <2>3, <2>4, <2>5, <2>6, Written DEF Goes
  <1>5. CASE ProjectSetex(j)
    <2>1. /\ UNCHANGED <<row, payload, loc, answer>> /\ loc[j].next \in Row
          /\ cache'[Key(loc[j].next)].view = ViewOf(loc[j].next, j)
          /\ \A q \in Keys \ {Key(loc[j].next)} : cache'[q] = cache[q]
          /\ Goes(j, "setex", "publish")
      BY <1>5, SetexEffect
    <2>2. j \in Owners /\ at[j] = "setex" /\ at'[j] = "publish"
      BY <1>1, <2>1 DEF Goes, Owners
    <2>3. PICK w : w = ViewOf(loc[j].next, j)
      OBVIOUS
    <2>4. Held' \subseteq Held \cup {w, NoView}
      <3>. DEFINE S == Held \cup {w, NoView}
      <3>1. payload' \in S /\ \A k \in Keys : cache'[k].view \in S
        BY <2>1, <2>3, HeldHere
      <3>2. (\A r \in Readers : answer'[r] \in S) /\ \A x \in Procs : loc'[x].view \in S
        BY <2>1, HeldHere
      <3>. HIDE DEF S
      <3>3. Held' \subseteq S
        BY <3>1, <3>2, HeldNext
      <3>. QED
        BY <3>3 DEF S
    <2>5. w.version = loc[j].next.version
      BY <2>1, <2>3, ViewOfType
    <2>6. \A v \in Held : v.version = w.version => v = w
      BY <2>2, <2>3, <2>5 DEF Versioned
    <2>. QED
      BY <2>1, <2>2, <2>4, <2>5, <2>6, Written DEF Goes
  <1>6. CASE ProjectPublish(j)
    <2>1. UNCHANGED <<row, payload, cache, loc, answer>> /\ Goes(j, "publish", "done")
      BY <1>6, PublishEffect
    <2>2. Held' \subseteq H
      BY <2>1, HeldHere, HeldNext
    <2>3. j \notin Unwritten' /\ at'[j] # "setex"
      BY <2>1 DEF Goes, Unwritten
    <2>. QED
      BY <1>1, <2>1, <2>2, <2>3, Copied DEF Goes, Versioned
  <1>. QED
    BY <1>2, <1>3, <1>4, <1>5, <1>6 DEF ProjectStep

LEMMA VersionedRead ==
    ASSUME Types, Versioned, NEW r \in Readers, ReadRow(r) \/ ReadStep(r)
    PROVE  Versioned'
  <1>1. r \in Procs /\ r \notin Writers
    BY ProfileAssumption DEF Procs, Writers
  <1>2. r \notin Unwritten'
    BY <1>1 DEF Unwritten
  <1>3. /\ row' = row /\ Held' \subseteq Held \cup {NoView} /\ loc'[r].next = loc[r].next
        /\ loc'[r].row \in {row, loc[r].row} /\ \A y \in Procs \ {r} : loc'[y] = loc[y]
        /\ \E here, next : Goes(r, here, next) /\ next # "setex"
    <2>1. CASE ReadRow(r)
      <3>1. /\ UNCHANGED <<row, payload, cache, answer>> /\ loc'[r].next = loc[r].next
            /\ loc'[r].row \in {row, loc[r].row} /\ loc'[r].view = loc[r].view
            /\ \A y \in Procs \ {r} : loc'[y] = loc[y]
            /\ \E next \in {"include", "done"} : Goes(r, "new", next)
        BY <2>1, ReadEffect
      <3>. QED
        BY <1>1, <3>1, HeldHere, HeldNext
    <2>2. CASE ReadInclude(r)
      <3>1. /\ UNCHANGED <<row, payload, cache, answer>> /\ loc'[r].view = payload
            /\ loc'[r].row = loc[r].row /\ loc'[r].next = loc[r].next
            /\ \A y \in Procs \ {r} : loc'[y] = loc[y]
            /\ \E next \in {"get", "done"} : Goes(r, "include", next)
        BY <1>1, <2>2, IncludeEffect DEF ReadInclude
      <3>. QED
        BY <1>1, <3>1, HeldHere, HeldNext
    <2>3. CASE Get(r) \/ Retry(r)
      <3>1. /\ UNCHANGED <<row, payload, cache, loc>>
            /\ \E here, next : Goes(r, here, next) /\ next # "setex"
            /\ \/ answer' = answer
               \/ /\ answer'[r] = cache[Key(loc[r].row)].view
                  /\ \A y \in Readers \ {r} : answer'[y] = answer[y]
        BY <2>3, LookupEffect
      <3>2. Key(loc[r].row) \in Keys
        BY <1>1, Parts
      <3>3. \A y \in Readers : answer'[y] \in Held \cup {NoView}
        BY <3>1, <3>2, HeldHere
      <3>. QED
        BY <3>1, <3>3, HeldHere, HeldNext
    <2>4. CASE Lock(r)
      <3>1. /\ UNCHANGED <<row, payload, cache, loc, answer>>
            /\ \E next \in {"retry", "fill"} : Goes(r, "lock", next)
        BY <2>4, LockEffect
      <3>. QED
        BY <3>1, HeldHere, HeldNext
    <2>5. CASE Fill(r)
      <3>1. /\ UNCHANGED <<row, payload, loc, answer>> /\ Goes(r, "fill", "unlock")
            /\ cache'[Key(loc[r].row)].view = loc[r].view
            /\ \A q \in Keys \ {Key(loc[r].row)} : cache'[q] = cache[q]
        BY <2>5, FillEffect
      <3>2. \A q \in Keys : cache'[q].view \in Held \cup {NoView}
        BY <1>1, <3>1, HeldHere
      <3>3. Held' \subseteq Held \cup {NoView}
        BY <3>1, <3>2, HeldHere, HeldNext
      <3>. QED
        BY <3>1, <3>3
    <2>6. CASE Unlock(r)
      <3>1. /\ UNCHANGED <<row, payload, cache, loc>> /\ Goes(r, "unlock", "done")
            /\ answer'[r] = loc[r].view /\ \A y \in Readers \ {r} : answer'[y] = answer[y]
        BY <2>6, UnlockEffect
      <3>2. \A y \in Readers : answer'[y] \in Held \cup {NoView}
        BY <1>1, <3>1, HeldHere
      <3>3. Held' \subseteq Held \cup {NoView}
        BY <3>1, <3>2, HeldHere, HeldNext
      <3>. QED
        BY <3>1, <3>3
    <2>. QED
      BY <2>1, <2>2, <2>3, <2>4, <2>5, <2>6 DEF ReadStep
  <1>4. at'[r] # "setex" /\ \A y \in Procs \ {r} : at'[y] = at[y]
    BY <1>3 DEF Goes
  <1>5. loc'[r].row.version <= row.version
    BY <1>1, <1>3, Numbers DEF Versioned
  <1>. QED
    BY <1>1, <1>2, <1>3, <1>4, <1>5, Copied

\* Steps of nobody, and deaths.
LEMMA VersionedFault ==
    ASSUME Types, Versioned,
           \/ Invalidate \/ LockExpires \/ LoseMessage \/ \E k \in Keys : Expire(k)
           \/ \E x \in Procs : Dies(x)
    PROVE  Versioned'
  <1>1. CASE \/ Invalidate \/ LockExpires \/ LoseMessage \/ \E k \in Keys : Expire(k)
    <2>1. UNCHANGED <<row, payload, loc, answer, at>> /\ \A q \in Keys : cache'[q] \in {cache[q], Empty}
      BY <1>1, TimeEffect
    <2>2. Held' \subseteq Held \cup {NoView}
      BY <2>1, HeldHere, HeldNext, EmptyType
    <2>3. Held' \subseteq Held
      BY <2>2 DEF Held, Shown
    <2>4. Unwritten' = Unwritten /\ Owners' = Owners
      BY <2>1 DEF Unwritten, Owners
    <2>. QED
      BY <2>1, <2>3, <2>4 DEF Versioned
  <1>2. ASSUME NEW x \in Procs, Dies(x) PROVE Versioned'
    <2>1. UNCHANGED <<row, payload, cache, loc, answer>> /\ at' = [at EXCEPT ![x] = "done"]
      BY <1>2, DiesEffect
    <2>2. at \in [Procs -> Steps]
      BY DEF Types, TypeOK
    <2>3. at'[x] = "done" /\ \A y \in Procs \ {x} : at'[y] = at[y]
      BY <2>1, <2>2
    <2>4. Held' \subseteq Held \cup {NoView}
      BY <2>1, HeldHere, HeldNext
    <2>5. x \notin Unwritten' /\ at'[x] # "setex"
      BY <2>3 DEF Unwritten
    <2>6. loc'[x].row.version <= row.version
      BY <2>1 DEF Versioned
    <2>. QED
      BY <2>1, <2>3, <2>4, <2>5, <2>6, Copied
  <1>. QED
    BY <1>1, <1>2

LEMMA InitVersioned == Init => Versioned
  <1>. SUFFICES ASSUME Init PROVE Versioned
    OBVIOUS
  <1>1. PICK s \in Slugs :
            LET first == [slug |-> s, visibility |-> "public", name |-> None, version |-> 0]
            IN  row = first /\ loc = [x \in Procs |-> [row |-> first, next |-> first, view |-> NoView]]
    BY DEF Init
  <1>2. row.version = 0 /\ Empty.view = NoView
    BY <1>1, EmptyType
  <1>3. \A x \in Procs : loc[x].row.version = 0 /\ loc[x].next.version = 0 /\ loc[x].view = NoView
    BY <1>1
  <1>4. /\ payload = NoView /\ \A k \in Keys : cache[k] = Empty
        /\ \A r \in Readers : answer[r] = NoView /\ \A x \in Procs : at[x] = "new"
    BY DEF Init
  <1>5. Held = {}
    BY <1>2, <1>3, <1>4 DEF Held, Shown
  <1>6. Owners = {} /\ Unwritten = {}
    <2>1. \A x \in Writers : at[x] = "new"
      BY DEF Init, Procs
    <2>. QED
      BY <2>1 DEF Owners, Unwritten
  <1>. QED
    BY <1>2, <1>3, <1>5, <1>6 DEF Versioned

LEMMA VersionedHolds == Spec => []Versioned
  <1>1. Types /\ Versioned /\ [Next]_vars => Versioned'
    <2>. SUFFICES ASSUME Types, Versioned, [Next]_vars PROVE Versioned'
      OBVIOUS
    <2>1. CASE UNCHANGED vars
      <3>1. Held' = Held /\ Owners' = Owners /\ Unwritten' = Unwritten
        BY <2>1 DEF vars, Held, Shown, Owners, Unwritten
      <3>. QED
        BY <2>1, <3>1 DEF vars, Versioned
    <2>. QED
      BY <2>1, VersionedPatch, VersionedProject, VersionedRead, VersionedFault DEF Next
  <1>. QED
    BY InitVersioned, <1>1, TypesHold, PTL DEF Spec

\* ProfileCache!OneViewPerVersion, however PATCHes, projections, reads, expiries and deaths
\* interleave: a publicCacheVersion names one payload, in the projection, in every key and in
\* every answer, and the row has reached it.
THEOREM VersionTellsView == Spec => []OneViewPerVersion
  <1>1. Versioned => OneViewPerVersion
    BY DEF Versioned, OneViewPerVersion, Held
  <1>. QED
    BY <1>1, VersionedHolds, PTL

----------------------------------------------------------------------------
(* Writers that do not overlap *)

Busy(x) == at[x] \notin {"new", "done"}

Solo == \A x, y \in Writers : Busy(x) /\ Busy(y) => x = y

\* The payload says what the row says, or is one increment behind, or is not there.
Agrees == /\ payload.visibility = row.visibility /\ payload.name = row.name
          /\ payload.version = row.version
There == payload # NoView

\* What a writer in flight knows of row and payload, by its next await.
Knows(x) ==
    /\ at[x] \in {"update", "increment"} => loc[x].row = row /\ (There => Agrees)
    /\ at[x] = "bump" => (There => payload.version = row.version)
    /\ at[x] \in {"delOld", "delNew", "reload", "include", "rewrite"} =>
           loc[x].next = row /\ (There => payload.version + 1 = row.version)
    /\ at[x] = "rewrite" => loc[x].view = payload
    /\ at[x] = "upsert" => /\ loc[x].next.visibility = row.visibility
                           /\ loc[x].next.name = row.name /\ loc[x].next.version = row.version
    /\ at[x] \in {"setex", "publish"} => Agrees

Settled ==
    faults = 0 =>
        /\ (\A x \in Writers : ~Busy(x)) => (There => Agrees)
        /\ \A x \in Writers : Knows(x)

\* The writer that moves is the only one: the others know nothing.
LEMMA Alone ==
    ASSUME Types, Solo, NEW x \in Writers, NEW here, NEW next, Goes(x, here, next),
           next # "new", here # "done", here = "new" => \A y \in Writers : ~Busy(y)
    PROVE  /\ Solo' /\ \A y \in Writers \ {x} : ~Busy(y) /\ Knows(y)'
           /\ (next = "done" => \A y \in Writers : ~Busy(y)')
           /\ (next # "done" => Busy(x)')
  <1>1. Writers \subseteq Procs
    BY DEF Procs
  <1>2. \A y \in Writers \ {x} : ~Busy(y)
    BY DEF Goes, Solo, Busy
  <1>3. \A y \in Writers \ {x} : at'[y] = at[y]
    BY <1>1 DEF Goes
  <1>4. \A y \in Writers \ {x} : at'[y] \in {"new", "done"}
    BY <1>2, <1>3 DEF Busy
  <1>5. \A y \in Writers \ {x} : Knows(y)'
    BY <1>4 DEF Knows
  <1>6. \A y \in Writers \ {x} : ~Busy(y)'
    BY <1>4 DEF Busy
  <1>7. Solo'
    BY <1>6 DEF Solo
  <1>. QED
    BY <1>2, <1>5, <1>6, <1>7 DEF Goes, Busy

LEMMA StartsAlone ==
    ASSUME MaxWriters = 1, Types, NEW x \in Writers, NEW next, WriterStarts(x, next)
    PROVE  \A y \in Writers : ~Busy(y)
  <1>1. InFlight \cap Writers \subseteq Writers /\ Cardinality(InFlight \cap Writers) < 1
    BY DEF WriterStarts
  <1>2. IsFiniteSet(InFlight \cap Writers)
    BY <1>1, Finite, FS_Subset
  <1>3. Cardinality(InFlight \cap Writers) = 0
    BY <1>1, <1>2, FS_CardinalityType
  <1>4. InFlight \cap Writers = {}
    BY <1>2, <1>3, FS_EmptySet
  <1>. QED
    BY <1>4 DEF InFlight, Busy, Procs

LEMMA SettledPatch ==
    ASSUME MaxWriters = 1, Types, Types', Solo, Settled, NEW p \in Patches,
           PatchRead(p) \/ PatchStep(p)
    PROVE  Solo' /\ Settled'
  <1>1. p \in Writers /\ p \in Procs
    BY DEF Procs, Writers
  <1>2. CASE PatchRead(p)
    <2>1. WriterStarts(p, "update")
      BY <1>2 DEF PatchRead
    <2>2. /\ Goes(p, "new", "update") /\ UNCHANGED <<row, payload>> /\ loc'[p].row = row
      BY <1>1, <2>1, StartEffect
    <2>3. \A y \in Writers : ~Busy(y)
      BY <1>1, <2>1, StartsAlone
    <2>4. Solo' /\ Busy(p)' /\ \A y \in Writers \ {p} : Knows(y)'
      BY <1>1, <2>2, <2>3, Alone
    <2>5. faults = 0 => Knows(p)'
      BY <1>1, <2>2, <2>3 DEF Settled, Knows, Goes, Agrees, There
    <2>. QED
      BY <1>1, <2>2, <2>4, <2>5 DEF Settled, Goes
  <1>3. CASE PatchUpdate(p)
    <2>1. /\ Goes(p, "update", "bump") /\ UNCHANGED <<payload, loc>> /\ row'.version = row.version
      BY <1>3, UpdateEffect
    <2>2. Solo' /\ Busy(p)' /\ \A y \in Writers \ {p} : Knows(y)'
      BY <1>1, <2>1, Alone
    <2>3. faults = 0 => Knows(p)'
      BY <1>1, <2>1 DEF Settled, Knows, Goes, Agrees, There
    <2>. QED
      BY <1>1, <2>1, <2>2, <2>3 DEF Settled, Goes
  <1>4. CASE PatchBump(p)
    <2>1. /\ Goes(p, "bump", "delOld") /\ UNCHANGED payload /\ row'.version = row.version + 1
          /\ loc'[p].next = row'
      BY <1>4, BumpEffect
    <2>2. Solo' /\ Busy(p)' /\ \A y \in Writers \ {p} : Knows(y)'
      BY <1>1, <2>1, Alone
    <2>3. faults = 0 => Knows(p)'
      BY <1>1, <2>1 DEF Settled, Knows, Goes, There
    <2>. QED
      BY <1>1, <2>1, <2>2, <2>3 DEF Settled, Goes
  <1>5. CASE PatchDelOld(p) \/ PatchDelNew(p)
    <2>1. PICK here \in {"delOld", "delNew"}, next \in {"delNew", "reload"} :
              Goes(p, here, next) /\ UNCHANGED <<row, payload, loc>>
      BY <1>5, DelEffect
    <2>2. Solo' /\ Busy(p)' /\ \A y \in Writers \ {p} : Knows(y)'
      BY <1>1, <2>1, Alone
    <2>3. faults = 0 => Knows(p)'
      BY <1>1, <2>1 DEF Settled, Knows, Goes, There
    <2>. QED
      BY <1>1, <2>1, <2>2, <2>3 DEF Settled, Goes
  <1>6. CASE PatchReload(p)
    <2>1. PICK next \in {"include", "done"} :
              Goes(p, "reload", next) /\ UNCHANGED <<row, payload, loc>>
      BY <1>6, ReloadEffect
    <2>2. Solo' /\ \A y \in Writers \ {p} : Knows(y)'
      BY <1>1, <2>1, Alone
    <2>3. faults = 0 => Knows(p)'
      BY <1>1, <2>1 DEF Settled, Knows, Goes, There
    <2>4. faults = 0 => loc[p].next = row
      BY <1>1, <2>1 DEF Settled, Knows, Goes
    <2>5. faults = 0 => Goes(p, "reload", "include")
      BY <1>6, <2>4, ReloadEffect
    <2>6. faults = 0 => Busy(p)'
      BY <2>5 DEF Goes, Busy
    <2>. QED
      BY <1>1, <2>1, <2>2, <2>3, <2>6 DEF Settled, Goes
  <1>8. CASE PatchInclude(p)
    <2>1. /\ UNCHANGED <<row, payload>> /\ loc'[p].view = payload /\ loc'[p].row = loc[p].row
          /\ loc'[p].next = loc[p].next
          /\ IF payload # NoView THEN Goes(p, "include", "rewrite") ELSE Goes(p, "include", "done")
      BY <1>1, <1>8, IncludeEffect DEF PatchInclude
    <2>2. PICK next \in {"rewrite", "done"} :
              Goes(p, "include", next) /\ (next = "done" => payload = NoView)
      BY <2>1
    <2>3. Solo' /\ (next # "done" => Busy(p)') /\ \A y \in Writers \ {p} : Knows(y)'
      BY <1>1, <2>2, Alone
    <2>4. faults = 0 => Knows(p)'
      BY <1>1, <2>1, <2>2 DEF Settled, Knows, Goes, There
    <2>. QED
      BY <1>1, <2>1, <2>2, <2>3, <2>4 DEF Settled, Goes, There
  <1>7. CASE PatchRewrite(p)
    <2>1. /\ Goes(p, "rewrite", "done") /\ UNCHANGED row
          /\ payload'.visibility = loc[p].next.visibility /\ payload'.name = loc[p].next.name
          /\ payload'.version = loc[p].next.version
      BY <1>7, RewriteEffect
    <2>2. Solo' /\ \A y \in Writers \ {p} : Knows(y)'
      BY <1>1, <2>1, Alone
    <2>3. faults = 0 => Agrees'
      BY <1>1, <2>1 DEF Settled, Knows, Goes, Agrees
    <2>4. Knows(p)'
      BY <1>1, <2>1 DEF Knows, Goes
    <2>. QED
      BY <1>1, <2>1, <2>2, <2>3, <2>4 DEF Settled, Goes
  <1>. QED
    BY <1>2, <1>3, <1>4, <1>5, <1>6, <1>7, <1>8 DEF PatchStep

LEMMA SettledProject ==
    ASSUME MaxWriters = 1, Types, Types', Solo, Settled, NEW j \in Projections,
           ProjectRead(j) \/ ProjectStep(j)
    PROVE  Solo' /\ Settled'
  <1>1. j \in Writers /\ j \in Procs
    BY DEF Procs, Writers
  <1>2. CASE ProjectRead(j)
    <2>1. WriterStarts(j, "increment")
      BY <1>2 DEF ProjectRead
    <2>2. /\ Goes(j, "new", "increment") /\ UNCHANGED <<row, payload>> /\ loc'[j].row = row
      BY <1>1, <2>1, StartEffect
    <2>3. \A y \in Writers : ~Busy(y)
      BY <1>1, <2>1, StartsAlone
    <2>4. Solo' /\ Busy(j)' /\ \A y \in Writers \ {j} : Knows(y)'
      BY <1>1, <2>2, <2>3, Alone
    <2>5. faults = 0 => Knows(j)'
      BY <1>1, <2>2, <2>3 DEF Settled, Knows, Goes, Agrees, There
    <2>. QED
      BY <1>1, <2>2, <2>4, <2>5 DEF Settled, Goes
  <1>3. CASE ProjectIncrement(j)
    <2>1. /\ Goes(j, "increment", "upsert") /\ row' = Bumped
          /\ loc'[j].next.version = row'.version
          /\ loc'[j].next.visibility = loc[j].row.visibility /\ loc'[j].next.name = loc[j].row.name
      BY <1>3, IncrementEffect
    <2>2. row'.visibility = row.visibility /\ row'.name = row.name
      BY <2>1, Parts DEF Bumped, Row
    <2>3. Solo' /\ Busy(j)' /\ \A y \in Writers \ {j} : Knows(y)'
      BY <1>1, <2>1, Alone
    <2>4. faults = 0 => loc[j].row = row
      BY <1>1, <2>1 DEF Settled, Knows, Goes
    <2>5. faults = 0 => Knows(j)'
      BY <1>1, <2>1, <2>2, <2>4 DEF Knows, Goes
    <2>. QED
      BY <1>1, <2>1, <2>3, <2>5 DEF Settled, Goes
  <1>4. CASE ProjectUpsert(j)
    <2>1. PICK next \in {"setex", "done"} :
              Goes(j, "upsert", next) /\ UNCHANGED row /\ payload' = ViewOf(loc[j].next, j)
      BY <1>4, UpsertEffect
    <2>2. /\ payload'.version = loc[j].next.version
          /\ payload'.visibility = loc[j].next.visibility /\ payload'.name = loc[j].next.name
      BY <1>1, <2>1, Parts, ViewOfType
    <2>3. Solo' /\ \A y \in Writers \ {j} : Knows(y)'
      BY <1>1, <2>1, Alone
    <2>4. faults = 0 => Agrees'
      BY <1>1, <2>1, <2>2 DEF Settled, Knows, Goes, Agrees
    <2>5. faults = 0 => Knows(j)'
      BY <1>1, <2>1, <2>4 DEF Knows, Goes
    <2>. QED
      BY <1>1, <2>1, <2>3, <2>4, <2>5 DEF Settled, Goes
  <1>5. CASE ProjectSetex(j)
    <2>1. Goes(j, "setex", "publish") /\ UNCHANGED <<row, payload>>
      BY <1>5, SetexEffect
    <2>2. Solo' /\ Busy(j)' /\ \A y \in Writers \ {j} : Knows(y)'
      BY <1>1, <2>1, Alone
    <2>3. faults = 0 => Knows(j)'
      BY <1>1, <2>1 DEF Settled, Knows, Goes, Agrees
    <2>. QED
      BY <1>1, <2>1, <2>2, <2>3 DEF Settled, Goes
  <1>6. CASE ProjectPublish(j)
    <2>1. Goes(j, "publish", "done") /\ UNCHANGED <<row, payload>>
      BY <1>6, PublishEffect
    <2>2. Solo' /\ \A y \in Writers \ {j} : Knows(y)'
      BY <1>1, <2>1, Alone
    <2>3. faults = 0 => Agrees'
      BY <1>1, <2>1 DEF Settled, Knows, Goes, Agrees
    <2>4. Knows(j)'
      BY <1>1, <2>1 DEF Knows, Goes
    <2>. QED
      BY <1>1, <2>1, <2>2, <2>3, <2>4 DEF Settled, Goes
  <1>. QED
    BY <1>2, <1>3, <1>4, <1>5, <1>6 DEF ProjectStep

\* Steps that no writer takes.
LEMMA SettledStays ==
    ASSUME Solo, Settled, UNCHANGED <<row, payload>>, faults' = faults,
           \A x \in Writers : at'[x] = at[x] /\ loc'[x] = loc[x]
    PROVE  Solo' /\ Settled'
  <1>1. \A x \in Writers : Busy(x)' <=> Busy(x)
    BY DEF Busy
  <1>2. Solo'
    BY <1>1 DEF Solo
  <1>3. \A x \in Writers : Knows(x) => Knows(x)'
    BY DEF Knows, There, Agrees
  <1>. QED
    BY <1>1, <1>2, <1>3 DEF Settled, There, Agrees

LEMMA SettledRead ==
    ASSUME Types, Solo, Settled, NEW r \in Readers, ReadRow(r) \/ ReadStep(r)
    PROVE  Solo' /\ Settled'
  <1>1. r \in Procs /\ \A x \in Writers : x # r /\ x \in Procs
    BY ProfileAssumption DEF Procs, Writers
  <1>2. /\ UNCHANGED <<row, payload>> /\ \A x \in Procs \ {r} : loc'[x] = loc[x]
        /\ \E here, next : Goes(r, here, next)
    <2>1. CASE ReadRow(r) \/ ReadInclude(r)
      BY <1>1, <2>1, ReadEffect, IncludeEffect DEF ReadInclude
    <2>2. CASE Get(r) \/ Retry(r)
      BY <2>2, LookupEffect
    <2>3. CASE Lock(r)
      BY <2>3, LockEffect
    <2>4. CASE Fill(r)
      BY <2>4, FillEffect
    <2>5. CASE Unlock(r)
      BY <2>5, UnlockEffect
    <2>. QED
      BY <2>1, <2>2, <2>3, <2>4, <2>5 DEF ReadStep
  <1>3. faults' = faults /\ \A x \in Procs \ {r} : at'[x] = at[x]
    BY <1>2 DEF Goes
  <1>. QED
    BY <1>1, <1>2, <1>3, SettledStays

LEMMA SettledFault ==
    ASSUME Types, Solo, Settled,
           \/ Invalidate \/ LockExpires \/ LoseMessage \/ \E k \in Keys : Expire(k)
           \/ \E x \in Procs : Dies(x)
    PROVE  Solo' /\ Settled'
  <1>1. CASE \/ Invalidate \/ LockExpires \/ LoseMessage \/ \E k \in Keys : Expire(k)
    <2>1. UNCHANGED <<row, payload, loc, at>> /\ faults' \in {faults, faults + 1}
      BY <1>1, TimeEffect
    <2>2. CASE faults' = faults
      BY <2>1, <2>2, SettledStays
    <2>3. CASE faults' = faults + 1
      <3>1. faults' # 0
        BY <2>3 DEF Types, TypeOK
      <3>2. Solo'
        BY <2>1 DEF Solo, Busy
      <3>. QED
        BY <3>1, <3>2 DEF Settled
    <2>. QED
      BY <2>1, <2>2, <2>3
  <1>2. ASSUME NEW x \in Procs, Dies(x) PROVE Solo' /\ Settled'
    <2>1. faults' # 0 /\ at' = [at EXCEPT ![x] = "done"] /\ at[x] # "new"
      BY <1>2, DiesEffect
    <2>2. \A y \in Writers : Busy(y)' => Busy(y)
      BY <2>1 DEF Busy, Types, TypeOK, Procs
    <2>3. Solo'
      BY <2>2 DEF Solo
    <2>. QED
      BY <2>1, <2>3 DEF Settled
  <1>. QED
    BY <1>1, <1>2

LEMMA InitSettled == Init => Solo /\ Settled
  <1>. SUFFICES ASSUME Init PROVE Solo /\ Settled
    OBVIOUS
  <1>1. payload = NoView /\ \A x \in Writers : at[x] = "new"
    BY DEF Init, Procs
  <1>. QED
    BY <1>1 DEF Solo, Settled, Knows, Busy, There

LEMMA SettledHolds == ASSUME MaxWriters = 1 PROVE Spec => [](Solo /\ Settled)
  <1>1. Types /\ Types' /\ Solo /\ Settled /\ [Next]_vars => Solo' /\ Settled'
    <2>. SUFFICES ASSUME Types, Types', Solo, Settled, [Next]_vars PROVE Solo' /\ Settled'
      OBVIOUS
    <2>1. CASE UNCHANGED vars
      BY <2>1, SettledStays DEF vars
    <2>. QED
      BY <2>1, SettledPatch, SettledProject, SettledRead, SettledFault DEF Next
  <1>. QED
    BY InitSettled, <1>1, TypesHold, PTL DEF Spec

\* ProfileCache!SettledProjection: as long as writers do not overlap and none died, what the
\* projector copies and what updateOwnerProfile changes in the payload add up to the row.
THEOREM ProjectionSettles == ASSUME MaxWriters = 1 PROVE Spec => []SettledProjection
  <1>1. Solo /\ Settled => SettledProjection
    <2>. SUFFICES ASSUME Settled, InFlight \cap Writers = {}, faults = 0, payload # NoView
                  PROVE  Agrees
      BY DEF SettledProjection, Agrees
    <2>1. \A x \in Writers : ~Busy(x)
      BY DEF InFlight, Busy, Procs
    <2>. QED
      BY <2>1 DEF Settled, There
  <1>. QED
    BY <1>1, SettledHolds, PTL

----------------------------------------------------------------------------
(* Reads and keys lag one version at most *)

Behind ==
    faults = 0 =>
        /\ There => payload.version + 1 >= row.version
        /\ \A k \in Keys : cache[k] # Empty => cache[k].view.version + 1 >= k[2]
        /\ \A r \in Readers :
               /\ at[r] = "new" => answer[r] = NoView
               /\ at[r] \in WithView => loc[r].view.version + 1 >= loc[r].row.version
               /\ answer[r] # NoView => answer[r].version + 1 >= loc[r].row.version

\* Nothing of the readers changes.
LEMMA BehindStays ==
    ASSUME Behind, faults' = faults, answer' = answer,
           faults = 0 => (There' => payload'.version + 1 >= row'.version),
           faults = 0 => \A k \in Keys : cache'[k] # Empty => cache'[k].view.version + 1 >= k[2],
           \A r \in Readers : at'[r] = at[r] /\ loc'[r] = loc[r]
    PROVE  Behind'
  BY DEF Behind

LEMMA BehindPatch ==
    ASSUME Types, Types', Settled, Behind, NEW p \in Patches, PatchRead(p) \/ PatchStep(p)
    PROVE  Behind'
  <1>1. p \in Writers /\ p \in Procs /\ p \notin Readers /\ Readers \subseteq Procs
    BY ProfileAssumption DEF Procs, Writers
  <1>2. CASE PatchRead(p)
    <2>1. WriterStarts(p, "update")
      BY <1>2 DEF PatchRead
    <2>2. /\ Goes(p, "new", "update") /\ UNCHANGED <<row, payload, cache, answer>>
          /\ \A y \in Procs \ {p} : loc'[y] = loc[y]
      BY <1>1, <2>1, StartEffect
    <2>3. faults' = faults /\ \A r \in Readers : at'[r] = at[r] /\ loc'[r] = loc[r]
      BY <1>1, <2>2 DEF Goes
    <2>. QED
      BY <2>2, <2>3, BehindStays DEF Behind, There
  <1>3. CASE PatchUpdate(p)
    <2>1. /\ Goes(p, "update", "bump") /\ UNCHANGED <<payload, cache, answer, loc>>
          /\ row'.version = row.version
      BY <1>3, UpdateEffect
    <2>2. faults' = faults /\ \A r \in Readers : at'[r] = at[r] /\ loc'[r] = loc[r]
      BY <1>1, <2>1 DEF Goes
    <2>. QED
      BY <2>1, <2>2, BehindStays DEF Behind, There
  <1>4. CASE PatchBump(p)
    <2>1. /\ Goes(p, "bump", "delOld") /\ UNCHANGED <<payload, cache, answer>>
          /\ row'.version = row.version + 1 /\ \A y \in Procs \ {p} : loc'[y] = loc[y]
      BY <1>4, BumpEffect
    <2>2. faults' = faults /\ \A r \in Readers : at'[r] = at[r] /\ loc'[r] = loc[r]
      BY <1>1, <2>1 DEF Goes
    <2>3. faults = 0 => (There' => payload'.version + 1 >= row'.version)
      BY <1>1, <2>1, Numbers DEF Settled, Knows, Goes, There
    <2>4. faults = 0 => \A k \in Keys : cache'[k] # Empty => cache'[k].view.version + 1 >= k[2]
      BY <2>1 DEF Behind
    <2>. QED
      BY <2>1, <2>2, <2>3, <2>4, BehindStays
  <1>5. CASE PatchDelOld(p) \/ PatchDelNew(p)
    <2>1. /\ \E here, next : Goes(p, here, next)
          /\ UNCHANGED <<row, payload, loc, answer>> /\ \A q \in Keys : cache'[q] \in {cache[q], Empty}
      BY <1>5, DelEffect
    <2>2. faults' = faults /\ \A r \in Readers : at'[r] = at[r] /\ loc'[r] = loc[r]
      BY <1>1, <2>1 DEF Goes
    <2>. QED
      BY <2>1, <2>2, BehindStays DEF Behind, There
  <1>6. CASE PatchReload(p) \/ PatchInclude(p)
    <2>1. /\ \E here, next : Goes(p, here, next)
          /\ UNCHANGED <<row, payload, cache, answer>> /\ \A y \in Procs \ {p} : loc'[y] = loc[y]
      BY <1>1, <1>6, ReloadEffect, IncludeEffect DEF PatchInclude
    <2>2. faults' = faults /\ \A r \in Readers : at'[r] = at[r] /\ loc'[r] = loc[r]
      BY <1>1, <2>1 DEF Goes
    <2>. QED
      BY <2>1, <2>2, BehindStays DEF Behind, There
  <1>7. CASE PatchRewrite(p)
    <2>1. /\ Goes(p, "rewrite", "done") /\ UNCHANGED <<row, cache, loc, answer>>
          /\ payload'.version = loc[p].next.version
      BY <1>7, RewriteEffect
    <2>2. faults' = faults /\ \A r \in Readers : at'[r] = at[r] /\ loc'[r] = loc[r]
      BY <1>1, <2>1 DEF Goes
    <2>3. faults = 0 => payload'.version = row'.version
      BY <1>1, <2>1 DEF Settled, Knows, Goes
    <2>4. faults = 0 => payload'.version + 1 >= row'.version
      BY <2>1, <2>3, Numbers
    <2>. QED
      BY <2>1, <2>2, <2>4, BehindStays DEF Behind
  <1>. QED
    BY <1>2, <1>3, <1>4, <1>5, <1>6, <1>7 DEF PatchStep

LEMMA BehindProject ==
    ASSUME Types, Types', Settled, Behind, NEW j \in Projections, ProjectRead(j) \/ ProjectStep(j)
    PROVE  Behind'
  <1>1. j \in Writers /\ j \in Procs /\ j \notin Readers /\ Readers \subseteq Procs
    BY ProfileAssumption DEF Procs, Writers
  <1>2. CASE ProjectRead(j)
    <2>1. WriterStarts(j, "increment")
      BY <1>2 DEF ProjectRead
    <2>2. /\ Goes(j, "new", "increment") /\ UNCHANGED <<row, payload, cache, answer>>
          /\ \A y \in Procs \ {j} : loc'[y] = loc[y]
      BY <1>1, <2>1, StartEffect
    <2>3. faults' = faults /\ \A r \in Readers : at'[r] = at[r] /\ loc'[r] = loc[r]
      BY <1>1, <2>2 DEF Goes
    <2>. QED
      BY <2>2, <2>3, BehindStays DEF Behind, There
  <1>3. CASE ProjectIncrement(j)
    <2>1. /\ Goes(j, "increment", "upsert") /\ UNCHANGED <<payload, cache, answer>>
          /\ row'.version = row.version + 1 /\ \A y \in Procs \ {j} : loc'[y] = loc[y]
      BY <1>3, IncrementEffect
    <2>2. faults' = faults /\ \A r \in Readers : at'[r] = at[r] /\ loc'[r] = loc[r]
      BY <1>1, <2>1 DEF Goes
    <2>3. faults = 0 => (There' => payload'.version + 1 >= row'.version)
      BY <1>1, <2>1, Numbers DEF Settled, Knows, Agrees, Goes, There
    <2>4. faults = 0 => \A k \in Keys : cache'[k] # Empty => cache'[k].view.version + 1 >= k[2]
      BY <2>1 DEF Behind
    <2>. QED
      BY <2>1, <2>2, <2>3, <2>4, BehindStays
  <1>4. CASE ProjectUpsert(j)
    <2>1. /\ \E next : Goes(j, "upsert", next)
          /\ UNCHANGED <<row, cache, loc, answer>> /\ payload' = ViewOf(loc[j].next, j)
      BY <1>4, UpsertEffect
    <2>2. payload'.version = loc[j].next.version
      BY <1>1, <2>1, Parts, ViewOfType
    <2>3. faults' = faults /\ \A r \in Readers : at'[r] = at[r] /\ loc'[r] = loc[r]
      BY <1>1, <2>1 DEF Goes
    <2>4. faults = 0 => payload'.version = row'.version
      BY <1>1, <2>1, <2>2 DEF Settled, Knows, Goes
    <2>5. faults = 0 => payload'.version + 1 >= row'.version
      BY <2>1, <2>4, Numbers
    <2>. QED
      BY <2>1, <2>3, <2>5, BehindStays DEF Behind
  <1>5. CASE ProjectSetex(j)
    <2>1. /\ Goes(j, "setex", "publish") /\ UNCHANGED <<row, payload, loc, answer>>
          /\ loc[j].next \in Row
          /\ cache'[Key(loc[j].next)].view = ViewOf(loc[j].next, j)
          /\ \A q \in Keys \ {Key(loc[j].next)} : cache'[q] = cache[q]
      BY <1>5, SetexEffect
    <2>2. /\ cache'[Key(loc[j].next)].view.version = loc[j].next.version
          /\ Key(loc[j].next)[2] = loc[j].next.version /\ loc[j].next.version \in Nat
      BY <2>1, ViewOfType, RowVersions
    <2>3. faults' = faults /\ \A r \in Readers : at'[r] = at[r] /\ loc'[r] = loc[r]
      BY <1>1, <2>1 DEF Goes
    <2>4. faults = 0 => \A k \in Keys : cache'[k] # Empty => cache'[k].view.version + 1 >= k[2]
      BY <2>1, <2>2 DEF Behind
    <2>. QED
      BY <2>1, <2>3, <2>4, BehindStays DEF Behind, There
  <1>6. CASE ProjectPublish(j)
    <2>1. Goes(j, "publish", "done") /\ UNCHANGED <<row, payload, cache, loc, answer>>
      BY <1>6, PublishEffect
    <2>2. faults' = faults /\ \A r \in Readers : at'[r] = at[r] /\ loc'[r] = loc[r]
      BY <1>1, <2>1 DEF Goes
    <2>. QED
      BY <2>1, <2>2, BehindStays DEF Behind, There
  <1>. QED
    BY <1>2, <1>3, <1>4, <1>5, <1>6 DEF ProjectStep

LEMMA BehindRead ==
    ASSUME Types, Types', Versioned, Behind, NEW r \in Readers, ReadRow(r) \/ ReadStep(r)
    PROVE  Behind'
  <1>1. r \in Procs /\ Readers \subseteq Procs
    BY DEF Procs
  <1>2. CASE ReadRow(r)
    <2>1. /\ UNCHANGED <<row, payload, cache, answer>>
          /\ \/ Goes(r, "new", "done") /\ loc' = loc
             \/ /\ Goes(r, "new", "include") /\ \A y \in Procs \ {r} : loc'[y] = loc[y]
      BY <1>2, ReadEffect
    <2>2. at[r] = "new" /\ faults' = faults
      BY <2>1 DEF Goes
    <2>3. faults = 0 => answer[r] = NoView
      BY <2>2 DEF Behind
    <2>4. \A y \in Readers \ {r} : at'[y] = at[y] /\ loc'[y] = loc[y]
      BY <1>1, <2>1 DEF Goes
    <2>5. at'[r] # "new" /\ at'[r] \notin WithView
      BY <2>1 DEF Goes, WithView
    <2>. QED
      BY <2>1, <2>2, <2>3, <2>4, <2>5 DEF Behind, There
  <1>7. CASE ReadInclude(r)
    <2>1. /\ UNCHANGED <<row, payload, cache, answer>> /\ loc'[r].view = payload
          /\ loc'[r].row = loc[r].row /\ \A y \in Procs \ {r} : loc'[y] = loc[y]
          /\ IF payload # NoView THEN Goes(r, "include", "get") ELSE Goes(r, "include", "done")
      BY <1>1, <1>7, IncludeEffect DEF ReadInclude
    <2>2. faults' = faults /\ at'[r] # "new" /\ (at'[r] \in WithView => There)
          /\ \A y \in Readers \ {r} : at'[y] = at[y] /\ loc'[y] = loc[y]
      BY <1>1, <2>1 DEF Goes, WithView, There
    <2>3. loc[r].row.version <= row.version
      BY <1>1 DEF Versioned
    <2>4. faults = 0 => (at'[r] \in WithView => loc'[r].view.version + 1 >= loc'[r].row.version)
      BY <1>1, <2>1, <2>2, <2>3, Numbers DEF Behind
    <2>5. faults = 0 => (answer'[r] # NoView => answer'[r].version + 1 >= loc'[r].row.version)
      BY <2>1 DEF Behind
    <2>. QED
      BY <2>1, <2>2, <2>4, <2>5 DEF Behind, There
  <1>3. CASE Get(r) \/ Retry(r)
    <2>1. /\ UNCHANGED <<row, payload, cache, loc>>
          /\ \/ answer' = answer
             \/ /\ cache[Key(loc[r].row)] # Empty
                /\ answer'[r] = cache[Key(loc[r].row)].view
                /\ \A y \in Readers \ {r} : answer'[y] = answer[y]
      BY <1>3, LookupEffect
    <2>2. PICK here \in {"get", "retry"}, next \in {"lock", "fill", "done"} : Goes(r, here, next)
      BY <1>3, LookupEffect
    <2>3. Key(loc[r].row) \in Keys /\ Key(loc[r].row)[2] = loc[r].row.version
      BY <1>1, Parts, RowVersions
    <2>4. faults' = faults /\ at[r] \in WithView /\ at'[r] # "new"
          /\ \A y \in Readers \ {r} : at'[y] = at[y]
      BY <1>1, <2>2 DEF Goes, WithView
    <2>5. faults = 0 => (answer'[r] # NoView => answer'[r].version + 1 >= loc'[r].row.version)
      BY <2>1, <2>3 DEF Behind
    <2>6. faults = 0 => loc'[r].view.version + 1 >= loc'[r].row.version
      BY <2>1, <2>4 DEF Behind
    <2>. QED
      BY <2>1, <2>4, <2>5, <2>6 DEF Behind, There
  <1>4. CASE Lock(r)
    <2>1. PICK next \in {"retry", "fill"} :
              UNCHANGED <<row, payload, cache, loc, answer>> /\ Goes(r, "lock", next)
      BY <1>4, LockEffect
    <2>2. faults' = faults /\ at[r] \in WithView /\ at'[r] # "new"
          /\ \A y \in Readers \ {r} : at'[y] = at[y]
      BY <1>1, <2>1 DEF Goes, WithView
    <2>. QED
      BY <2>1, <2>2 DEF Behind, There
  <1>5. CASE Fill(r)
    <2>1. /\ UNCHANGED <<row, payload, loc, answer>> /\ Goes(r, "fill", "unlock")
          /\ loc[r].row \in Row /\ cache'[Key(loc[r].row)].view = loc[r].view
          /\ \A q \in Keys \ {Key(loc[r].row)} : cache'[q] = cache[q]
      BY <1>5, FillEffect
    <2>2. faults' = faults /\ at[r] \in WithView /\ at'[r] # "new"
          /\ \A y \in Readers \ {r} : at'[y] = at[y]
      BY <1>1, <2>1 DEF Goes, WithView
    <2>3. Key(loc[r].row)[2] = loc[r].row.version
      BY <2>1, RowVersions
    <2>4. faults = 0 => \A k \in Keys : cache'[k] # Empty => cache'[k].view.version + 1 >= k[2]
      BY <2>1, <2>2, <2>3 DEF Behind
    <2>. QED
      BY <2>1, <2>2, <2>4 DEF Behind, There
  <1>6. CASE Unlock(r)
    <2>1. /\ UNCHANGED <<row, payload, cache, loc>> /\ Goes(r, "unlock", "done")
          /\ answer'[r] = loc[r].view /\ \A y \in Readers \ {r} : answer'[y] = answer[y]
      BY <1>6, UnlockEffect
    <2>2. faults' = faults /\ at[r] \in WithView /\ at'[r] # "new"
          /\ \A y \in Readers \ {r} : at'[y] = at[y]
      BY <1>1, <2>1 DEF Goes, WithView
    <2>. QED
      BY <2>1, <2>2 DEF Behind, There
  <1>. QED
    BY <1>2, <1>3, <1>4, <1>5, <1>6, <1>7 DEF ReadStep

LEMMA InitBehind == Init => Behind
  <1>. SUFFICES ASSUME Init PROVE Behind
    OBVIOUS
  <1>1. /\ payload = NoView /\ \A k \in Keys : cache[k] = Empty
        /\ \A r \in Readers : at[r] = "new" /\ answer[r] = NoView
    BY DEF Init, Procs
  <1>. QED
    BY <1>1 DEF Behind, There, WithView

\* ProfileCache!AtMostOneBehind: as long as writers do not overlap and none died, no key holds
\* and no read returns a payload more than one version older than the key, whenever reads
\* fill keys (CacheService.getOrSet) and the listener removes them.
THEOREM OneBehind == ASSUME MaxWriters = 1 PROVE Spec => []AtMostOneBehind
  <1>1. Types /\ Types' /\ Settled /\ Versioned /\ Behind /\ [Next]_vars => Behind'
    <2>. SUFFICES ASSUME Types, Types', Settled, Versioned, Behind, [Next]_vars PROVE Behind'
      OBVIOUS
    <2>1. CASE \/ Invalidate \/ LockExpires \/ LoseMessage \/ \E k \in Keys : Expire(k)
      <3>1. /\ UNCHANGED <<row, payload, loc, answer, at>> /\ faults' \in {faults, faults + 1}
            /\ \A q \in Keys : cache'[q] \in {cache[q], Empty}
        BY <2>1, TimeEffect
      <3>2. faults' = 0 => faults = 0
        BY <3>1 DEF Types, TypeOK
      <3>. QED
        BY <3>1, <3>2 DEF Behind, There
    <2>2. ASSUME NEW x \in Procs, Dies(x) PROVE Behind'
      <3>1. faults' # 0
        BY <2>2, DiesEffect
      <3>. QED
        BY <3>1 DEF Behind
    <2>3. CASE UNCHANGED vars
      BY <2>3, BehindStays DEF vars, Behind, There
    <2>. QED
      BY <2>1, <2>2, <2>3, BehindPatch, BehindProject, BehindRead DEF Next
  <1>2. Behind => AtMostOneBehind
    BY DEF Behind, AtMostOneBehind
  <1>. QED
    BY InitBehind, <1>1, <1>2, TypesHold, SettledHolds, VersionedHolds, PTL DEF Spec

==============================================================================
