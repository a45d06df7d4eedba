----------------------------- MODULE ProfileCache -----------------------------
(***************************************************************************)
(* How the public view of one profile is kept: the profiles row, the       *)
(* projection payload and the versioned Redis keys, written by the owner's *)
(* PATCH (ProfilesService.updateOwnerProfile), by the worker's projection  *)
(* (ProfileProjector.project) and by public reads that fill the cache      *)
(* (CacheService.getOrSet), with the listener that removes old keys.       *)
(*                                                                         *)
(* Every await is a step.  Of a payload the model keeps what the writers   *)
(* disagree on, and the projection whose scores it carries.  A query with  *)
(* include is two SELECTs: the row is read, and later its projection.      *)
(***************************************************************************)
EXTENDS Naturals, FiniteSets

CONSTANTS Patches,      \* PATCH requests of the owner
          Projections,  \* runs of the projector
          Readers,      \* public reads
          Slugs,        \* slugs free for this profile
          MaxWriters,   \* bound: writers in flight at a time
          MaxFaults     \* bound: processes that die, lost messages

ASSUME ProfileAssumption ==
    /\ Patches \cap Projections = {} /\ Readers \cap (Patches \cup Projections) = {}
    /\ IsFiniteSet(Patches) /\ IsFiniteSet(Projections)
    /\ Slugs # {} /\ MaxWriters \in Nat \ {0} /\ MaxFaults \in Nat

VARIABLES
    row,       \* profiles: slug, visibility, displayName, publicCacheVersion
    payload,   \* profile_projections.payload
    cache,     \* Redis: cache[slug, version]
    locks,     \* keys whose lock key exists
    events,    \* keys named by undelivered profile:indexed messages
    at,        \* at[x]: the next await of request or projection x
    loc,       \* loc[x]: what it read: the row, the row after its bump, a payload
    answer,    \* answer[r]: the view that reader r got
    faults

store == <<row, payload>>
redis == <<cache, locks>>
vars == <<row, payload, cache, locks, events, at, loc, answer, faults>>

None == "none"
Visibility == {"public", "private"}
Writers == Patches \cup Projections
Procs == Writers \cup Readers
Versions == 0..Cardinality(Writers)
Keys == Slugs \X Versions
Key(r) == <<r.slug, r.version>>

Row == [slug : Slugs, visibility : Visibility, name : Patches \cup {None},
        version : Versions]
View == [slug : Slugs, visibility : Visibility, name : Patches \cup {None},
         version : Versions, scored : Projections]

NoView == [slug |-> None, visibility |-> None, name |-> None, version |-> 0,
           scored |-> None]

\* The payload of row r with the scores of projection j.
ViewOf(r, j) == [slug |-> r.slug, visibility |-> r.visibility, name |-> r.name,
                 version |-> r.version, scored |-> j]

Empty == [view |-> NoView, ttl |-> FALSE]
Entry(v) == [view |-> v, ttl |-> TRUE]

Steps == {"new", "update", "bump", "delOld", "delNew", "reload", "include", "rewrite",
          "increment", "upsert", "setex", "publish",
          "get", "lock", "retry", "fill", "unlock", "done"}

InFlight == {x \in Procs : at[x] \notin {"new", "done"}}

Init ==
    \E s \in Slugs :
        LET first == [slug |-> s, visibility |-> "public", name |-> None, version |-> 0]
        IN  /\ row = first
            /\ payload = NoView
            /\ cache = [k \in Keys |-> Empty]
            /\ locks = {} /\ events = {}
            /\ at = [x \in Procs |-> "new"]
            /\ loc = [x \in Procs |-> [row |-> first, next |-> first, view |-> NoView]]
            /\ answer = [r \in Readers |-> NoView]
            /\ faults = 0

Await(x, here, next) ==
    /\ at[x] = here
    /\ at' = [at EXCEPT ![x] = next]
    /\ UNCHANGED faults

WriterStarts(x, next) ==
    /\ Cardinality(InFlight \cap Writers) < MaxWriters
    /\ Await(x, "new", next)
    /\ loc' = [loc EXCEPT ![x].row = row]
    /\ UNCHANGED <<store, redis, events, answer>>

Del(k) == cache' = [cache EXCEPT ![k] = Empty]
----------------------------------------------------------------------------
(* updateOwnerProfile *)

PatchRead(p) == WriterStarts(p, "update")

\* Any subset of the three fields is given; a field not given stays.
PatchUpdate(p) ==
    /\ Await(p, "update", "bump")
    /\ \E s \in Slugs, v \in Visibility, n \in {row.name, p} :
           row' = [slug |-> s, visibility |-> v, name |-> n, version |-> row.version]
    /\ UNCHANGED <<payload, redis, events, loc, answer>>

\* bumpCacheVersion returns the row as it is after the increment.
PatchBump(p) ==
    /\ Await(p, "bump", "delOld")
    /\ row' = [row EXCEPT !.version = @ + 1]
    /\ loc' = [loc EXCEPT ![p].next = row']
    /\ UNCHANGED <<payload, redis, events, answer>>

PatchDelOld(p) ==
    /\ Await(p, "delOld", IF loc[p].next.slug # loc[p].row.slug THEN "delNew" ELSE "reload")
    /\ Del(Key(loc[p].row))
    /\ UNCHANGED <<store, locks, events, loc, answer>>

PatchDelNew(p) ==
    /\ Await(p, "delNew", "reload")
    /\ Del(Key(loc[p].next))
    /\ UNCHANGED <<store, locks, events, loc, answer>>

\* findBySlug of the new slug: the row, and later its projection.
PatchReload(p) ==
    /\ Await(p, "reload", IF row.slug = loc[p].next.slug THEN "include" ELSE "done")
    /\ UNCHANGED <<store, redis, events, loc, answer>>

\* x reads the projection of the row that it found; without one it ends.
Include(x, next) ==
    /\ Await(x, "include", IF payload # NoView THEN next ELSE "done")
    /\ loc' = [loc EXCEPT ![x].view = payload]
    /\ UNCHANGED <<store, redis, events, answer>>

PatchInclude(p) == Include(p, "rewrite")

PatchRewrite_NoName(p) ==
    /\ Await(p, "rewrite", "done")
    /\ payload' = [loc[p].view EXCEPT !.visibility = loc[p].next.visibility,
                                      !.version = loc[p].next.version]
    /\ UNCHANGED <<row, redis, events, loc, answer>>

PatchRewrite_NoVersion(p) ==
    /\ Await(p, "rewrite", "done")
    /\ payload' = [loc[p].view EXCEPT !.visibility = loc[p].next.visibility,
                                      !.name = loc[p].next.name]
    /\ UNCHANGED <<row, redis, events, loc, answer>>

\* The whole payload read before goes back, with three fields of the row and
\* without the slug.
PatchRewrite(p) ==
    /\ Await(p, "rewrite", "done")
    /\ payload' = [loc[p].view EXCEPT !.visibility = loc[p].next.visibility,
                                      !.name = loc[p].next.name,
                                      !.version = loc[p].next.version]
    /\ UNCHANGED <<row, redis, events, loc, answer>>
----------------------------------------------------------------------------
(* ProfileProjector.project *)

ProjectRead(j) == WriterStarts(j, "increment")

ProjectIncrement_LocalOnly(j) ==
    /\ Await(j, "increment", "upsert")
    /\ loc' = [loc EXCEPT ![j].next = [loc[j].row EXCEPT !.version = @ + 1]]
    /\ UNCHANGED <<store, redis, events, answer>>

\* Only the version is taken from the row after the increment.
ProjectIncrement(j) ==
    /\ Await(j, "increment", "upsert")
    /\ row' = [row EXCEPT !.version = @ + 1]
    /\ loc' = [loc EXCEPT ![j].next = [loc[j].row EXCEPT !.version = row'.version]]
    /\ UNCHANGED <<payload, redis, events, answer>>

ProjectUpsert(j) ==
    /\ Await(j, "upsert", IF loc[j].row.visibility = "public" THEN "setex" ELSE "done")
    /\ payload' = ViewOf(loc[j].next, j)
    /\ UNCHANGED <<row, redis, events, loc, answer>>

ProjectSetex(j) ==
    /\ Await(j, "setex", "publish")
    /\ cache' = [cache EXCEPT ![Key(loc[j].next)] = Entry(ViewOf(loc[j].next, j))]
    /\ UNCHANGED <<store, locks, events, loc, answer>>

ProjectPublish(j) ==
    /\ Await(j, "publish", "done")
    /\ events' = events \cup {Key(loc[j].row)}
    /\ UNCHANGED <<store, redis, loc, answer>>

\* CacheInvalidationListener.handleMessage
Invalidate ==
    \E k \in events :
        /\ events' = events \ {k}
        /\ Del(k)
        /\ UNCHANGED <<store, locks, at, loc, answer, faults>>
----------------------------------------------------------------------------
(* getPublicProfileFromProjection and CacheService.getOrSet *)

\* No row of that slug, a private profile and a missing projection are a 404.
ReadRow(r) ==
    \E s \in Slugs :
        LET found == row.slug = s /\ row.visibility = "public"
        IN  /\ Await(r, "new", IF found THEN "include" ELSE "done")
            /\ loc' = IF found THEN [loc EXCEPT ![r].row = row] ELSE loc
            /\ UNCHANGED <<store, redis, events, answer>>

ReadInclude(r) == Include(r, "get")

\* A hit is the answer; on a miss the request goes on with next.
Lookup(r, here, next) ==
    LET hit == cache[Key(loc[r].row)]
    IN  /\ Await(r, here, IF hit = Empty THEN next ELSE "done")
        /\ answer' = IF hit = Empty THEN answer ELSE [answer EXCEPT ![r] = hit.view]
        /\ UNCHANGED <<store, redis, events, loc>>

Get(r) == Lookup(r, "get", "lock")

\* SET NX EX 5
Lock(r) ==
    /\ Await(r, "lock", IF Key(loc[r].row) \in locks THEN "retry" ELSE "fill")
    /\ locks' = locks \cup {Key(loc[r].row)}
    /\ UNCHANGED <<store, cache, events, loc, answer>>

\* After 50 ms; on a second miss the request fills the cache without the lock.
Retry(r) == Lookup(r, "retry", "fill")

Fill_NoExpiry(r) ==
    /\ Await(r, "fill", "unlock")
    /\ cache' = [cache EXCEPT ![Key(loc[r].row)] = [view |-> loc[r].view, ttl |-> FALSE]]
    /\ UNCHANGED <<store, locks, events, loc, answer>>

Fill(r) ==
    /\ Await(r, "fill", "unlock")
    /\ cache' = [cache EXCEPT ![Key(loc[r].row)] = Entry(loc[r].view)]
    /\ UNCHANGED <<store, locks, events, loc, answer>>

\* The lock is removed whoever holds it.
Unlock(r) ==
    /\ Await(r, "unlock", "done")
    /\ locks' = locks \ {Key(loc[r].row)}
    /\ answer' = [answer EXCEPT ![r] = loc[r].view]
    /\ UNCHANGED <<store, cache, events, loc>>
----------------------------------------------------------------------------
(* Time and faults *)

Expire(k) ==
    /\ cache[k].ttl
    /\ Del(k)
    /\ UNCHANGED <<store, locks, events, at, loc, answer, faults>>

LockExpires ==
    \E k \in locks :
        /\ locks' = locks \ {k}
        /\ UNCHANGED <<store, cache, events, at, loc, answer, faults>>

Fault == faults < MaxFaults /\ faults' = faults + 1

\* A process dies, or an await of it throws: what it has written stays.
Dies(x) ==
    /\ Fault
    /\ x \in InFlight
    /\ at' = [at EXCEPT ![x] = "done"]
    /\ UNCHANGED <<store, redis, events, loc, answer>>

\* Redis does not keep messages for a listener that is not connected.
LoseMessage ==
    /\ Fault
    /\ \E k \in events : events' = events \ {k}
    /\ UNCHANGED <<store, redis, at, loc, answer>>

PatchStep(p) ==
    \/ PatchUpdate(p) \/ PatchBump(p) \/ PatchDelOld(p) \/ PatchDelNew(p)
    \/ PatchReload(p) \/ PatchInclude(p) \/ PatchRewrite(p)

ProjectStep(j) ==
    \/ ProjectIncrement(j) \/ ProjectUpsert(j) \/ ProjectSetex(j) \/ ProjectPublish(j)

ReadStep(r) == ReadInclude(r) \/ Get(r) \/ Lock(r) \/ Retry(r) \/ Fill(r) \/ Unlock(r)

Next ==
    \/ \E p \in Patches : PatchRead(p) \/ PatchStep(p)
    \/ \E j \in Projections : ProjectRead(j) \/ ProjectStep(j)
    \/ \E r \in Readers : ReadRow(r) \/ ReadStep(r)
    \/ Invalidate \/ LockExpires \/ LoseMessage
    \/ \E k \in Keys : Expire(k)
    \/ \E x \in Procs : Dies(x)

Spec == Init /\ [][Next]_vars

\* A request or projection in flight goes on, and Redis expires keys.
Fairness ==
    /\ \A p \in Patches : WF_vars(PatchStep(p))
    /\ \A j \in Projections : WF_vars(ProjectStep(j))
    /\ \A r \in Readers : WF_vars(ReadStep(r))
    /\ \A k \in Keys : WF_vars(Expire(k))

FairSpec == Spec /\ Fairness
----------------------------------------------------------------------------
(* What is checked *)

TypeOK ==
    /\ row \in Row /\ payload \in View \cup {NoView}
    /\ \A k \in Keys : cache[k] = Empty \/ (cache[k].ttl /\ cache[k].view \in View)
    /\ locks \subseteq Keys /\ events \subseteq Keys
    /\ at \in [Procs -> Steps]
    /\ loc \in [Procs -> [row : Row, next : Row, view : View \cup {NoView}]]
    /\ answer \in [Readers -> View \cup {NoView}]
    /\ faults \in 0..MaxFaults

\* The payload and what keys hold and reads returned.
Shown == ({payload} \cup {cache[k].view : k \in Keys} \cup {answer[r] : r \in Readers}) \ {NoView}

\* Whatever overlaps, publicCacheVersion tells two payloads apart: two that carry
\* the same version are the same, wherever they are, and none carries a version
\* that the row has not reached.
OneViewPerVersion ==
    \A v, w \in Shown :
        /\ v.version <= row.version
        /\ v.version = w.version => v = w

\* When writers do not overlap and none died, the projection agrees with the
\* row about visibility, name and version once they are done: the projector's
\* copy of the row and the PATCH's change of the payload add up.
SettledProjection ==
    (InFlight \cap Writers = {} /\ faults = 0 /\ payload # NoView) =>
        /\ payload.visibility = row.visibility
        /\ payload.name = row.name
        /\ payload.version = row.version

\* When writers do not overlap and none died, no key holds and no read returns
\* a payload more than one version older than the key, although reads fill keys
\* at any moment.
AtMostOneBehind ==
    faults = 0 =>
        /\ \A k \in Keys : cache[k] # Empty => cache[k].view.version + 1 >= k[2]
        /\ \A r \in Readers : answer[r] # NoView =>
               answer[r].version + 1 >= loc[r].row.version

\* The key of the current version holds the current payload or nothing, and the
\* key of any other slug or version nothing.
Fresh == \A k \in Keys : cache[k] = Empty \/ (k = Key(row) /\ cache[k] = Entry(payload))

\* A stale view goes away for good, also the one whose profile:indexed message was
\* lost: the requests that could write it again end, and the time to live removes it.
EventuallyFresh == <>[]Fresh
==============================================================================
