------------------------------- MODULE Accounts -------------------------------
(***************************************************************************)
(* Users, wallets and nonces: AuthService.verifySignature (sign-in, and    *)
(* sign-up for an unknown wallet), WalletsService.linkWallet and           *)
(* unlinkWallet, SiweService.issueNonce and consumeNonce.                  *)
(*                                                                         *)
(* No request runs in a transaction: every await is a step, and requests   *)
(* interleave at all of them.  A message whose signature does not verify   *)
(* is refused before any state is touched and is left out.                 *)
(***************************************************************************)
EXTENDS Naturals, FiniteSets

CONSTANTS Addresses, Chains,
          Nonces,        \* nonces alive at a time
          Handlers,      \* requests in flight at a time
          PremiumLimit,  \* wallets of a premium user: 3 in the code
          Asks,          \* isPrimary as given with a link
          MaxUsers,      \* bound: sign-ups
          MaxRequests,   \* bound: requests in all
          MaxFaults      \* bound: requests cut off between two awaits

FreeLimit == 1

ASSUME AccountsAssumption ==
    /\ IsFiniteSet(Handlers) /\ Handlers # {}
    /\ Asks \subseteq {"unset", "yes", "no"}
    /\ PremiumLimit \in Nat /\ PremiumLimit >= FreeLimit
    /\ MaxUsers \in Nat /\ MaxRequests \in Nat /\ MaxFaults \in Nat

VARIABLES
    nonce,     \* Redis: nonce[n] is the wallet key stored with nonce n
    uses,      \* uses[n]: requests that got past consumeNonce with n (history)
    users,     \* number of users rows; ids are 1..users
    tier,      \* users.subscriptionTier, written by billing
    wallets,   \* wallets rows; ids grow with linkedAt
    lastId,    \* number of wallet ids handed out
    profiles,  \* profiles rows
    signedIn,  \* users that hold an access token
    at,        \* at[h]: the next await of the request of h
    req,       \* req[h]: its input and what it read
    requests, faults,
    solo       \* history: requests came one at a time, none was cut off

nonceVars == <<nonce, uses>>
rows == <<users, tier, wallets, lastId, profiles, signedIn>>
vars == <<nonce, uses, users, tier, wallets, lastId, profiles, signedIn,
          at, req, requests, faults, solo>>

Keys == Addresses \X Chains          \* @@unique([address, chainScope])
Users == 1..MaxUsers
Tiers == {"free", "premium"}
Wallet == [id : Nat, key : Keys, user : Users, primary : BOOLEAN]

\* sign-up names the profile after the first digits of the address
Slug(key) == key[1]

Of(u) == {w \in wallets : w.user = u}
WithKey(k) == {w \in wallets : w.key = k}
WithId(i) == {w \in wallets : w.id = i}
Limit(t) == IF t = "premium" THEN PremiumLimit ELSE FreeLimit

Steps == {"idle", "get", "del", "find", "createUser", "load", "lookup", "create",
          "profile", "status", "sign",
          "owner", "count", "delete", "remaining", "clear", "set"}

None == "none"
NoKey == <<None, None>>

NoRequest == [kind |-> None, key |-> NoKey, nonce |-> None, stored |-> NoKey,
              user |-> 0, ask |-> None, id |-> 0, primary |-> FALSE]

Request == [kind : {"verify", "link", "unlink", None}, key : Keys \cup {NoKey},
            nonce : Nonces \cup {None}, stored : Keys \cup {NoKey},
            user : 0..MaxUsers, ask : Asks \cup {None}, id : Nat, primary : BOOLEAN]

Open == {h \in Handlers : at[h] # "idle"}

Init ==
    /\ nonce = [n \in Nonces |-> NoKey] /\ uses = [n \in Nonces |-> 0]
    /\ users = 0 /\ tier = [u \in Users |-> "free"]
    /\ wallets = {} /\ lastId = 0 /\ profiles = {} /\ signedIn = {}
    /\ at = [h \in Handlers |-> "idle"] /\ req = [h \in Handlers |-> NoRequest]
    /\ requests = 0 /\ faults = 0 /\ solo = TRUE
----------------------------------------------------------------------------
(* What happens to a request whatever it asks for *)

Begin(h, r, first) ==
    /\ at[h] = "idle" /\ requests < MaxRequests
    /\ at' = [at EXCEPT ![h] = first]
    /\ req' = [req EXCEPT ![h] = r]
    /\ requests' = requests + 1
    /\ solo' = (solo /\ Open = {})
    /\ UNCHANGED <<nonceVars, rows, faults>>

\* An await answers; the request goes on at step next and remembers r.  "idle"
\* is its end, by an answer or by an exception.
Proceed(h, here, next, r) ==
    /\ at[h] = here
    /\ at' = [at EXCEPT ![h] = next]
    /\ req' = [req EXCEPT ![h] = IF next = "idle" THEN NoRequest ELSE r]
    /\ UNCHANGED <<requests, faults, solo>>

Await(h, here, next) == Proceed(h, here, next, req[h])

\* The process dies, or a call is rejected: nothing is rolled back.
Abort(h) ==
    /\ at[h] # "idle" /\ faults < MaxFaults
    /\ at' = [at EXCEPT ![h] = "idle"]
    /\ req' = [req EXCEPT ![h] = NoRequest]
    /\ faults' = faults + 1 /\ solo' = FALSE
    /\ UNCHANGED <<nonceVars, rows, requests>>

\* Billing writes the tier of a user who went to the checkout, at any time.
SetTier(u, t) ==
    /\ u \in signedIn /\ tier[u] # t
    /\ tier' = [tier EXCEPT ![u] = t]
    /\ UNCHANGED <<nonceVars, users, wallets, lastId, profiles, signedIn,
                   at, req, requests, faults, solo>>
----------------------------------------------------------------------------
(* Nonces *)

\* A request that comes with any other nonce ends at its first await.
Live == {n \in Nonces : nonce[n] # NoKey}

\* A fresh nonce; the slot n is free when no request refers to its old one.
IssueNonce(n, k) ==
    /\ nonce[n] = NoKey /\ \A h \in Open : req[h].nonce # n
    /\ nonce' = [nonce EXCEPT ![n] = k]
    /\ uses' = [uses EXCEPT ![n] = 0]
    /\ UNCHANGED <<rows, at, req, requests, faults, solo>>

NonceExpires(n) ==
    /\ nonce[n] # NoKey /\ nonce' = [nonce EXCEPT ![n] = NoKey]
    /\ UNCHANGED <<uses, rows, at, req, requests, faults, solo>>

\* consumeNonce, first half: GET.
GetNonce(h) ==
    /\ LET stored == nonce[req[h].nonce]
       IN  Proceed(h, "get", IF stored = NoKey THEN "idle" ELSE "del",
                   [req[h] EXCEPT !.stored = stored])
    /\ UNCHANGED <<nonceVars, rows>>

\* verifySignature compares address and chain with what was stored; linkWallet
\* compares only the message with the request.
AfterNonce(h) ==
    CASE req[h].kind = "link" -> "load"
      [] req[h].kind # "link" /\ req[h].stored = req[h].key -> "find"
      [] OTHER -> "idle"

DelNonce_Forgets(h) ==
    LET n == req[h].nonce
    IN  /\ Proceed(h, "del", AfterNonce(h), [req[h] EXCEPT !.nonce = None, !.stored = NoKey])
        /\ uses' = [uses EXCEPT ![n] = @ + 1]
        /\ UNCHANGED <<nonce, rows>>

\* Second half: DEL.
DelNonce(h) ==
    LET n == req[h].nonce
    IN  /\ Proceed(h, "del", AfterNonce(h), [req[h] EXCEPT !.nonce = None, !.stored = NoKey])
        /\ nonce' = [nonce EXCEPT ![n] = NoKey]
        /\ uses' = [uses EXCEPT ![n] = @ + 1]
        /\ UNCHANGED rows
----------------------------------------------------------------------------
(* verifySignature *)

VerifyBegins(h) ==
    \E n \in Live, k \in Keys :
        Begin(h, [NoRequest EXCEPT !.kind = "verify", !.key = k, !.nonce = n], "get")

Find(h) ==
    /\ \/ /\ WithKey(req[h].key) = {}
          /\ Await(h, "find", "createUser")
       \/ \E w \in WithKey(req[h].key) :
              Proceed(h, "find", "sign", [req[h] EXCEPT !.user = w.user])
    /\ UNCHANGED <<nonceVars, rows>>

CreateUser(h) ==
    /\ users < MaxUsers
    /\ Proceed(h, "createUser", "lookup",
               [req[h] EXCEPT !.user = users + 1, !.primary = TRUE])
    /\ users' = users + 1
    /\ UNCHANGED <<nonceVars, tier, wallets, lastId, profiles, signedIn>>

\* ProfilesRepository.create looks for the slug first; the unique constraint
\* refuses the same row, so the two awaits are one step.
CreateProfile(h) ==
    LET p == [user |-> req[h].user, slug |-> Slug(req[h].key), status |-> "created"]
        taken == \E q \in profiles : q.slug = p.slug \/ q.user = p.user
    IN  /\ Await(h, "profile", IF taken THEN "idle" ELSE "status")
        /\ profiles' = IF taken THEN profiles ELSE profiles \cup {p}
        /\ UNCHANGED <<nonceVars, users, tier, wallets, lastId, signedIn>>

\* enqueueIndexForWallet: the status; what createRun does is in JobQueue.
SetIndexing(h) ==
    /\ Await(h, "status", "sign")
    /\ profiles' = {IF p.user = req[h].user THEN [p EXCEPT !.status = "indexing"] ELSE p
                       : p \in profiles}
    /\ UNCHANGED <<nonceVars, users, tier, wallets, lastId, signedIn>>

SignToken(h) ==
    /\ Await(h, "sign", "idle")
    /\ signedIn' = signedIn \cup {req[h].user}
    /\ UNCHANGED <<nonceVars, users, tier, wallets, lastId, profiles>>
----------------------------------------------------------------------------
(* linkWallet, and linkToUser which sign-up uses as well *)

LinkBegins(h) ==
    \E u \in signedIn, n \in Live, k \in Keys, a \in Asks :
        Begin(h, [NoRequest EXCEPT !.kind = "link", !.user = u, !.key = k,
                                !.nonce = n, !.ask = a], "get")

Load_OffByOne(h) ==
    LET mine == Of(req[h].user)
        ask == req[h].ask
    IN  /\ Proceed(h, "load",
                   IF Cardinality(mine) > Limit(tier[req[h].user]) THEN "idle" ELSE "lookup",
                   [req[h] EXCEPT !.primary =
                       IF ask = "unset" THEN \A w \in mine : ~w.primary ELSE ask = "yes"])
        /\ UNCHANGED <<nonceVars, rows>>

\* findWithWallets: the limit, and the default of isPrimary.
Load(h) ==
    LET mine == Of(req[h].user)
        ask == req[h].ask
    IN  /\ Proceed(h, "load",
                   IF Cardinality(mine) >= Limit(tier[req[h].user]) THEN "idle" ELSE "lookup",
                   [req[h] EXCEPT !.primary =
                       IF ask = "unset" THEN \A w \in mine : ~w.primary ELSE ask = "yes"])
        /\ UNCHANGED <<nonceVars, rows>>

AfterLink(h) == IF req[h].kind = "verify" THEN "profile" ELSE "idle"

\* linkToUser, findByAddress: a row of another user is a conflict, an own row
\* is the answer.
Lookup(h) ==
    LET found == WithKey(req[h].key)
    IN  /\ Await(h, "lookup",
                 CASE found = {} -> "create"
                   [] \E w \in found : w.user = req[h].user -> AfterLink(h)
                   [] OTHER -> "idle")
        /\ UNCHANGED <<nonceVars, rows>>

\* The unique key refuses a second row (P2002).
CreateWallet(h) ==
    LET conflict == WithKey(req[h].key) # {}
        w == [id |-> lastId + 1, key |-> req[h].key, user |-> req[h].user,
              primary |-> req[h].primary]
    IN  /\ Await(h, "create", IF conflict THEN "idle" ELSE AfterLink(h))
        /\ wallets' = IF conflict THEN wallets ELSE wallets \cup {w}
        /\ lastId' = IF conflict THEN lastId ELSE lastId + 1
        /\ UNCHANGED <<nonceVars, users, tier, profiles, signedIn>>
----------------------------------------------------------------------------
(* unlinkWallet *)

UnlinkBegins(h) ==
    \E u \in signedIn, i \in 1..lastId :
        Begin(h, [NoRequest EXCEPT !.kind = "unlink", !.user = u, !.id = i], "owner")

\* findById: the wallet is the user's; whether it is primary is remembered.
CheckOwner(h) ==
    LET mine == {w \in WithId(req[h].id) : w.user = req[h].user}
    IN  /\ Proceed(h, "owner", IF mine = {} THEN "idle" ELSE "count",
                   [req[h] EXCEPT !.primary = \E w \in mine : w.primary])
        /\ UNCHANGED <<nonceVars, rows>>

CountWallets(h) ==
    /\ Await(h, "count", IF Cardinality(Of(req[h].user)) <= 1 THEN "idle" ELSE "delete")
    /\ UNCHANGED <<nonceVars, rows>>

DeleteWallet_KeepsPrimary(h) ==
    /\ Await(h, "delete", "idle")
    /\ wallets' = wallets \ WithId(req[h].id)
    /\ UNCHANGED <<nonceVars, users, tier, lastId, profiles, signedIn>>

\* A row that is gone makes delete throw.
DeleteWallet(h) ==
    /\ Await(h, "delete", IF WithId(req[h].id) # {} /\ req[h].primary
                          THEN "remaining" ELSE "idle")
    /\ wallets' = wallets \ WithId(req[h].id)
    /\ UNCHANGED <<nonceVars, users, tier, lastId, profiles, signedIn>>

\* listByUserId is ordered by linkedAt, latest first.
ListRemaining(h) ==
    LET rest == Of(req[h].user)
    IN  /\ \/ rest = {} /\ Await(h, "remaining", "idle")
           \/ \E w \in rest :
                  /\ \A x \in rest : x.id <= w.id
                  /\ Proceed(h, "remaining", "clear", [req[h] EXCEPT !.id = w.id])
        /\ UNCHANGED <<nonceVars, rows>>

ClearPrimary_OfAll(h) ==
    /\ Await(h, "clear", "set")
    /\ wallets' = {[w EXCEPT !.primary = FALSE] : w \in wallets}
    /\ UNCHANGED <<nonceVars, users, tier, lastId, profiles, signedIn>>

\* setPrimary, updateMany.
ClearPrimary(h) ==
    /\ Await(h, "clear", "set")
    /\ wallets' = (wallets \ Of(req[h].user))
                     \cup {[w EXCEPT !.primary = FALSE] : w \in Of(req[h].user)}
    /\ UNCHANGED <<nonceVars, users, tier, lastId, profiles, signedIn>>

\* update by id, which throws if the row is gone.
SetPrimary(h) ==
    /\ Await(h, "set", "idle")
    /\ wallets' = {[w EXCEPT !.primary = @ \/ w.id = req[h].id] : w \in wallets}
    /\ UNCHANGED <<nonceVars, users, tier, lastId, profiles, signedIn>>
----------------------------------------------------------------------------
VerifyStep(h) ==
    \/ VerifyBegins(h) \/ Find(h) \/ CreateUser(h) \/ CreateProfile(h)
    \/ SetIndexing(h) \/ SignToken(h)

LinkStep(h) == LinkBegins(h) \/ Load(h) \/ Lookup(h) \/ CreateWallet(h)

UnlinkStep(h) ==
    \/ UnlinkBegins(h) \/ CheckOwner(h) \/ CountWallets(h) \/ DeleteWallet(h)
    \/ ListRemaining(h) \/ ClearPrimary(h) \/ SetPrimary(h)

Next ==
    \/ \E n \in Nonces : NonceExpires(n) \/ \E k \in Keys : IssueNonce(n, k)
    \/ \E u \in Users, t \in Tiers : SetTier(u, t)
    \/ \E h \in Handlers : GetNonce(h) \/ DelNonce(h) \/ Abort(h)
    \/ \E h \in Handlers : VerifyStep(h) \/ LinkStep(h) \/ UnlinkStep(h)

Spec == Init /\ [][Next]_vars
----------------------------------------------------------------------------
(* What is checked *)

TypeOK ==
    /\ nonce \in [Nonces -> Keys \cup {NoKey}] /\ uses \in [Nonces -> Nat]
    /\ users \in 0..MaxUsers /\ tier \in [Users -> Tiers]
    /\ wallets \subseteq Wallet /\ lastId \in Nat
    /\ profiles \subseteq [user : Users, slug : Addresses, status : {"created", "indexing"}]
    /\ signedIn \subseteq 1..users
    /\ at \in [Handlers -> Steps] /\ req \in [Handlers -> Request]
    /\ requests \in 0..MaxRequests /\ faults \in 0..MaxFaults /\ solo \in BOOLEAN

\* However the requests interleave, and whatever billing does to the tier
\* meanwhile, a user never gets more wallets than the premium limit and one for
\* each further request in flight: the check of linkWallet and its insert are
\* not atomic, but only requests that passed the check can overshoot.
OvershootBounded ==
    \A u \in Users : Cardinality(Of(u)) + 1 <= PremiumLimit + Cardinality(Handlers)

\* One request after the other: some wallet of each user is the primary one,
\* whichever wallets were linked and removed.
KeepsPrimary ==
    (solo /\ Open = {}) => \A u \in 1..users : \E w \in Of(u) : w.primary

\* A nonce lets one request through when requests come one after the other.  When
\* they overlap it also lets through those that read it before it was deleted, so
\* as many as there are in flight, and never a later one.
NonceOnce ==
    \A n \in Nonces : uses[n] <= IF solo THEN 1 ELSE Cardinality(Handlers)

\* A request that went on with a wallet id read before other requests ran never
\* touches a wallet of another user, not even one linked under the same key
\* after the row it read was deleted.
OthersUntouched ==
    [][\A w \in wallets \ wallets' :
           \E h \in Handlers : at'[h] # at[h] /\ req[h].user = w.user]_vars
==============================================================================
