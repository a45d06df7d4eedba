---------------------------- MODULE AccountsProofs ----------------------------
(***************************************************************************)
(* Machine-checked proofs about Accounts, for every set of addresses,      *)
(* chains, nonces and handlers, every limit and every number of requests.  *)
(***************************************************************************)
EXTENDS Accounts, FiniteSetTheorems, TLAPS

----------------------------------------------------------------------------
(* The inductive invariant *)

\* Rows refer to users there are; ids are unique and below the next one.
RowsOK ==
    /\ IsFiniteSet(wallets)
    /\ \A w \in wallets : w.user \in 1..users /\ w.id <= lastId
    /\ \A w, x \in wallets : w.id = x.id => w = x

\* A request past the other steps knows its user.
Known == Steps \ {"idle", "get", "del", "find", "createUser"}

\* What a request r at step s needs to go on: its user, its nonce and its key, and
\* that what unlinkWallet learnt of the owner of a row is still true of its id.
Fit(s, r) ==
    /\ s \in Known \/ (s \in {"get", "del"} /\ r.kind = "link") => r.user \in 1..users
    /\ s \in {"get", "del"} => r.nonce \in Nonces
    /\ s \in {"get", "del", "find", "createUser", "load", "lookup", "create", "profile"}
           => r.key \in Keys
    /\ s \in {"count", "delete", "clear", "set"} =>
           r.id <= lastId /\ \A w \in WithId(r.id) : w.user = r.user

RequestsOK == \A h \in Handlers : Fit(at[h], req[h])

\* Requests that passed the limit and may still insert a wallet of u.
Passed(u) == {h \in Handlers : at[h] \in {"lookup", "create"} /\ req[h].user = u}

Weight(u) == Cardinality(Of(u)) + Cardinality(Passed(u))

\* Of the wallets of u and the requests that may add one, only the requests that
\* do not come from the check below the limit can go beyond it.
Counted ==
    \A u \in Users : Weight(u) + 1 <= PremiumLimit + Cardinality(Handlers)

IInv == TypeOK /\ RowsOK /\ RequestsOK /\ Counted

----------------------------------------------------------------------------
(* Lemmas *)

\* What a subset of two finite sets weighs.
LEMMA Lighter ==
    ASSUME NEW A, NEW B, IsFiniteSet(A), IsFiniteSet(B),
           NEW C \in SUBSET A, NEW D \in SUBSET B
    PROVE  /\ Cardinality(A) + Cardinality(B) \in Nat
           /\ Cardinality(C) + Cardinality(D) \in Nat
           /\ Cardinality(C) + Cardinality(D) <= Cardinality(A) + Cardinality(B)
  <1>1. Cardinality(C) <= Cardinality(A) /\ IsFiniteSet(C)
    BY FS_Subset
  <1>2. Cardinality(D) <= Cardinality(B) /\ IsFiniteSet(D)
    BY FS_Subset
  <1>3. /\ Cardinality(A) \in Nat /\ Cardinality(B) \in Nat
        /\ Cardinality(C) \in Nat /\ Cardinality(D) \in Nat
    BY <1>1, <1>2, FS_CardinalityType
  <1>. QED
    BY <1>1, <1>2, <1>3

\* The image of a finite set under a function.
LEMMA ImageNoLarger ==
    ASSUME NEW S, IsFiniteSet(S), NEW f, DOMAIN f = S
    PROVE  /\ IsFiniteSet({f[x] : x \in S})
           /\ Cardinality({f[x] : x \in S}) <= Cardinality(S)
  <1>. DEFINE T == {f[x] : x \in S}
              g == [x \in S |-> f[x]]
  <1>1. g \in Surjection(S, T)
    BY DEF Surjection
  <1>. QED
    BY <1>1, FS_Surjection

LEMMA HandlersCounted ==
    /\ Cardinality(Handlers) \in Nat /\ Cardinality(Handlers) >= 1
    /\ PremiumLimit \in Nat /\ PremiumLimit >= 1
  <1>1. Cardinality(Handlers) \in Nat /\ Cardinality(Handlers) # 0
    BY AccountsAssumption, FS_CardinalityType, FS_EmptySet
  <1>. QED
    BY <1>1, AccountsAssumption DEF FreeLimit

\* The sets that are counted are finite.
LEMMA Finite ==
    ASSUME IsFiniteSet(wallets), NEW u
    PROVE  /\ IsFiniteSet(Of(u)) /\ IsFiniteSet(Passed(u))
           /\ Cardinality(Of(u)) \in Nat /\ Cardinality(Passed(u)) \in Nat
  <1>1. IsFiniteSet(Of(u))
    <2>1. Of(u) \in SUBSET wallets
      BY DEF Of
    <2>. QED
      BY <2>1, FS_Subset
  <1>2. IsFiniteSet(Passed(u))
    <2>1. Passed(u) \in SUBSET Handlers
      BY DEF Passed
    <2>. QED
      BY <2>1, FS_Subset, AccountsAssumption
  <1>. QED
    BY <1>1, <1>2, FS_CardinalityType

\* A step that adds neither a wallet of u nor a request that may add one.
LEMMA NotHeavier ==
    ASSUME IInv, NEW u \in Users,
           Of(u)' \subseteq Of(u), Passed(u)' \subseteq Passed(u)
    PROVE  Weight(u)' + 1 <= PremiumLimit + Cardinality(Handlers)
  <1>1. IsFiniteSet(Of(u)) /\ IsFiniteSet(Passed(u))
    BY Finite DEF IInv, RowsOK
  <1>2. DEFINE A == Of(u)  B == Passed(u)  C == Of(u)'  D == Passed(u)'
  <1>3. /\ Cardinality(A) + Cardinality(B) \in Nat
        /\ Cardinality(C) + Cardinality(D) \in Nat
        /\ Cardinality(C) + Cardinality(D) <= Cardinality(A) + Cardinality(B)
    <2>. HIDE DEF A, B, C, D
    <2>1. C \in SUBSET A /\ D \in SUBSET B /\ IsFiniteSet(A) /\ IsFiniteSet(B)
      BY <1>1 DEF A, B, C, D
    <2>. QED
      BY <2>1, Lighter
  <1>4. Weight(u) + 1 <= PremiumLimit + Cardinality(Handlers)
    BY DEF IInv, Counted
  <1>. QED
    BY <1>3, <1>4, HandlersCounted DEF Weight

LEMMA NoRequestOK == NoRequest \in Request
  BY AccountsAssumption DEF NoRequest, Request

\* A request goes on to step next with r, and no row of wallets changes.
LEMMA Moves ==
    ASSUME IInv, TypeOK', NEW h \in Handlers, NEW next, NEW r,
           at' = [at EXCEPT ![h] = next], req' = [req EXCEPT ![h] = r],
           UNCHANGED <<wallets, lastId, users>>,
           Fit(next, r),
           next \in {"lookup", "create"} =>
               at[h] \in {"lookup", "create"} /\ r.user = req[h].user
    PROVE  IInv'
  <1>1. at'[h] = next /\ req'[h] = r
    BY DEF IInv, TypeOK
  <1>2. \A g \in Handlers : g # h => at'[g] = at[g] /\ req'[g] = req[g]
    BY DEF IInv, TypeOK
  <1>3. RowsOK'
    BY DEF IInv, RowsOK
  <1>4. RequestsOK'
    BY <1>1, <1>2 DEF IInv, RequestsOK, Fit, WithId
  <1>5. Counted'
    <2>1. SUFFICES ASSUME NEW u \in Users
                   PROVE  Weight(u)' + 1 <= PremiumLimit + Cardinality(Handlers)
      BY DEF Counted
    <2>2. Of(u)' \subseteq Of(u) /\ Passed(u)' \subseteq Passed(u)
      BY <1>1, <1>2 DEF Of, Passed
    <2>. QED
      BY <2>2, NotHeavier
  <1>. QED
    BY <1>3, <1>4, <1>5 DEF IInv

\* A sign-in begins.
LEMMA VerifyBeginsStep ==
    ASSUME IInv, NEW h \in Handlers, VerifyBegins(h)
    PROVE  IInv'
  <1>1. PICK n \in Nonces, k \in Keys :
           Begin(h, [NoRequest EXCEPT !.kind = "verify", !.key = k, !.nonce = n], "get")
    BY DEF VerifyBegins, Live
  <1> DEFINE r == [NoRequest EXCEPT !.kind = "verify", !.key = k, !.nonce = n]
  <1>2. r \in Request
    BY <1>1, NoRequestOK, AccountsAssumption DEF IInv, TypeOK, Request
  <1>3. TypeOK'
    BY <1>1, <1>2, AccountsAssumption
       DEF IInv, TypeOK, Begin, Steps, nonceVars, rows
  <1>4. Fit("get", r)
    BY <1>1 DEF IInv, TypeOK, Fit, Known, Steps, NoRequest
  <1>5. /\ at' = [at EXCEPT ![h] = "get"] /\ req' = [req EXCEPT ![h] = r]
        /\ UNCHANGED <<wallets, lastId, users>>
    BY <1>1 DEF Begin, rows
  <1>. HIDE DEF r
  <1>. QED
    BY <1>3, <1>4, <1>5, Moves


\* A link begins, for a user who is signed in.
LEMMA LinkBeginsStep ==
    ASSUME IInv, NEW h \in Handlers, LinkBegins(h)
    PROVE  IInv'
  <1>1. PICK u \in signedIn, n \in Nonces, k \in Keys, a \in Asks :
           Begin(h, [NoRequest EXCEPT !.kind = "link", !.user = u, !.key = k,
                                      !.nonce = n, !.ask = a], "get")
    BY DEF LinkBegins, Live
  <1> DEFINE r == [NoRequest EXCEPT !.kind = "link", !.user = u, !.key = k, !.nonce = n, !.ask = a]
  <1>u. u \in 1..users /\ u \in 0..MaxUsers
    BY <1>1, AccountsAssumption DEF IInv, TypeOK
  <1>2. r \in Request
    BY <1>1, <1>u, NoRequestOK, AccountsAssumption DEF IInv, TypeOK, Request
  <1>3. TypeOK'
    BY <1>1, <1>2, AccountsAssumption
       DEF IInv, TypeOK, Begin, Steps, nonceVars, rows
  <1>4. Fit("get", r)
    BY <1>1, <1>u DEF IInv, TypeOK, Fit, Known, Steps, NoRequest
  <1>5. /\ at' = [at EXCEPT ![h] = "get"] /\ req' = [req EXCEPT ![h] = r]
        /\ UNCHANGED <<wallets, lastId, users>>
    BY <1>1 DEF Begin, rows
  <1>. HIDE DEF r
  <1>. QED
    BY <1>3, <1>4, <1>5, Moves


\* An unlink begins, for a user who is signed in.
LEMMA UnlinkBeginsStep ==
    ASSUME IInv, NEW h \in Handlers, UnlinkBegins(h)
    PROVE  IInv'
  <1>1. PICK u \in signedIn, i \in 1..lastId :
           Begin(h, [NoRequest EXCEPT !.kind = "unlink", !.user = u, !.id = i], "owner")
    BY DEF UnlinkBegins
  <1> DEFINE r == [NoRequest EXCEPT !.kind = "unlink", !.user = u, !.id = i]
  <1>u. u \in 1..users /\ u \in 0..MaxUsers /\ i \in Nat
    BY <1>1, AccountsAssumption DEF IInv, TypeOK
  <1>2. r \in Request
    BY <1>1, <1>u, NoRequestOK, AccountsAssumption DEF IInv, TypeOK, Request
  <1>3. TypeOK'
    BY <1>1, <1>2, AccountsAssumption
       DEF IInv, TypeOK, Begin, Steps, nonceVars, rows
  <1>4. Fit("owner", r)
    BY <1>1, <1>u DEF IInv, TypeOK, Fit, Known, Steps, NoRequest
  <1>5. /\ at' = [at EXCEPT ![h] = "owner"] /\ req' = [req EXCEPT ![h] = r]
        /\ UNCHANGED <<wallets, lastId, users>>
    BY <1>1 DEF Begin, rows
  <1>. HIDE DEF r
  <1>. QED
    BY <1>3, <1>4, <1>5, Moves


\* What the requests other than link and unlink write.
rowVars == <<wallets, lastId, users, tier>>
SideOK ==
    /\ nonce \in [Nonces -> Keys \cup {NoKey}] /\ uses \in [Nonces -> Nat]
    /\ profiles \subseteq [user : Users, slug : Addresses, status : {"created", "indexing"}]
    /\ signedIn \subseteq 1..users

\* The same for an await that is answered: a request that ends needs nothing.
LEMMA Proceeds ==
    ASSUME IInv, NEW h \in Handlers, NEW here, NEW next \in Steps, NEW r \in Request,
           Proceed(h, here, next, r),
           UNCHANGED rowVars, SideOK',
           next # "idle" => Fit(next, r),
           next \in {"lookup", "create"} =>
               here \in {"lookup", "create"} /\ r.user = req[h].user
    PROVE  IInv'
  <1>1. TypeOK'
    BY NoRequestOK DEF IInv, TypeOK, SideOK, rowVars, Proceed
  <1> DEFINE q == IF next = "idle" THEN NoRequest ELSE r
  <1>2. at[h] = here /\ at' = [at EXCEPT ![h] = next] /\ req' = [req EXCEPT ![h] = q]
    BY DEF Proceed
  <1>3. Fit(next, q)
    <2>1. CASE next = "idle"
      BY <2>1 DEF Fit, Known
    <2>2. CASE next # "idle"
      BY <2>2
    <2>. QED
      BY <2>1, <2>2
  <1>4. next \in {"lookup", "create"} =>
            at[h] \in {"lookup", "create"} /\ q.user = req[h].user
    BY <1>2
  <1>. HIDE DEF q
  <1>. QED
    BY <1>1, <1>2, <1>3, <1>4, Moves DEF rowVars


\* The profile becomes indexing.
LEMMA SetIndexingStep ==
    ASSUME IInv, NEW h \in Handlers, SetIndexing(h)
    PROVE  IInv'
  <1>1. at[h] = "status" /\ req[h] \in Request /\ Fit("status", req[h])
    BY DEF SetIndexing, Await, Proceed, IInv, TypeOK, RequestsOK
  <1>2. PICK next \in {"sign"} : Proceed(h, "status", next, req[h])
    BY <1>1 DEF SetIndexing, Await
  <1>3. next # "idle" => Fit(next, req[h])
    BY <1>1, <1>2 DEF Fit, Known, Steps
  <1>4. UNCHANGED rowVars /\ SideOK'
    BY DEF SetIndexing, IInv, TypeOK, SideOK, rowVars, nonceVars, rows
  <1>5. next \in Steps /\ next \notin {"lookup", "create"}
    BY <1>2 DEF Steps
  <1>. QED
    BY <1>1, <1>2, <1>3, <1>4, <1>5, Proceeds


\* A token for the user the request found or created.
LEMMA SignTokenStep ==
    ASSUME IInv, NEW h \in Handlers, SignToken(h)
    PROVE  IInv'
  <1>1. at[h] = "sign" /\ req[h] \in Request /\ Fit("sign", req[h])
    BY DEF SignToken, Await, Proceed, IInv, TypeOK, RequestsOK
  <1>2. PICK next \in {"idle"} : Proceed(h, "sign", next, req[h])
    BY <1>1 DEF SignToken, Await
  <1>3. next # "idle" => Fit(next, req[h])
    BY <1>1, <1>2 DEF Fit, Known, Steps
  <1>4. UNCHANGED rowVars /\ SideOK'
    BY <1>1 DEF SignToken, Fit, Known, Steps, IInv, TypeOK, SideOK, rowVars, nonceVars, rows
  <1>5. next \in Steps /\ next \notin {"lookup", "create"}
    BY <1>2 DEF Steps
  <1>. QED
    BY <1>1, <1>2, <1>3, <1>4, <1>5, Proceeds


\* The check against removing the only wallet.
LEMMA CountWalletsStep ==
    ASSUME IInv, NEW h \in Handlers, CountWallets(h)
    PROVE  IInv'
  <1>1. at[h] = "count" /\ req[h] \in Request /\ Fit("count", req[h])
    BY DEF CountWallets, Await, Proceed, IInv, TypeOK, RequestsOK
  <1>2. PICK next \in {"idle", "delete"} : Proceed(h, "count", next, req[h])
    BY <1>1 DEF CountWallets, Await
  <1>3. next # "idle" => Fit(next, req[h])
    BY <1>1, <1>2 DEF Fit, Known, Steps
  <1>4. UNCHANGED rowVars /\ SideOK'
    BY DEF CountWallets, IInv, TypeOK, SideOK, rowVars, nonceVars, rows
  <1>5. next \in Steps /\ next \notin {"lookup", "create"}
    BY <1>2 DEF Steps
  <1>. QED
    BY <1>1, <1>2, <1>3, <1>4, <1>5, Proceeds


\* A profile, or its slug is taken.
LEMMA CreateProfileStep ==
    ASSUME IInv, NEW h \in Handlers, CreateProfile(h)
    PROVE  IInv'
  <1>1. at[h] = "profile" /\ req[h] \in Request /\ Fit("profile", req[h])
    BY DEF CreateProfile, Await, Proceed, IInv, TypeOK, RequestsOK
  <1>2. PICK next \in {"idle", "status"} : Proceed(h, "profile", next, req[h])
    BY <1>1 DEF CreateProfile, Await
  <1>3. next # "idle" => Fit(next, req[h])
    BY <1>1, <1>2 DEF Fit, Known, Steps
  <1>4. UNCHANGED rowVars /\ SideOK'
    <2>1. req[h].user \in Users
      BY <1>1, AccountsAssumption DEF Fit, Known, Steps, Users, IInv, TypeOK
    <2>2. Slug(req[h].key) \in Addresses
      BY <1>1 DEF Fit, Keys, Slug
    <2> DEFINE p == [user |-> req[h].user, slug |-> Slug(req[h].key), status |-> "created"]
    <2>3. profiles' \subseteq profiles \cup {p}
      BY DEF CreateProfile
    <2>. QED
      BY <2>1, <2>2, <2>3
         DEF CreateProfile, IInv, TypeOK, SideOK, rowVars, nonceVars
  <1>5. next \in Steps /\ next \notin {"lookup", "create"}
    BY <1>2 DEF Steps
  <1>. QED
    BY <1>1, <1>2, <1>3, <1>4, <1>5, Proceeds


\* GET: the stored key is remembered.
LEMMA GetNonceStep ==
    ASSUME IInv, NEW h \in Handlers, GetNonce(h)
    PROVE  IInv'
  <1>1. at[h] = "get" /\ req[h] \in Request /\ Fit("get", req[h])
    BY DEF GetNonce, Await, Proceed, IInv, TypeOK, RequestsOK
  <1>2. PICK next \in {"idle", "del"}, r \in Request :
           /\ Proceed(h, "get", next, r)
           /\ r = [req[h] EXCEPT !.stored = nonce[req[h].nonce]]
    BY <1>1 DEF GetNonce, Request, Fit, IInv, TypeOK
  <1>3. next # "idle" => Fit(next, r)
    BY <1>1, <1>2 DEF Fit, Known, Steps
  <1>4. UNCHANGED rowVars /\ SideOK'
    BY <1>1 DEF GetNonce, IInv, TypeOK, SideOK, rowVars, nonceVars, rows
  <1>5. next \in Steps /\ (next \in {"lookup", "create"} => FALSE)
    BY <1>1, <1>2 DEF Steps
  <1>. QED
    BY <1>1, <1>2, <1>3, <1>4, <1>5, Proceeds


\* DEL: on to the user of a link, or to the wallet of a sign-in.
LEMMA DelNonceStep ==
    ASSUME IInv, NEW h \in Handlers, DelNonce(h)
    PROVE  IInv'
  <1>1. at[h] = "del" /\ req[h] \in Request /\ Fit("del", req[h])
    BY DEF DelNonce, Await, Proceed, IInv, TypeOK, RequestsOK
  <1>2. PICK next \in {"idle", "load", "find"}, r \in Request :
           /\ Proceed(h, "del", next, r)
           /\ r = [req[h] EXCEPT !.nonce = None, !.stored = NoKey]
           /\ next = "load" => req[h].kind = "link"
    BY <1>1 DEF DelNonce, AfterNonce, Request
  <1>3. next # "idle" => Fit(next, r)
    BY <1>1, <1>2 DEF Fit, Known, Steps
  <1>4. UNCHANGED rowVars /\ SideOK'
    <2>1. req[h].nonce \in Nonces
      BY <1>1 DEF Fit
    <2>. QED
      BY <2>1 DEF DelNonce, IInv, TypeOK, SideOK, rowVars, rows
  <1>5. next \in Steps /\ (next \in {"lookup", "create"} => FALSE)
    BY <1>1, <1>2 DEF Steps
  <1>. QED
    BY <1>1, <1>2, <1>3, <1>4, <1>5, Proceeds


\* The owner of the wallet, if there is one.
LEMMA FindStep ==
    ASSUME IInv, NEW h \in Handlers, Find(h)
    PROVE  IInv'
  <1>1. at[h] = "find" /\ req[h] \in Request /\ Fit("find", req[h])
    BY DEF Find, Await, Proceed, IInv, TypeOK, RequestsOK
  <1>2. PICK next \in {"createUser", "sign"}, r \in Request :
           /\ Proceed(h, "find", next, r)
           /\ \/ next = "createUser" /\ r = req[h]
              \/ \E w \in wallets : next = "sign" /\ r = [req[h] EXCEPT !.user = w.user]
    <2>1. CASE WithKey(req[h].key) = {}
      BY <1>1, <2>1 DEF Find, Await
    <2>2. CASE WithKey(req[h].key) # {}
      <3>1. PICK w \in WithKey(req[h].key) :
               Proceed(h, "find", "sign", [req[h] EXCEPT !.user = w.user])
        BY <2>2 DEF Find
      <3>2. w \in wallets /\ w.user \in 0..MaxUsers
        BY AccountsAssumption DEF WithKey, IInv, TypeOK, Wallet, Users
      <3>3. [req[h] EXCEPT !.user = w.user] \in Request
        BY <1>1, <3>2 DEF Request
      <3>. QED
        BY <3>1, <3>2, <3>3
    <2>. QED
      BY <2>1, <2>2
  <1>3. next # "idle" => Fit(next, r)
    BY <1>1, <1>2 DEF Fit, Known, Steps, IInv, TypeOK, RowsOK, Request
  <1>4. UNCHANGED rowVars /\ SideOK'
    BY <1>1 DEF Find, IInv, TypeOK, SideOK, rowVars, nonceVars, rows
  <1>5. next \in Steps /\ (next \in {"lookup", "create"} => FALSE)
    BY <1>1, <1>2 DEF Steps
  <1>. QED
    BY <1>1, <1>2, <1>3, <1>4, <1>5, Proceeds


\* The wallet may be known: to another user, to this one, or not.
LEMMA LookupStep ==
    ASSUME IInv, NEW h \in Handlers, Lookup(h)
    PROVE  IInv'
  <1>1. at[h] = "lookup" /\ req[h] \in Request /\ Fit("lookup", req[h])
    BY DEF Lookup, Await, Proceed, IInv, TypeOK, RequestsOK
  <1>2. PICK next \in {"create", "profile", "idle"}, r \in Request :
           /\ Proceed(h, "lookup", next, r)
           /\ r = req[h]
    BY <1>1 DEF Lookup, AfterLink, Await
  <1>3. next # "idle" => Fit(next, r)
    BY <1>1, <1>2 DEF Fit, Known, Steps
  <1>4. UNCHANGED rowVars /\ SideOK'
    BY <1>1 DEF Lookup, IInv, TypeOK, SideOK, rowVars, nonceVars, rows
  <1>5. next \in Steps /\ (next \in {"lookup", "create"} => r.user = req[h].user)
    BY <1>1, <1>2 DEF Steps
  <1>. QED
    BY <1>1, <1>2, <1>3, <1>4, <1>5, Proceeds


\* findById: the owner of the row is remembered with its id.
LEMMA CheckOwnerStep ==
    ASSUME IInv, NEW h \in Handlers, CheckOwner(h)
    PROVE  IInv'
  <1>1. at[h] = "owner" /\ req[h] \in Request /\ Fit("owner", req[h])
    BY DEF CheckOwner, Await, Proceed, IInv, TypeOK, RequestsOK
  <1>2. PICK next \in {"count", "idle"}, r \in Request :
           /\ Proceed(h, "owner", next, r)
           /\ r = [req[h] EXCEPT !.primary = \E w \in {x \in WithId(req[h].id) : x.user = req[h].user} :
                                               w.primary]
           /\ next = "count" => \E w \in wallets : w.id = req[h].id /\ w.user = req[h].user
    BY <1>1 DEF CheckOwner, WithId, Request
  <1>3. next # "idle" => Fit(next, r)
    BY <1>1, <1>2 DEF Fit, Known, Steps, IInv, RowsOK, WithId, Request
  <1>4. UNCHANGED rowVars /\ SideOK'
    BY <1>1 DEF CheckOwner, IInv, TypeOK, SideOK, rowVars, nonceVars, rows
  <1>5. next \in Steps /\ (next \in {"lookup", "create"} => FALSE)
    BY <1>1, <1>2 DEF Steps
  <1>. QED
    BY <1>1, <1>2, <1>3, <1>4, <1>5, Proceeds


\* The latest of the wallets that are left.
LEMMA ListRemainingStep ==
    ASSUME IInv, NEW h \in Handlers, ListRemaining(h)
    PROVE  IInv'
  <1>1. at[h] = "remaining" /\ req[h] \in Request /\ Fit("remaining", req[h])
    BY DEF ListRemaining, Await, Proceed, IInv, TypeOK, RequestsOK
  <1>2. PICK next \in {"idle", "clear"}, r \in Request :
           /\ Proceed(h, "remaining", next, r)
           /\ \/ next = "idle" /\ r = req[h]
              \/ \E w \in wallets : /\ next = "clear" /\ w.user = req[h].user
                                   /\ r = [req[h] EXCEPT !.id = w.id]
    <2>1. CASE Of(req[h].user) = {} /\ Await(h, "remaining", "idle")
      BY <1>1, <2>1 DEF Await
    <2>2. CASE \E w \in Of(req[h].user) :
                  Proceed(h, "remaining", "clear", [req[h] EXCEPT !.id = w.id])
      <3>1. PICK w \in Of(req[h].user) :
               Proceed(h, "remaining", "clear", [req[h] EXCEPT !.id = w.id])
        BY <2>2
      <3>2. w \in wallets /\ w.user = req[h].user /\ w.id \in Nat
        BY DEF Of, IInv, TypeOK, Wallet
      <3>3. [req[h] EXCEPT !.id = w.id] \in Request
        BY <1>1, <3>2 DEF Request
      <3>. QED
        BY <3>1, <3>2, <3>3
    <2>. QED
      BY <2>1, <2>2 DEF ListRemaining
  <1>3. next # "idle" => Fit(next, r)
    BY <1>1, <1>2 DEF Fit, Known, Steps, IInv, TypeOK, RowsOK, WithId, Request
  <1>4. UNCHANGED rowVars /\ SideOK'
    BY <1>1 DEF ListRemaining, IInv, TypeOK, SideOK, rowVars, nonceVars, rows
  <1>5. next \in Steps /\ (next \in {"lookup", "create"} => FALSE)
    BY <1>1, <1>2 DEF Steps
  <1>. QED
    BY <1>1, <1>2, <1>3, <1>4, <1>5, Proceeds


\* What changes neither requests nor rows of wallets and users.
LEMMA Elsewhere ==
    ASSUME IInv, TypeOK', UNCHANGED <<wallets, lastId, users, at, req>>
    PROVE  IInv'
  <1>1. RowsOK' /\ RequestsOK'
    BY DEF IInv, RowsOK, RequestsOK, Fit, WithId
  <1>2. Counted'
    <2>1. SUFFICES ASSUME NEW u \in Users
                   PROVE  Weight(u)' + 1 <= PremiumLimit + Cardinality(Handlers)
      BY DEF Counted
    <2>2. Of(u)' \subseteq Of(u) /\ Passed(u)' \subseteq Passed(u)
      BY DEF Of, Passed
    <2>. QED
      BY <2>2, NotHeavier
  <1>. QED
    BY <1>1, <1>2 DEF IInv

LEMMA IssueNonceStep ==
    ASSUME IInv, NEW n \in Nonces, NEW k \in Keys, IssueNonce(n, k)
    PROVE  IInv'
  <1>1. TypeOK'
    BY DEF IInv, TypeOK, IssueNonce, rows
  <1>. QED
    BY <1>1, Elsewhere DEF IssueNonce, rows

LEMMA NonceExpiresStep ==
    ASSUME IInv, NEW n \in Nonces, NonceExpires(n)
    PROVE  IInv'
  <1>1. TypeOK'
    BY DEF IInv, TypeOK, NonceExpires, rows
  <1>. QED
    BY <1>1, Elsewhere DEF NonceExpires, rows

LEMMA SetTierStep ==
    ASSUME IInv, NEW u \in Users, NEW t \in Tiers, SetTier(u, t)
    PROVE  IInv'
  <1>1. TypeOK'
    BY DEF IInv, TypeOK, SetTier, nonceVars
  <1>. QED
    BY <1>1, Elsewhere DEF SetTier

\* A request that is cut off leaves its rows as they are.
LEMMA AbortStep ==
    ASSUME IInv, NEW h \in Handlers, Abort(h)
    PROVE  IInv'
  <1>1. TypeOK'
    <2>1. faults' \in 0..MaxFaults
      BY AccountsAssumption DEF IInv, TypeOK, Abort
    <2>4. solo' \in BOOLEAN
      <3>1. solo' = FALSE
        BY DEF Abort
      <3>. QED
        BY <3>1
    <2>2. at' \in [Handlers -> Steps] /\ req' \in [Handlers -> Request]
      BY NoRequestOK DEF IInv, TypeOK, Abort, Steps
    <2>3. UNCHANGED <<nonce, uses, users, tier, wallets, lastId, profiles, signedIn, requests>>
      BY DEF Abort, nonceVars, rows
    <2>. QED
      BY <2>1, <2>2, <2>3, <2>4 DEF IInv, TypeOK
  <1>2. Fit("idle", NoRequest)
    BY DEF Fit, Known
  <1>. QED
    BY <1>1, <1>2, Moves DEF Abort, rows


----------------------------------------------------------------------------
(* The steps that let a request pass or write rows *)

\* Rows that were there keep their users, new rows get new ids.
Stable ==
    /\ users <= users' /\ lastId <= lastId'
    /\ \A w \in wallets' : w.id <= lastId =>
           \E x \in wallets : x.id = w.id /\ x.user = w.user

LEMMA FitStays ==
    ASSUME IInv, TypeOK', Stable, NEW s, NEW q, q.id \in Nat, q.user \in Int, Fit(s, q)
    PROVE  Fit(s, q)'
  <1>1. users \in Int /\ users' \in Int /\ lastId \in Int /\ lastId' \in Int
    BY AccountsAssumption DEF IInv, TypeOK
  <1>. QED
    BY <1>1 DEF Fit, Stable, WithId

LEMMA OthersFit ==
    ASSUME IInv, TypeOK', Stable, NEW h \in Handlers, NEW next, NEW r,
           at' = [at EXCEPT ![h] = next], req' = [req EXCEPT ![h] = r],
           Fit(next, r)'
    PROVE  RequestsOK'
  <1>1. SUFFICES ASSUME NEW g \in Handlers
                 PROVE  Fit(at[g], req[g])'
    BY DEF RequestsOK
  <1>2. CASE g = h
    BY <1>2 DEF IInv, TypeOK
  <1>3. CASE g # h
    <2>1. at'[g] = at[g] /\ req'[g] = req[g]
      BY <1>3 DEF IInv, TypeOK
    <2>2. req[g].id \in Nat /\ req[g].user \in Int
      BY DEF IInv, TypeOK, Request
    <2>3. Fit(at[g], req[g])
      BY DEF IInv, RequestsOK
    <2>. QED
      BY <2>1, <2>2, <2>3 DEF Fit, Stable, WithId, IInv, TypeOK
  <1>. QED
    BY <1>2, <1>3

\* The only step that adds to Passed but for sign-up: the limit was not reached.
LEMMA LoadStep ==
    ASSUME IInv, NEW h \in Handlers, Load(h)
    PROVE  IInv'
  <1>1. at[h] = "load" /\ req[h] \in Request /\ Fit("load", req[h])
    BY DEF Load, Proceed, IInv, TypeOK, RequestsOK
  <1>2. PICK next \in {"idle", "lookup"}, r \in Request :
           /\ Proceed(h, "load", next, r)
           /\ r.user = req[h].user /\ r.key = req[h].key
           /\ next = "lookup" =>
                  ~(Cardinality(Of(req[h].user)) >= Limit(tier[req[h].user]))
    BY <1>1 DEF Load, Request
  <1> DEFINE q == IF next = "idle" THEN NoRequest ELSE r
  <1>3. at' = [at EXCEPT ![h] = next] /\ req' = [req EXCEPT ![h] = q]
    BY <1>2 DEF Proceed
  <1>4. TypeOK' /\ Stable /\ RowsOK'
    <2>1. at' \in [Handlers -> Steps] /\ req' \in [Handlers -> Request]
      BY <1>2, NoRequestOK DEF IInv, TypeOK, Proceed, Steps
    <2>2. UNCHANGED <<nonce, uses, users, tier, wallets, lastId, profiles, signedIn,
                      requests, faults, solo>>
      BY <1>2 DEF Load, Proceed, nonceVars, rows
    <2>3. users <= users' /\ lastId <= lastId'
      BY <2>2, AccountsAssumption DEF IInv, TypeOK
    <2>. QED
      BY <2>1, <2>2, <2>3 DEF IInv, TypeOK, Stable, RowsOK
  <1>5. Fit(next, q)'
    BY <1>1, <1>2 DEF Fit, Known, Steps, Load, rows
  <1>6. RequestsOK'
    <2>. HIDE DEF q
    <2>. QED
      BY <1>3, <1>4, <1>5, OthersFit
  <1>7. Counted'
    <2>1. SUFFICES ASSUME NEW u \in Users
                   PROVE  Weight(u)' + 1 <= PremiumLimit + Cardinality(Handlers)
      BY DEF Counted
    <2>2. Of(u)' = Of(u)
      BY DEF Of, Load, rows
    <2>3. CASE next = "lookup" /\ req[h].user = u
      <3>1. IsFiniteSet(wallets) /\ IsFiniteSet(wallets')
        BY <1>4 DEF IInv, RowsOK
      <3>2. Cardinality(Of(u)) \in Nat
        BY <3>1, Finite
      <3>3. Cardinality(Of(u)) < PremiumLimit
        <4>1. Limit(tier[u]) \in Nat /\ Limit(tier[u]) <= PremiumLimit
          BY AccountsAssumption DEF Limit, FreeLimit
        <4>. QED
          BY <1>2, <2>3, <3>2, <4>1, HandlersCounted
      <3>4. Passed(u)' \in SUBSET Handlers
        BY DEF Passed
      <3>5. Cardinality(Passed(u)') \in Nat /\ Cardinality(Passed(u)') <= Cardinality(Handlers)
        BY <3>4, FS_Subset, FS_CardinalityType, AccountsAssumption
      <3>. QED
        BY <2>2, <3>2, <3>3, <3>5, HandlersCounted DEF Weight
    <2>4. CASE ~(next = "lookup" /\ req[h].user = u)
      <3>1. Passed(u)' \subseteq Passed(u)
        <4>1. SUFFICES ASSUME NEW g \in Passed(u)'  PROVE g \in Passed(u)
          OBVIOUS
        <4>2. g \in Handlers /\ at'[g] \in {"lookup", "create"} /\ req'[g].user = u
          BY DEF Passed
        <4>3. g # h
          BY <1>2, <1>3, <2>4, <4>2 DEF IInv, TypeOK
        <4>. QED
          BY <1>3, <4>2, <4>3 DEF Passed, IInv, TypeOK
      <3>. QED
        BY <2>2, <3>1, NotHeavier
    <2>. QED
      BY <2>3, <2>4
  <1>. QED
    BY <1>4, <1>6, <1>7 DEF IInv


\* A new user: no wallet is hers and no other request is.
LEMMA CreateUserStep ==
    ASSUME IInv, NEW h \in Handlers, CreateUser(h)
    PROVE  IInv'
  <1>1. /\ at[h] = "createUser" /\ req[h] \in Request /\ Fit("createUser", req[h])
        /\ users \in Nat /\ users + 1 \in 1..MaxUsers /\ users' = users + 1
    BY AccountsAssumption DEF CreateUser, Proceed, IInv, TypeOK, RequestsOK
  <1>a. PICK r \in Request : r = [req[h] EXCEPT !.user = users + 1, !.primary = TRUE]
    <2>1. users + 1 \in 0..MaxUsers
      BY <1>1, AccountsAssumption
    <2>. QED
      BY <1>1, <2>1 DEF Request
  <1>2. /\ at' = [at EXCEPT ![h] = "lookup"] /\ req' = [req EXCEPT ![h] = r]
        /\ UNCHANGED <<nonce, uses, tier, wallets, lastId, profiles, signedIn,
                       requests, faults, solo>>
    BY <1>a DEF CreateUser, Proceed, nonceVars
  <1>3. r \in Request /\ r.user = users + 1 /\ r.key = req[h].key
    BY <1>1, <1>a DEF Request
  <1>4. TypeOK'
    <2>1. at' \in [Handlers -> Steps] /\ req' \in [Handlers -> Request]
      BY <1>2, <1>3 DEF IInv, TypeOK, Steps
    <2>2. signedIn' \subseteq 1..users' /\ users' \in 0..MaxUsers
      BY <1>1, <1>2 DEF IInv, TypeOK
    <2>. QED
      BY <1>2, <2>1, <2>2 DEF IInv, TypeOK
  <1>5. Stable /\ RowsOK'
    BY <1>1, <1>2 DEF IInv, TypeOK, Stable, RowsOK
  <1>6. Fit("lookup", r)'
    BY <1>1, <1>3 DEF Fit
  <1>7. RequestsOK'
    BY <1>2, <1>4, <1>5, <1>6, OthersFit
  <1>8. Counted'
    <2>1. SUFFICES ASSUME NEW u \in Users
                   PROVE  Weight(u)' + 1 <= PremiumLimit + Cardinality(Handlers)
      BY DEF Counted
    <2>2. Of(u)' = Of(u)
      BY <1>2 DEF Of
    <2>3. CASE u = users + 1
      <3>1. Of(u)' = {}
        BY <1>1, <2>2, <2>3 DEF Of, IInv, RowsOK
      <3>2. Passed(u)' \in SUBSET Handlers
        BY DEF Passed
      <3>3. Cardinality(Passed(u)') \in Nat /\ Cardinality(Passed(u)') <= Cardinality(Handlers)
        BY <3>2, FS_Subset, FS_CardinalityType, AccountsAssumption
      <3>4. Cardinality({}) = 0
        BY FS_EmptySet
      <3>. QED
        BY <3>1, <3>3, <3>4, HandlersCounted DEF Weight
    <2>4. CASE u # users + 1
      <3>1. Passed(u)' \subseteq Passed(u)
        BY <1>2, <1>3, <2>4 DEF Passed, IInv, TypeOK
      <3>. QED
        BY <2>2, <3>1, NotHeavier
    <2>. QED
      BY <2>3, <2>4
  <1>. QED
    BY <1>4, <1>5, <1>7, <1>8 DEF IInv

\* A wallet is inserted: its request no longer counts, the wallet does.
LEMMA CreateWalletStep ==
    ASSUME IInv, NEW h \in Handlers, CreateWallet(h)
    PROVE  IInv'
  <1> DEFINE u0 == req[h].user
             w0 == [id |-> lastId + 1, key |-> req[h].key, user |-> u0,
                    primary |-> req[h].primary]
  <1>1. /\ at[h] = "create" /\ req[h] \in Request /\ Fit("create", req[h])
        /\ u0 \in 1..users /\ u0 \in Users /\ lastId \in Nat /\ users \in Nat
    BY AccountsAssumption
       DEF CreateWallet, Await, Proceed, IInv, TypeOK, RequestsOK, Fit, Known, Steps, Users
  <1>2. PICK next \in {"idle", "profile"}, r \in Request :
           Proceed(h, "create", next, r) /\ r = req[h]
    BY <1>1 DEF CreateWallet, Await, AfterLink
  <1> DEFINE q == IF next = "idle" THEN NoRequest ELSE r
  <1>3. /\ at' = [at EXCEPT ![h] = next] /\ req' = [req EXCEPT ![h] = q]
        /\ UNCHANGED <<nonce, uses, users, tier, profiles, signedIn, requests, faults, solo>>
    BY <1>2 DEF CreateWallet, Proceed, nonceVars
  <1>4. \/ wallets' = wallets /\ lastId' = lastId
        \/ wallets' = wallets \cup {w0} /\ lastId' = lastId + 1
    BY DEF CreateWallet
  <1>5. w0 \in Wallet /\ w0.id = lastId + 1 /\ w0.user = u0
    BY <1>1 DEF Wallet, Request, Fit
  <1>. HIDE DEF w0
  <1>6. TypeOK'
    <2>1. at' \in [Handlers -> Steps] /\ req' \in [Handlers -> Request]
      BY <1>1, <1>3, NoRequestOK DEF IInv, TypeOK, Steps
    <2>2. wallets' \subseteq Wallet /\ lastId' \in Nat
      BY <1>1, <1>4, <1>5 DEF IInv, TypeOK
    <2>. QED
      BY <1>3, <2>1, <2>2 DEF IInv, TypeOK
  <1>7. Stable
    BY <1>1, <1>3, <1>4, <1>5 DEF Stable
  <1>8. RowsOK'
    <2>1. IsFiniteSet(wallets')
      BY <1>4, FS_AddElement DEF IInv, RowsOK
    <2>2. \A w \in wallets : w.id \in Nat
      BY DEF IInv, TypeOK, Wallet
    <2>. QED
      BY <1>1, <1>3, <1>4, <1>5, <2>1, <2>2 DEF IInv, RowsOK
  <1>9. Fit(next, q)'
    BY <1>1, <1>2, <1>3 DEF Fit, Known, Steps
  <1>10. RequestsOK'
    <2>. HIDE DEF q
    <2>. QED
      BY <1>3, <1>6, <1>7, <1>9, OthersFit
  <1>11. Counted'
    <2>1. SUFFICES ASSUME NEW u \in Users
                   PROVE  Weight(u)' + 1 <= PremiumLimit + Cardinality(Handlers)
      BY DEF Counted
    <2>2. Passed(u)' \subseteq Passed(u) \ {h}
      BY <1>2, <1>3 DEF Passed, IInv, TypeOK
    <2>3. CASE u = u0 /\ wallets' = wallets \cup {w0}
      <3>1. /\ IsFiniteSet(Of(u)) /\ IsFiniteSet(Passed(u))
            /\ Cardinality(Of(u)) \in Nat /\ Cardinality(Passed(u)) \in Nat
        BY Finite DEF IInv, RowsOK
      <3>2. Of(u)' = Of(u) \cup {w0}
        BY <1>5, <2>3 DEF Of
      <3>3. IsFiniteSet(Of(u)') /\ Cardinality(Of(u)') <= Cardinality(Of(u)) + 1
        <4>1. /\ IsFiniteSet(Of(u) \cup {w0})
              /\ \/ Cardinality(Of(u) \cup {w0}) = Cardinality(Of(u))
                 \/ Cardinality(Of(u) \cup {w0}) = Cardinality(Of(u)) + 1
          BY <3>1, FS_AddElement
        <4>. QED
          BY <3>1, <3>2, <4>1
      <3>4. h \in Passed(u)
        BY <1>1, <2>3 DEF Passed
      <3>5. IsFiniteSet(Passed(u) \ {h}) /\ Cardinality(Passed(u) \ {h}) = Cardinality(Passed(u)) - 1
        BY <3>1, <3>4, FS_RemoveElement
      <3>6. Passed(u)' \in SUBSET (Passed(u) \ {h})
        BY <2>2
      <3>7. /\ IsFiniteSet(Passed(u)')
            /\ Cardinality(Passed(u)') <= Cardinality(Passed(u) \ {h})
        BY <3>5, <3>6, FS_Subset
      <3>8. Cardinality(Of(u)') \in Nat /\ Cardinality(Passed(u)') \in Nat
        BY <3>3, <3>7, FS_CardinalityType
      <3>9. Weight(u) + 1 <= PremiumLimit + Cardinality(Handlers)
        BY DEF IInv, Counted
      <3>. QED
        BY <3>1, <3>3, <3>5, <3>7, <3>8, <3>9, HandlersCounted DEF Weight
    <2>4. CASE ~(u = u0 /\ wallets' = wallets \cup {w0})
      <3>1. Of(u)' \subseteq Of(u)
        BY <1>4, <1>5, <2>4 DEF Of
      <3>. QED
        BY <2>2, <3>1, NotHeavier
    <2>. QED
      BY <2>3, <2>4
  <1>. QED
    BY <1>6, <1>8, <1>10, <1>11 DEF IInv


\* The row is gone, its id is never used again.
LEMMA DeleteWalletStep ==
    ASSUME IInv, NEW h \in Handlers, DeleteWallet(h)
    PROVE  IInv'
  <1>1. at[h] = "delete" /\ req[h] \in Request /\ Fit("delete", req[h])
    BY DEF DeleteWallet, Await, Proceed, IInv, TypeOK, RequestsOK
  <1>2. PICK next \in {"idle", "remaining"}, r \in Request :
           Proceed(h, "delete", next, r) /\ r = req[h]
    BY <1>1 DEF DeleteWallet, Await
  <1> DEFINE q == IF next = "idle" THEN NoRequest ELSE r
  <1>3. /\ at' = [at EXCEPT ![h] = next] /\ req' = [req EXCEPT ![h] = q]
        /\ UNCHANGED <<nonce, uses, users, tier, lastId, profiles, signedIn,
                       requests, faults, solo>>
    BY <1>2 DEF DeleteWallet, Proceed, nonceVars
  <1>4. wallets' \in SUBSET wallets
    BY DEF DeleteWallet
  <1>5. TypeOK'
    <2>1. at' \in [Handlers -> Steps] /\ req' \in [Handlers -> Request]
      BY <1>3, NoRequestOK DEF IInv, TypeOK, Steps
    <2>. QED
      BY <1>3, <1>4, <2>1 DEF IInv, TypeOK
  <1>6. Stable
    BY <1>3, <1>4, AccountsAssumption DEF Stable, IInv, TypeOK
  <1>7. RowsOK'
    <2>1. IsFiniteSet(wallets')
      BY <1>4, FS_Subset DEF IInv, RowsOK
    <2>. QED
      BY <1>3, <1>4, <2>1 DEF IInv, RowsOK
  <1>8. Fit(next, q)'
    BY <1>1, <1>2, <1>3 DEF Fit, Known, Steps
  <1>9. RequestsOK'
    <2>. HIDE DEF q
    <2>. QED
      BY <1>3, <1>5, <1>6, <1>8, OthersFit
  <1>10. Counted'
    <2>1. SUFFICES ASSUME NEW u \in Users
                   PROVE  Weight(u)' + 1 <= PremiumLimit + Cardinality(Handlers)
      BY DEF Counted
    <2>2. Of(u)' \subseteq Of(u) /\ Passed(u)' \subseteq Passed(u)
      BY <1>2, <1>3, <1>4 DEF Of, Passed, IInv, TypeOK
    <2>. QED
      BY <2>2, NotHeavier
  <1>. QED
    BY <1>5, <1>7, <1>9, <1>10 DEF IInv

\* The rows stay but for their flag.
LEMMA Repainted ==
    ASSUME IInv, NEW h \in Handlers, NEW here, NEW next \in {"idle", "set"}, NEW r \in Request,
           Proceed(h, here, next, r), next = "set" => Fit(next, r),
           UNCHANGED <<nonceVars, users, tier, lastId, profiles, signedIn>>,
           NEW f, DOMAIN f = wallets, wallets' = {f[w] : w \in wallets},
           \A w \in wallets : f[w] \in Wallet /\ f[w].id = w.id /\ f[w].user = w.user
    PROVE  IInv'
  <1> DEFINE q == IF next = "idle" THEN NoRequest ELSE r
  <1>1. /\ at' = [at EXCEPT ![h] = next] /\ req' = [req EXCEPT ![h] = q]
        /\ UNCHANGED <<nonce, uses, requests, faults, solo>>
    BY DEF Proceed, nonceVars
  <1>2. TypeOK'
    <2>1. at' \in [Handlers -> Steps] /\ req' \in [Handlers -> Request]
      BY <1>1, NoRequestOK DEF IInv, TypeOK, Steps
    <2>2. wallets' \subseteq Wallet
      OBVIOUS
    <2>. QED
      BY <1>1, <2>1, <2>2 DEF IInv, TypeOK
  <1>3. Stable
    BY AccountsAssumption DEF Stable, IInv, TypeOK
  <1>4. RowsOK'
    <2>1. IsFiniteSet(wallets')
      BY ImageNoLarger DEF IInv, RowsOK
    <2>. QED
      BY <2>1 DEF IInv, RowsOK
  <1>5. Fit(next, q)'
    BY <1>3 DEF Fit, Known, Steps, Stable, WithId
  <1>6. RequestsOK'
    <2>. HIDE DEF q
    <2>. QED
      BY <1>1, <1>2, <1>3, <1>5, OthersFit
  <1>7. Counted'
    <2>1. SUFFICES ASSUME NEW u \in Users
                   PROVE  Weight(u)' + 1 <= PremiumLimit + Cardinality(Handlers)
      BY DEF Counted
    <2> DEFINE g == [w \in Of(u) |-> f[w]]
    <2>1a. DOMAIN g = Of(u) /\ Of(u)' = {g[w] : w \in Of(u)}
      <3>1. \A w \in Of(u) : g[w] = f[w] /\ w \in wallets /\ w.user = u
        BY DEF Of
      <3>2. \A x \in Of(u)' : \E w \in Of(u) : x = f[w]
        BY DEF Of
      <3>3. \A w \in Of(u) : f[w] \in Of(u)'
        BY <3>1 DEF Of
      <3>. HIDE DEF g
      <3>4. \A x : x \in Of(u)' <=> x \in {g[w] : w \in Of(u)}
        BY <3>1, <3>2, <3>3
      <3>5. DOMAIN g = Of(u)
        BY DEF g
      <3>. QED
        BY <3>4, <3>5
    <2>2. /\ IsFiniteSet(Of(u)) /\ IsFiniteSet(Passed(u))
          /\ Cardinality(Of(u)) \in Nat /\ Cardinality(Passed(u)) \in Nat
      BY Finite DEF IInv, RowsOK
    <2>3. IsFiniteSet(Of(u)') /\ Cardinality(Of(u)') <= Cardinality(Of(u))
      <3>. HIDE DEF g
      <3>. QED
        BY <2>1a, <2>2, ImageNoLarger
    <2>4. Passed(u)' \in SUBSET Passed(u)
      BY <1>1 DEF Passed, IInv, TypeOK
    <2>5. IsFiniteSet(Passed(u)') /\ Cardinality(Passed(u)') <= Cardinality(Passed(u))
      BY <2>2, <2>4, FS_Subset
    <2>6. Cardinality(Of(u)') \in Nat /\ Cardinality(Passed(u)') \in Nat
      BY <2>3, <2>5, FS_CardinalityType
    <2>7. Weight(u) + 1 <= PremiumLimit + Cardinality(Handlers)
      BY DEF IInv, Counted
    <2>. QED
      BY <2>2, <2>3, <2>5, <2>6, <2>7, HandlersCounted DEF Weight
  <1>. QED
    BY <1>2, <1>4, <1>6, <1>7 DEF IInv

LEMMA ClearPrimaryStep ==
    ASSUME IInv, NEW h \in Handlers, ClearPrimary(h)
    PROVE  IInv'
  <1>1. at[h] = "clear" /\ req[h] \in Request /\ Fit("clear", req[h])
    BY DEF ClearPrimary, Await, Proceed, IInv, TypeOK, RequestsOK
  <1>2. PICK r \in Request : Proceed(h, "clear", "set", r) /\ r = req[h]
    BY <1>1 DEF ClearPrimary, Await
  <1>3. Fit("set", r)
    BY <1>1, <1>2 DEF Fit, Known, Steps
  <1>4. PICK f : f = [w \in wallets |-> IF w.user = req[h].user
                                        THEN [w EXCEPT !.primary = FALSE] ELSE w]
    OBVIOUS
  <1>5. DOMAIN f = wallets /\ wallets' = {f[w] : w \in wallets}
    BY <1>4 DEF ClearPrimary, Of
  <1>6. \A w \in wallets : f[w] \in Wallet /\ f[w].id = w.id /\ f[w].user = w.user
    BY <1>4 DEF IInv, TypeOK, Wallet
  <1>7. UNCHANGED <<nonceVars, users, tier, lastId, profiles, signedIn>>
    BY DEF ClearPrimary
  <1>. QED
    BY <1>2, <1>3, <1>5, <1>6, <1>7, Repainted

LEMMA SetPrimaryStep ==
    ASSUME IInv, NEW h \in Handlers, SetPrimary(h)
    PROVE  IInv'
  <1>1. at[h] = "set" /\ req[h] \in Request
    BY DEF SetPrimary, Await, Proceed, IInv, TypeOK
  <1>2. PICK r \in Request : Proceed(h, "set", "idle", r)
    BY <1>1 DEF SetPrimary, Await
  <1>4. PICK f : f = [w \in wallets |-> [w EXCEPT !.primary = @ \/ w.id = req[h].id]]
    OBVIOUS
  <1>5. DOMAIN f = wallets /\ wallets' = {f[w] : w \in wallets}
    BY <1>4 DEF SetPrimary
  <1>6. \A w \in wallets : f[w] \in Wallet /\ f[w].id = w.id /\ f[w].user = w.user
    BY <1>4 DEF IInv, TypeOK, Wallet
  <1>7. UNCHANGED <<nonceVars, users, tier, lastId, profiles, signedIn>>
    BY DEF SetPrimary
  <1>. QED
    BY <1>2, <1>5, <1>6, <1>7, Repainted

----------------------------------------------------------------------------
(* The theorems *)

LEMMA Starts == Init => IInv
  <1>. SUFFICES ASSUME Init PROVE IInv
    OBVIOUS
  <1>1. TypeOK
    <2>1. 0 \in 0..MaxUsers /\ 0 \in 0..MaxRequests /\ 0 \in 0..MaxFaults
      BY AccountsAssumption
    <2>2. at \in [Handlers -> Steps] /\ req \in [Handlers -> Request]
      BY NoRequestOK DEF Init, Steps
    <2>3. nonce \in [Nonces -> Keys \cup {NoKey}] /\ uses \in [Nonces -> Nat]
      BY DEF Init
    <2>4. tier \in [Users -> Tiers]
      BY DEF Init, Tiers
    <2>. QED
      BY <2>1, <2>2, <2>3, <2>4 DEF Init, TypeOK
  <1>2. RowsOK
    BY FS_EmptySet DEF Init, RowsOK
  <1>3. RequestsOK
    BY DEF Init, RequestsOK, Fit, Known, Steps
  <1>4. Counted
    <2>1. SUFFICES ASSUME NEW u \in Users
                   PROVE  Weight(u) + 1 <= PremiumLimit + Cardinality(Handlers)
      BY DEF Counted
    <2>2. Of(u) = {} /\ Passed(u) = {}
      BY DEF Init, Of, Passed
    <2>. QED
      BY <2>2, FS_EmptySet, HandlersCounted DEF Weight
  <1>. QED
    BY <1>1, <1>2, <1>3, <1>4 DEF IInv

LEMMA Steady ==
    ASSUME IInv, [Next]_vars
    PROVE  IInv'
  <1>1. CASE UNCHANGED vars
    BY <1>1 DEF vars, IInv, TypeOK, RowsOK, RequestsOK, Fit, WithId, Counted,
                Weight, Of, Passed
  <1>2. ASSUME NEW n \in Nonces, NonceExpires(n) PROVE IInv'
    BY <1>2, NonceExpiresStep
  <1>3. ASSUME NEW n \in Nonces, NEW k \in Keys, IssueNonce(n, k) PROVE IInv'
    BY <1>3, IssueNonceStep
  <1>4. ASSUME NEW u \in Users, NEW t \in Tiers, SetTier(u, t) PROVE IInv'
    BY <1>4, SetTierStep
  <1>5. ASSUME NEW h \in Handlers, GetNonce(h) \/ DelNonce(h) \/ Abort(h) PROVE IInv'
    BY <1>5, GetNonceStep, DelNonceStep, AbortStep
  <1>6. ASSUME NEW h \in Handlers, VerifyStep(h) PROVE IInv'
    BY <1>6, VerifyBeginsStep, FindStep, CreateUserStep, CreateProfileStep,
       SetIndexingStep, SignTokenStep DEF VerifyStep
  <1>7. ASSUME NEW h \in Handlers, LinkStep(h) PROVE IInv'
    BY <1>7, LinkBeginsStep, LoadStep, LookupStep, CreateWalletStep DEF LinkStep
  <1>8. ASSUME NEW h \in Handlers, UnlinkStep(h) PROVE IInv'
    BY <1>8, UnlinkBeginsStep, CheckOwnerStep, CountWalletsStep, DeleteWalletStep,
       ListRemainingStep, ClearPrimaryStep, SetPrimaryStep DEF UnlinkStep
  <1>. QED
    BY <1>1, <1>2, <1>3, <1>4, <1>5, <1>6, <1>7, <1>8 DEF Next

LEMMA Inductive == Spec => []IInv
  <1>1. IInv /\ [Next]_vars => IInv'
    BY Steady
  <1>. QED
    BY Starts, <1>1, PTL DEF Spec

----------------------------------------------------------------------------
(* One request after the other *)

\* As long as solo holds, no two requests are in flight.
OneByOne == solo => \A g, h \in Open : g = h

\* Requests that read nonce n and did not delete it yet.
Deleting(n) == {h \in Handlers : at[h] = "del" /\ req[h].nonce = n}

Share == IF solo THEN 1 ELSE Cardinality(Handlers)

\* Nobody got past a nonce that is still there; once it is gone only those that
\* read it before can.
Spent ==
    \A n \in Nonces : /\ nonce[n] # NoKey => uses[n] = 0
                      /\ uses[n] + Cardinality(Deleting(n)) <= Share

HasPrimary(u) == \E w \in Of(u) : w.primary
Names(r) == \E w \in Of(r.user) : w.id = r.id

\* What a request r at step s learnt of the rows, still true if it is alone.
Learnt(s, r) ==
    /\ s \in {"get", "del"} => r.kind \in {"verify", "link"}
    /\ s \in {"find", "createUser"} => r.kind = "verify"
    /\ s = "load" => r.kind = "link"
    /\ s = "createUser" => WithKey(r.key) = {}
    /\ s \in {"lookup", "create"} /\ r.kind = "verify" => WithKey(r.key) = {} /\ r.primary
    /\ s \in {"count", "delete"} =>
           Names(r) /\ (r.primary <=> \E w \in WithId(r.id) : w.primary)
    /\ s = "delete" => \E w \in Of(r.user) : w.id # r.id
    /\ s = "remaining" => Of(r.user) # {}
    /\ s \in {"clear", "set"} => Names(r)

\* The request r at step s has yet to give u a primary wallet.
Without(s, r, u) ==
    /\ r.user = u
    /\ \/ s \in {"lookup", "create"} /\ r.kind = "verify"
       \/ s \in {"remaining", "clear", "set"}

Primaries ==
    solo => /\ \A h \in Handlers : Learnt(at[h], req[h])
            /\ \A u \in 1..users :
                   HasPrimary(u) \/ \E h \in Handlers : Without(at[h], req[h], u)

\* How a step moves the requests.
LEMMA Movement ==
    ASSUME IInv, Next
    PROVE  \/ UNCHANGED <<at, solo>>
           \/ \E h \in Handlers : \E next \in Steps :
                 /\ at' = [at EXCEPT ![h] = next]
                 /\ \/ solo' = FALSE
                    \/ at[h] = "idle" /\ solo' = (solo /\ Open = {})
                    \/ at[h] # "idle" /\ solo' = solo
  <1> DEFINE Moved == \E h \in Handlers : \E next \in Steps :
                 /\ at' = [at EXCEPT ![h] = next]
                 /\ \/ solo' = FALSE
                    \/ at[h] = "idle" /\ solo' = (solo /\ Open = {})
                    \/ at[h] # "idle" /\ solo' = solo
  <1>1. ASSUME NEW h \in Handlers, NEW r, NEW first \in Steps, Begin(h, r, first)
        PROVE  Moved
    BY <1>1 DEF Begin
  <1>2. ASSUME NEW h \in Handlers, NEW r, NEW here \in Steps \ {"idle"}, NEW next \in Steps,
               Proceed(h, here, next, r)
        PROVE  Moved
    BY <1>2 DEF Proceed
  <1>3. ASSUME NEW h \in Handlers, Abort(h) PROVE Moved
    BY <1>3 DEF Abort, Steps
  <1>. HIDE DEF Moved
  <1>4. ASSUME NEW n \in Nonces, NonceExpires(n) \/ \E k \in Keys : IssueNonce(n, k)
        PROVE  UNCHANGED <<at, solo>>
    BY <1>4 DEF NonceExpires, IssueNonce
  <1>5. ASSUME NEW u \in Users, NEW t \in Tiers, SetTier(u, t) PROVE UNCHANGED <<at, solo>>
    BY <1>5 DEF SetTier
  <1>6. ASSUME NEW h \in Handlers, GetNonce(h) \/ DelNonce(h) PROVE Moved
    <2>1. CASE GetNonce(h)
      BY <1>2, <2>1 DEF GetNonce, Steps
    <2>2. CASE DelNonce(h)
      <3>1. AfterNonce(h) \in Steps
        BY DEF AfterNonce, Steps
      <3>. QED
        BY <1>2, <2>2, <3>1 DEF DelNonce, Steps
    <2>. QED
      BY <1>6, <2>1, <2>2
  <1>7. ASSUME NEW h \in Handlers, VerifyStep(h) PROVE Moved
    <2>1. CASE VerifyBegins(h)
      BY <1>1, <2>1 DEF VerifyBegins, Steps
    <2>2. CASE Find(h)
      BY <1>2, <2>2 DEF Find, Await, Steps
    <2>3. CASE CreateUser(h)
      BY <1>2, <2>3 DEF CreateUser, Steps
    <2>4. CASE CreateProfile(h)
      BY <1>2, <2>4 DEF CreateProfile, Await, Steps
    <2>5. CASE SetIndexing(h) \/ SignToken(h)
      BY <1>2, <2>5 DEF SetIndexing, SignToken, Await, Steps
    <2>. QED
      BY <1>7, <2>1, <2>2, <2>3, <2>4, <2>5 DEF VerifyStep
  <1>8. ASSUME NEW h \in Handlers, LinkStep(h) PROVE Moved
    <2>1. CASE LinkBegins(h)
      BY <1>1, <2>1 DEF LinkBegins, Steps
    <2>2. CASE Load(h)
      BY <1>2, <2>2 DEF Load, Steps
    <2>3. CASE Lookup(h)
      BY <1>2, <2>3 DEF Lookup, Await, AfterLink, Steps
    <2>4. CASE CreateWallet(h)
      BY <1>2, <2>4 DEF CreateWallet, Await, AfterLink, Steps
    <2>. QED
      BY <1>8, <2>1, <2>2, <2>3, <2>4 DEF LinkStep
  <1>9. ASSUME NEW h \in Handlers, UnlinkStep(h) PROVE Moved
    <2>1. CASE UnlinkBegins(h)
      BY <1>1, <2>1 DEF UnlinkBegins, Steps
    <2>2. CASE CheckOwner(h)
      BY <1>2, <2>2 DEF CheckOwner, Steps
    <2>3. CASE CountWallets(h) \/ DeleteWallet(h) \/ ClearPrimary(h) \/ SetPrimary(h)
      BY <1>2, <2>3 DEF CountWallets, DeleteWallet, ClearPrimary, SetPrimary, Await, Steps
    <2>4. CASE ListRemaining(h)
      BY <1>2, <2>4 DEF ListRemaining, Await, Steps
    <2>. QED
      BY <1>9, <2>1, <2>2, <2>3, <2>4 DEF UnlinkStep
  <1>. QED
    BY <1>3, <1>4, <1>5, <1>6, <1>7, <1>8, <1>9 DEF Next, Moved

LEMMA OneByOneStays ==
    ASSUME IInv, OneByOne, [Next]_vars
    PROVE  OneByOne'
  <1>1. CASE UNCHANGED <<at, solo>>
    BY <1>1 DEF OneByOne, Open
  <1>2. ASSUME NEW h \in Handlers, NEW next \in Steps, at' = [at EXCEPT ![h] = next],
               \/ solo' = FALSE
               \/ at[h] = "idle" /\ solo' = (solo /\ Open = {})
               \/ at[h] # "idle" /\ solo' = solo
        PROVE  OneByOne'
    <2>1. CASE solo' = FALSE
      BY <2>1 DEF OneByOne
    <2>2. CASE at[h] = "idle" /\ solo' = (solo /\ Open = {})
      <3>1. Open = {} => Open' \subseteq {h}
        BY <1>2 DEF Open, IInv, TypeOK
      <3>. QED
        BY <2>2, <3>1 DEF OneByOne
    <2>3. CASE at[h] # "idle" /\ solo' = solo
      <3>1. Open' \subseteq Open
        BY <1>2, <2>3 DEF Open, IInv, TypeOK
      <3>. QED
        BY <2>3, <3>1 DEF OneByOne
    <2>. QED
      BY <1>2, <2>1, <2>2, <2>3
  <1>. QED
    BY <1>1, <1>2, Movement DEF vars

----------------------------------------------------------------------------
(* What becomes of a nonce *)

LEMMA DeletingCounted ==
    ASSUME NEW n
    PROVE  /\ IsFiniteSet(Deleting(n)) /\ Cardinality(Deleting(n)) \in Nat
           /\ Cardinality(Deleting(n)) <= Cardinality(Handlers)
           /\ Share \in Nat /\ 1 <= Share /\ Share <= Cardinality(Handlers)
  <1>1. Deleting(n) \in SUBSET Handlers
    BY DEF Deleting
  <1>2. IsFiniteSet(Deleting(n)) /\ Cardinality(Deleting(n)) <= Cardinality(Handlers)
    BY <1>1, FS_Subset, AccountsAssumption
  <1>. QED
    BY <1>2, FS_CardinalityType, HandlersCounted DEF Share

\* A step that lets nobody past a nonce and starts no deletion.
LEMMA NotSpent ==
    ASSUME IInv, IInv', Spent, NEW n \in Nonces, uses'[n] = uses[n],
           nonce'[n] \in {nonce[n], NoKey},
           Deleting(n)' \subseteq Deleting(n), solo' => solo
    PROVE  /\ nonce'[n] # NoKey => uses'[n] = 0
           /\ uses'[n] + Cardinality(Deleting(n)') <= Share'
  <1>1. uses[n] \in Nat
    BY DEF IInv, TypeOK
  <1>2. Share' \in Nat /\ Share <= Share'
    BY HandlersCounted DEF Share, IInv, TypeOK
  <1>3. IsFiniteSet(Deleting(n)) /\ Cardinality(Deleting(n)) \in Nat /\ Share \in Nat
    BY DeletingCounted
  <1>4. /\ IsFiniteSet(Deleting(n)') /\ Cardinality(Deleting(n)') <= Cardinality(Deleting(n))
    BY <1>3, FS_Subset
  <1>5. Cardinality(Deleting(n)') \in Nat
    BY <1>4, FS_CardinalityType
  <1>6. /\ nonce[n] # NoKey => uses[n] = 0
        /\ uses[n] + Cardinality(Deleting(n)) <= Share
    BY DEF Spent
  <1>. QED
    BY <1>1, <1>2, <1>3, <1>4, <1>5, <1>6

\* The same for a step of h that goes on to next, any but the deletion.
LEMMA NonceKept ==
    ASSUME IInv, IInv', Spent, NEW h \in Handlers, NEW next, NEW r, next # "del",
           at' = [at EXCEPT ![h] = next], req' = [req EXCEPT ![h] = r],
           UNCHANGED nonceVars, solo' => solo
    PROVE  Spent'
  <1>1. SUFFICES ASSUME NEW n \in Nonces
                 PROVE  /\ nonce'[n] # NoKey => uses'[n] = 0
                        /\ uses'[n] + Cardinality(Deleting(n)') <= Share'
    BY DEF Spent
  <1>2. Deleting(n)' \subseteq Deleting(n)
    BY DEF Deleting, IInv, TypeOK
  <1>. QED
    BY <1>2, NotSpent DEF nonceVars

LEMMA BeginKeepsNonces ==
    ASSUME IInv, IInv', Spent, NEW h \in Handlers, NEW first, NEW r, first # "del",
           Begin(h, r, first)
    PROVE  Spent'
  BY NonceKept DEF Begin

LEMMA ProceedKeepsNonces ==
    ASSUME IInv, IInv', Spent, NEW h \in Handlers, NEW here, NEW next, NEW r, next # "del",
           Proceed(h, here, next, r), UNCHANGED nonceVars
    PROVE  Spent'
  <1> DEFINE q == IF next = "idle" THEN NoRequest ELSE r
  <1>1. at' = [at EXCEPT ![h] = next] /\ req' = [req EXCEPT ![h] = q] /\ solo' = solo
    BY DEF Proceed
  <1>. HIDE DEF q
  <1>. QED
    BY <1>1, NonceKept

\* GET of a nonce that is there: nobody got past it so far.
LEMMA GetNonceSpent ==
    ASSUME IInv, IInv', OneByOne, OneByOne', Spent, NEW h \in Handlers, GetNonce(h)
    PROVE  Spent'
  <1>1. /\ at[h] = "get" /\ solo' = solo /\ UNCHANGED <<nonce, uses>>
        /\ \A g \in Handlers : g # h => at'[g] = at[g] /\ req'[g] = req[g]
        /\ at'[h] = "del" => req'[h].nonce = req[h].nonce /\ nonce[req[h].nonce] # NoKey
    BY DEF GetNonce, Proceed, nonceVars, IInv, TypeOK, Request
  <1>2. SUFFICES ASSUME NEW n \in Nonces
                 PROVE  /\ nonce'[n] # NoKey => uses'[n] = 0
                        /\ uses'[n] + Cardinality(Deleting(n)') <= Share'
    BY DEF Spent
  <1>3. CASE ~(at'[h] = "del" /\ req[h].nonce = n)
    <2>1. Deleting(n)' \subseteq Deleting(n)
      BY <1>1, <1>3 DEF Deleting
    <2>. QED
      BY <1>1, <2>1, NotSpent
  <1>4. CASE at'[h] = "del" /\ req[h].nonce = n
    <2>1. uses'[n] = 0
      BY <1>1, <1>4 DEF Spent
    <2>2. CASE solo'
      <3>1. Deleting(n)' \in SUBSET {h}
        BY <1>4, <2>2 DEF OneByOne, Open, Deleting
      <3>2. Cardinality(Deleting(n)') <= Cardinality({h}) /\ IsFiniteSet(Deleting(n)')
        BY <3>1, FS_Subset, FS_Singleton
      <3>3. Cardinality({h}) = 1
        BY FS_Singleton
      <3>4. Cardinality(Deleting(n)') \in Nat
        BY <3>2, FS_CardinalityType
      <3>. QED
        BY <2>1, <2>2, <3>2, <3>3, <3>4 DEF Share
    <2>3. CASE ~solo'
      <3>1. Deleting(n)' \in SUBSET Handlers
        BY DEF Deleting
      <3>2. /\ Cardinality(Deleting(n)') <= Cardinality(Handlers)
            /\ IsFiniteSet(Deleting(n)')
        BY <3>1, FS_Subset, AccountsAssumption
      <3>3. Cardinality(Deleting(n)') \in Nat
        BY <3>2, FS_CardinalityType
      <3>. QED
        BY <2>1, <2>3, <3>2, <3>3, HandlersCounted DEF Share
    <2>. QED
      BY <2>2, <2>3
  <1>. QED
    BY <1>3, <1>4

\* DEL: one more got past it, one fewer is about to.
LEMMA DelNonceSpent ==
    ASSUME IInv, IInv', Spent, NEW h \in Handlers, DelNonce(h)
    PROVE  Spent'
  <1> DEFINE m == req[h].nonce
  <1>1. /\ at[h] = "del" /\ solo' = solo /\ m \in Nonces
        /\ nonce' = [nonce EXCEPT ![m] = NoKey] /\ uses' = [uses EXCEPT ![m] = uses[m] + 1]
        /\ \A g \in Handlers : g # h => at'[g] = at[g] /\ req'[g] = req[g]
    BY DEF DelNonce, Proceed, IInv, TypeOK, RequestsOK, Fit
  <1>2. at'[h] # "del"
    BY DEF DelNonce, Proceed, AfterNonce, IInv, TypeOK
  <1>. HIDE DEF m
  <1>3. SUFFICES ASSUME NEW n \in Nonces
                 PROVE  /\ nonce'[n] # NoKey => uses'[n] = 0
                        /\ uses'[n] + Cardinality(Deleting(n)') <= Share'
    BY DEF Spent
  <1>4. CASE n # m
    <2>1. Deleting(n)' \subseteq Deleting(n)
      BY <1>1, <1>2 DEF Deleting
    <2>2. uses'[n] = uses[n] /\ nonce'[n] = nonce[n]
      BY <1>1, <1>4 DEF IInv, TypeOK
    <2>. QED
      BY <1>1, <2>1, <2>2, NotSpent
  <1>5. CASE n = m
    <2>1. nonce'[n] = NoKey /\ uses'[n] = uses[n] + 1 /\ uses[n] \in Nat
      BY <1>1, <1>5 DEF IInv, TypeOK
    <2>2. h \in Deleting(n)
      BY <1>1, <1>5 DEF Deleting, m
    <2>3. Deleting(n)' \in SUBSET (Deleting(n) \ {h})
      BY <1>1, <1>2 DEF Deleting
    <2>4. IsFiniteSet(Deleting(n)) /\ Cardinality(Deleting(n)) \in Nat /\ Share \in Nat
      BY DeletingCounted
    <2>5. /\ IsFiniteSet(Deleting(n) \ {h})
          /\ Cardinality(Deleting(n) \ {h}) = Cardinality(Deleting(n)) - 1
      BY <2>2, <2>4, FS_RemoveElement
    <2>6. /\ Cardinality(Deleting(n)') <= Cardinality(Deleting(n) \ {h})
          /\ IsFiniteSet(Deleting(n)')
      BY <2>3, <2>5, FS_Subset
    <2>7. Cardinality(Deleting(n)') \in Nat
      BY <2>6, FS_CardinalityType
    <2>8. uses[n] + Cardinality(Deleting(n)) <= Share /\ Share' = Share
      BY <1>1 DEF Spent, Share
    <2>. QED
      BY <2>1, <2>4, <2>5, <2>6, <2>7, <2>8
  <1>. QED
    BY <1>4, <1>5

LEMMA SpentStays ==
    ASSUME IInv, IInv', OneByOne, OneByOne', Spent, [Next]_vars
    PROVE  Spent'
  <1>1. CASE UNCHANGED vars
    BY <1>1 DEF vars, Spent, Deleting, Share
  <1>2. ASSUME NEW m \in Nonces, NonceExpires(m) PROVE Spent'
    <2>1. SUFFICES ASSUME NEW n \in Nonces
                   PROVE  /\ nonce'[n] # NoKey => uses'[n] = 0
                          /\ uses'[n] + Cardinality(Deleting(n)') <= Share'
      BY DEF Spent
    <2>2. /\ nonce'[n] \in {nonce[n], NoKey} /\ uses'[n] = uses[n] /\ solo' = solo
          /\ Deleting(n)' \subseteq Deleting(n)
      BY <1>2 DEF NonceExpires, Deleting, IInv, TypeOK
    <2>. QED
      BY <2>2, NotSpent
  <1>3. ASSUME NEW m \in Nonces, NEW k \in Keys, IssueNonce(m, k) PROVE Spent'
    <2>1. SUFFICES ASSUME NEW n \in Nonces
                   PROVE  /\ nonce'[n] # NoKey => uses'[n] = 0
                          /\ uses'[n] + Cardinality(Deleting(n)') <= Share'
      BY DEF Spent
    <2>2. Deleting(n)' = Deleting(n) /\ solo' = solo
      BY <1>3 DEF IssueNonce, Deleting
    <2>3. CASE n # m
      <3>1. nonce'[n] = nonce[n] /\ uses'[n] = uses[n]
        BY <1>3, <2>3 DEF IssueNonce, IInv, TypeOK
      <3>. QED
        BY <2>2, <3>1, NotSpent
    <2>4. CASE n = m
      <3>1. uses'[n] = 0
        BY <1>3, <2>4 DEF IssueNonce, IInv, TypeOK
      <3>2. Deleting(n)' = {}
        BY <1>3, <2>2, <2>4 DEF IssueNonce, Deleting, Open
      <3>3. Cardinality(Deleting(n)') = 0
        BY <3>2, FS_EmptySet
      <3>4. Share' = Share /\ Share \in Nat
        BY <2>2, DeletingCounted DEF Share
      <3>. QED
        BY <3>1, <3>3, <3>4
    <2>. QED
      BY <2>3, <2>4
  <1>4. ASSUME NEW u \in Users, NEW t \in Tiers, SetTier(u, t) PROVE Spent'
    BY <1>4 DEF SetTier, nonceVars, Spent, Deleting, Share
  <1>5. ASSUME NEW h \in Handlers, GetNonce(h) \/ DelNonce(h) PROVE Spent'
    BY <1>5, GetNonceSpent, DelNonceSpent
  <1>6. ASSUME NEW h \in Handlers, Abort(h) PROVE Spent'
    BY <1>6, NonceKept DEF Abort
  <1>7. ASSUME NEW h \in Handlers, VerifyStep(h) PROVE Spent'
    <2>1. CASE VerifyBegins(h)
      BY <2>1, BeginKeepsNonces DEF VerifyBegins
    <2>2. CASE Find(h)
      BY <2>2, ProceedKeepsNonces DEF Find, Await
    <2>3. CASE CreateUser(h)
      BY <2>3, ProceedKeepsNonces DEF CreateUser
    <2>4. CASE CreateProfile(h)
      BY <2>4, ProceedKeepsNonces DEF CreateProfile, Await
    <2>5. CASE SetIndexing(h) \/ SignToken(h)
      BY <2>5, ProceedKeepsNonces DEF SetIndexing, SignToken, Await
    <2>. QED
      BY <1>7, <2>1, <2>2, <2>3, <2>4, <2>5 DEF VerifyStep
  <1>8. ASSUME NEW h \in Handlers, LinkStep(h) PROVE Spent'
    <2>1. CASE LinkBegins(h)
      BY <2>1, BeginKeepsNonces DEF LinkBegins
    <2>2. CASE Load(h)
      BY <2>2, ProceedKeepsNonces DEF Load
    <2>3. CASE Lookup(h)
      <3>1. AfterLink(h) # "del"
        BY DEF AfterLink
      <3>. QED
        BY <2>3, <3>1, ProceedKeepsNonces DEF Lookup, Await
    <2>4. CASE CreateWallet(h)
      BY <2>4, ProceedKeepsNonces DEF CreateWallet, Await, AfterLink
    <2>. QED
      BY <1>8, <2>1, <2>2, <2>3, <2>4 DEF LinkStep
  <1>9. ASSUME NEW h \in Handlers, UnlinkStep(h) PROVE Spent'
    <2>1. CASE UnlinkBegins(h)
      BY <2>1, BeginKeepsNonces DEF UnlinkBegins
    <2>2. CASE CheckOwner(h)
      BY <2>2, ProceedKeepsNonces DEF CheckOwner
    <2>3. CASE CountWallets(h) \/ DeleteWallet(h) \/ ClearPrimary(h) \/ SetPrimary(h)
      BY <2>3, ProceedKeepsNonces
         DEF CountWallets, DeleteWallet, ClearPrimary, SetPrimary, Await
    <2>4. CASE ListRemaining(h)
      BY <2>4, ProceedKeepsNonces DEF ListRemaining, Await
    <2>. QED
      BY <1>9, <2>1, <2>2, <2>3, <2>4 DEF UnlinkStep
  <1>. QED
    BY <1>1, <1>2, <1>3, <1>4, <1>5, <1>6, <1>7, <1>8, <1>9 DEF Next

----------------------------------------------------------------------------
(* The primary wallet of a user *)

\* The request of h, the only one, knows what it learnt, and everyone else has a
\* primary wallet.
LEMMA Alone ==
    ASSUME IInv, OneByOne, Primaries, solo, NEW h \in Handlers, at[h] # "idle"
    PROVE  /\ Learnt(at[h], req[h])
           /\ \A u \in 1..users : HasPrimary(u) \/ Without(at[h], req[h], u)
           /\ \A g \in Handlers : g # h => at[g] = "idle"
  <1>1. \A g \in Handlers : g # h => at[g] = "idle"
    BY DEF OneByOne, Open
  <1>. QED
    BY <1>1 DEF Primaries, Without

\* A request begins while no other is in flight: all have their primary wallet.
LEMMA BeginKeepsPrimaries ==
    ASSUME IInv, Primaries, NEW h \in Handlers, NEW first, NEW r, Begin(h, r, first),
           Learnt(first, r)
    PROVE  Primaries'
  <1>1. SUFFICES ASSUME solo'
                 PROVE  /\ \A g \in Handlers : Learnt(at[g], req[g])'
                        /\ \A u \in 1..users' : HasPrimary(u)'
    BY DEF Primaries
  <1>2. /\ solo /\ Open = {} /\ UNCHANGED <<wallets, users>>
        /\ at' = [at EXCEPT ![h] = first] /\ req' = [req EXCEPT ![h] = r]
    BY <1>1 DEF Begin, rows
  <1>3. \A u \in 1..users : HasPrimary(u)
    BY <1>2 DEF Primaries, Without, Open
  <1>4. \A u : HasPrimary(u)' = HasPrimary(u)
    BY <1>2 DEF HasPrimary, Of
  <1>5. ASSUME NEW g \in Handlers PROVE Learnt(at[g], req[g])'
    <2>1. CASE g = h
      BY <1>2, <2>1 DEF Learnt, WithKey, WithId, Names, Of, IInv, TypeOK
    <2>2. CASE g # h
      BY <1>2, <2>2 DEF Learnt, Open, IInv, TypeOK
    <2>. QED
      BY <2>1, <2>2
  <1>. QED
    BY <1>2, <1>3, <1>4, <1>5

\* The request of h goes on to next with r.
LEMMA ProceedKeepsPrimaries ==
    ASSUME IInv, OneByOne, NEW h \in Handlers, NEW here, NEW next, NEW r,
           here # "idle", Proceed(h, here, next, r),
           solo => /\ next # "idle" => Learnt(next, r)'
                   /\ \A u \in 1..users' :
                          HasPrimary(u)' \/ (next # "idle" /\ Without(next, r, u))
    PROVE  Primaries'
  <1> DEFINE q == IF next = "idle" THEN NoRequest ELSE r
  <1>1. /\ at[h] = here /\ solo' = solo
        /\ at' = [at EXCEPT ![h] = next] /\ req' = [req EXCEPT ![h] = q]
    BY DEF Proceed
  <1>2. SUFFICES ASSUME solo
                 PROVE  /\ \A g \in Handlers : Learnt(at[g], req[g])'
                        /\ \A u \in 1..users' :
                              HasPrimary(u)' \/ \E g \in Handlers : Without(at'[g], req'[g], u)
    BY <1>1 DEF Primaries, Without
  <1>3. \A g \in Handlers : g # h => at'[g] = "idle"
    BY <1>1, <1>2 DEF OneByOne, Open, IInv, TypeOK
  <1>4. at'[h] = next /\ (next # "idle" => req'[h] = r)
    BY <1>1 DEF IInv, TypeOK
  <1>. HIDE DEF q
  <1>5. ASSUME NEW g \in Handlers PROVE Learnt(at[g], req[g])'
    <2>1. CASE at'[g] = "idle"
      BY <2>1 DEF Learnt
    <2>2. CASE at'[g] # "idle"
      <3>1. g = h /\ next # "idle"
        BY <1>3, <1>4, <2>2
      <3>2. at'[g] = next /\ req'[g] = r
        BY <1>4, <3>1
      <3>3. Learnt(next, r)'
        BY <1>2, <3>1
      <3>. QED
        BY <3>2, <3>3 DEF Learnt, WithKey, WithId, Names, Of
    <2>. QED
      BY <2>1, <2>2
  <1>. QED
    BY <1>2, <1>4, <1>5

\* A step that writes no wallet and makes no user.
LEMMA ReadKeepsPrimaries ==
    ASSUME IInv, OneByOne, Primaries, NEW h \in Handlers, NEW here, NEW next, NEW r,
           here # "idle", Proceed(h, here, next, r), UNCHANGED <<wallets, users>>,
           solo /\ Learnt(here, req[h]) /\ next # "idle" => Learnt(next, r),
           solo /\ Learnt(here, req[h]) =>
               \A u \in 1..users : Without(here, req[h], u) =>
                                       next # "idle" /\ Without(next, r, u)
    PROVE  Primaries'
  <1>1. \A u : HasPrimary(u)' = HasPrimary(u)
    BY DEF HasPrimary, Of
  <1>2. ASSUME next # "idle", Learnt(next, r) PROVE Learnt(next, r)'
    BY <1>2 DEF Learnt, WithKey, WithId, Names, Of
  <1>3. at[h] = here
    BY DEF Proceed
  <1>4. ASSUME solo
        PROVE  /\ next # "idle" => Learnt(next, r)'
               /\ \A u \in 1..users' :
                      HasPrimary(u)' \/ (next # "idle" /\ Without(next, r, u))
    <2>1. /\ Learnt(here, req[h])
          /\ \A u \in 1..users : HasPrimary(u) \/ Without(here, req[h], u)
      BY <1>3, <1>4, Alone
    <2>. QED
      BY <1>1, <1>2, <1>4, <2>1
  <1>. QED
    BY <1>4, ProceedKeepsPrimaries

LEMMA NonceKeepsPrimaries ==
    ASSUME IInv, OneByOne, Primaries, NEW h \in Handlers, GetNonce(h) \/ DelNonce(h)
    PROVE  Primaries'
  <1>0. req[h] \in Request
    BY DEF IInv, TypeOK
  <1>1. CASE GetNonce(h)
    <2>1. PICK next \in {"idle", "del"}, r \in {[req[h] EXCEPT !.stored = nonce[req[h].nonce]]} :
             Proceed(h, "get", next, r)
      BY <1>1 DEF GetNonce
    <2>2. r.kind = req[h].kind
      BY <1>0, <2>1 DEF Request
    <2>3. UNCHANGED <<wallets, users>>
      BY <1>1 DEF GetNonce, rows
    <2>. QED
      BY <2>1, <2>2, <2>3, ReadKeepsPrimaries DEF Learnt, Without
  <1>2. CASE DelNonce(h)
    <2>1. PICK next \in {AfterNonce(h)},
               r \in {[req[h] EXCEPT !.nonce = None, !.stored = NoKey]} :
             Proceed(h, "del", next, r)
      BY <1>2 DEF DelNonce
    <2>2. r.kind = req[h].kind
      BY <1>0, <2>1 DEF Request
    <2>3. UNCHANGED <<wallets, users>>
      BY <1>2 DEF DelNonce, rows
    <2>4. \/ next = "load" /\ req[h].kind = "link"
          \/ next = "idle"
          \/ next = "find" /\ req[h].kind # "link"
      BY <2>1 DEF AfterNonce
    <2>5. Learnt("del", req[h]) /\ next # "idle" => Learnt(next, r)
      BY <2>2, <2>4 DEF Learnt
    <2>6. \A u \in 1..users : ~Without("del", req[h], u)
      BY DEF Without
    <2>. QED
      BY <2>1, <2>3, <2>5, <2>6, ReadKeepsPrimaries
  <1>. QED
    BY <1>1, <1>2

LEMMA FindKeepsPrimaries ==
    ASSUME IInv, OneByOne, Primaries, NEW h \in Handlers, Find(h)
    PROVE  Primaries'
  <1>1. UNCHANGED <<wallets, users>>
    BY DEF Find, rows
  <1>2. CASE WithKey(req[h].key) = {} /\ Proceed(h, "find", "createUser", req[h])
    <2>1. PICK r \in {req[h]} : Proceed(h, "find", "createUser", r)
      BY <1>2
    <2>. QED
      BY <1>1, <1>2, <2>1, ReadKeepsPrimaries DEF Learnt, Without
  <1>3. CASE \E w \in WithKey(req[h].key) :
                 Proceed(h, "find", "sign", [req[h] EXCEPT !.user = w.user])
    <2>1. PICK w, r : Proceed(h, "find", "sign", r)
      BY <1>3
    <2>. QED
      BY <1>1, <2>1, ReadKeepsPrimaries DEF Learnt, Without
  <1>. QED
    BY <1>2, <1>3 DEF Find, Await

\* The new user has no wallet, and no row holds the key that is signed up.
LEMMA CreateUserKeepsPrimaries ==
    ASSUME IInv, OneByOne, Primaries, NEW h \in Handlers, CreateUser(h)
    PROVE  Primaries'
  <1>1. PICK r \in {[req[h] EXCEPT !.user = users + 1, !.primary = TRUE]} :
           Proceed(h, "createUser", "lookup", r)
    BY DEF CreateUser
  <1>2. /\ r.user = users + 1 /\ r.primary = TRUE /\ r.kind = req[h].kind /\ r.key = req[h].key
        /\ at[h] = "createUser"
    BY <1>1 DEF Proceed, IInv, TypeOK, Request
  <1>3. UNCHANGED wallets /\ users' = users + 1 /\ users \in Nat
    BY AccountsAssumption DEF CreateUser, IInv, TypeOK
  <1>4. ASSUME solo
        PROVE  /\ Learnt("lookup", r)'
               /\ \A u \in 1..users' : HasPrimary(u)' \/ Without("lookup", r, u)
    <2>1. /\ Learnt("createUser", req[h])
          /\ \A u \in 1..users : HasPrimary(u) \/ Without("createUser", req[h], u)
      BY <1>2, <1>4, Alone
    <2>2. \A u : HasPrimary(u)' = HasPrimary(u)
      BY <1>3 DEF HasPrimary, Of
    <2>3. req[h].kind = "verify" /\ WithKey(req[h].key) = {}
      BY <2>1 DEF Learnt
    <2>4. Learnt("lookup", r)'
      BY <1>2, <1>3, <2>3 DEF Learnt, WithKey
    <2>5. ASSUME NEW u \in 1..users' PROVE HasPrimary(u)' \/ Without("lookup", r, u)
      <3>1. CASE u = users + 1
        BY <1>2, <2>3, <3>1 DEF Without
      <3>2. CASE u # users + 1
        <4>1. u \in 1..users
          BY <1>3, <3>2
        <4>. QED
          BY <2>1, <2>2, <4>1 DEF Without
      <3>. QED
        BY <3>1, <3>2
    <2>. QED
      BY <2>4, <2>5
  <1>. QED
    BY <1>1, <1>4, ProceedKeepsPrimaries

LEMMA ProfileKeepsPrimaries ==
    ASSUME IInv, OneByOne, Primaries, NEW h \in Handlers,
           CreateProfile(h) \/ SetIndexing(h) \/ SignToken(h)
    PROVE  Primaries'
  <1>1. PICK here \in {"profile", "status", "sign"}, next \in {"idle", "status", "sign"},
             r \in {req[h]} : Proceed(h, here, next, r)
    BY DEF CreateProfile, SetIndexing, SignToken, Await
  <1>2. UNCHANGED <<wallets, users>>
    BY DEF CreateProfile, SetIndexing, SignToken
  <1>. QED
    BY <1>1, <1>2, ReadKeepsPrimaries DEF Learnt, Without

\* What the default of isPrimary is does not matter: a link only adds a wallet.
LEMMA LoadKeepsPrimaries ==
    ASSUME IInv, OneByOne, Primaries, NEW h \in Handlers, Load(h)
    PROVE  Primaries'
  <1>1. PICK next, r : /\ next \in {"idle", "lookup"} /\ Proceed(h, "load", next, r)
                       /\ r.kind = req[h].kind
    <2>1. PICK b : b = IF req[h].ask = "unset" THEN \A w \in Of(req[h].user) : ~w.primary
                       ELSE req[h].ask = "yes"
      OBVIOUS
    <2>2. [req[h] EXCEPT !.primary = b].kind = req[h].kind
      BY DEF IInv, TypeOK, Request
    <2>. QED
      BY <2>1, <2>2 DEF Load
  <1>2. UNCHANGED <<wallets, users>>
    BY DEF Load, rows
  <1>. QED
    BY <1>1, <1>2, ReadKeepsPrimaries DEF Learnt, Without

\* A request that has looked a key up goes on to the insert if it is free; that of
\* a sign-up is.
LEMMA LookupKeepsPrimaries ==
    ASSUME IInv, OneByOne, Primaries, NEW h \in Handlers, Lookup(h)
    PROVE  Primaries'
  <1>1. PICK next \in {"create", "profile", "idle"}, r \in {req[h]} :
           /\ Proceed(h, "lookup", next, r)
           /\ WithKey(req[h].key) = {} => next = "create"
           /\ next = "profile" => req[h].kind = "verify" /\ WithKey(req[h].key) # {}
    BY DEF Lookup, Await, AfterLink
  <1>2. UNCHANGED <<wallets, users>>
    BY DEF Lookup, rows
  <1>. QED
    BY <1>1, <1>2, ReadKeepsPrimaries DEF Learnt, Without

\* A wallet more; that of a sign-up is the primary one.
LEMMA CreateWalletKeepsPrimaries ==
    ASSUME IInv, OneByOne, Primaries, NEW h \in Handlers, CreateWallet(h)
    PROVE  Primaries'
  <1> DEFINE w0 == [id |-> lastId + 1, key |-> req[h].key, user |-> req[h].user,
                    primary |-> req[h].primary]
  <1>1. PICK next \in {"idle", "profile"}, r \in {req[h]} : Proceed(h, "create", next, r)
    BY DEF CreateWallet, Await, AfterLink
  <1>2. /\ wallets' = wallets \/ wallets' = wallets \cup {w0}
        /\ WithKey(req[h].key) = {} => wallets' = wallets \cup {w0}
        /\ users' = users
    BY DEF CreateWallet
  <1>3. w0.user = req[h].user /\ w0.primary = req[h].primary
    OBVIOUS
  <1>. HIDE DEF w0
  <1>4. at[h] = "create"
    BY <1>1 DEF Proceed
  <1>5. ASSUME solo
        PROVE  /\ next # "idle" => Learnt(next, r)'
               /\ \A u \in 1..users' :
                      HasPrimary(u)' \/ (next # "idle" /\ Without(next, r, u))
    <2>1. /\ Learnt("create", req[h])
          /\ \A u \in 1..users : HasPrimary(u) \/ Without("create", req[h], u)
      BY <1>4, <1>5, Alone
    <2>2. \A u : HasPrimary(u) => HasPrimary(u)'
      BY <1>2 DEF HasPrimary, Of
    <2>3. next # "idle" => Learnt(next, r)'
      BY DEF Learnt
    <2>4. ASSUME NEW u \in 1..users, Without("create", req[h], u)
          PROVE  HasPrimary(u)'
      <3>1. WithKey(req[h].key) = {} /\ req[h].primary /\ req[h].user = u
        BY <2>1, <2>4 DEF Without, Learnt
      <3>2. w0 \in wallets'
        BY <1>2, <3>1
      <3>. QED
        BY <1>3, <3>1, <3>2 DEF HasPrimary, Of
    <2>. QED
      BY <1>2, <2>1, <2>2, <2>3, <2>4
  <1>. QED
    BY <1>1, <1>5, ProceedKeepsPrimaries

\* The wallet of an unlink is the user's, and the request knows whether it is the
\* primary one.
LEMMA CheckOwnerKeepsPrimaries ==
    ASSUME IInv, OneByOne, Primaries, NEW h \in Handlers, CheckOwner(h)
    PROVE  Primaries'
  <1> DEFINE mine == {w \in WithId(req[h].id) : w.user = req[h].user}
  <1>1. PICK next, r :
           /\ next \in {"idle", "count"} /\ Proceed(h, "owner", next, r)
           /\ r.id = req[h].id /\ r.user = req[h].user
           /\ r.primary = (\E w \in mine : w.primary)
           /\ next = "count" => mine # {}
    <2>1. PICK b : b = \E w \in mine : w.primary
      OBVIOUS
    <2>2. PICK r : r = [req[h] EXCEPT !.primary = b]
      OBVIOUS
    <2>3. r.id = req[h].id /\ r.user = req[h].user /\ r.primary = b
      <3>1. req[h] \in Request
        BY DEF IInv, TypeOK
      <3>. QED
        BY <2>2, <3>1 DEF Request
    <2>4. Proceed(h, "owner", IF mine = {} THEN "idle" ELSE "count",
                  [req[h] EXCEPT !.primary = \E w \in mine : w.primary])
      BY DEF CheckOwner
    <2>5. Proceed(h, "owner", IF mine = {} THEN "idle" ELSE "count", r)
      BY <2>1, <2>2, <2>4
    <2>. HIDE DEF mine
    <2>6. r.primary = (\E w \in mine : w.primary)
      BY <2>1, <2>3, Zenon
    <2>7. PICK next \in {"idle", "count"} :
             Proceed(h, "owner", next, r) /\ (next = "count" => mine # {})
      BY <2>5
    <2>. QED
      BY <2>3, <2>6, <2>7, Zenon
  <1>2. UNCHANGED <<wallets, users>>
    BY DEF CheckOwner, rows
  <1>3. ASSUME next = "count" PROVE Learnt(next, r)
    <2>1. PICK w \in wallets : w.id = req[h].id /\ w.user = req[h].user
      BY <1>1, <1>3 DEF WithId
    <2>2. Names(r)
      BY <1>1, <2>1 DEF Names, Of
    <2>3. WithId(r.id) = mine
      BY <1>1, <2>1 DEF WithId, IInv, RowsOK
    <2>. QED
      BY <1>1, <1>3, <2>2, <2>3 DEF Learnt
  <1>. QED
    BY <1>1, <1>2, <1>3, ReadKeepsPrimaries DEF Without

\* A set of more than one element has one that is not x.
LEMMA Another ==
    ASSUME NEW S, IsFiniteSet(S), ~(Cardinality(S) <= 1), NEW x
    PROVE  \E y \in S : y # x
  <1>1. SUFFICES ASSUME \A y \in S : y = x
                 PROVE  FALSE
    OBVIOUS
  <1>2. S \in SUBSET {x}
    BY <1>1
  <1>3. Cardinality(S) <= Cardinality({x}) /\ Cardinality({x}) = 1
    BY <1>2, FS_Subset, FS_Singleton
  <1>. QED
    BY <1>3

\* The wallet to remove is not the only one.
LEMMA CountKeepsPrimaries ==
    ASSUME IInv, OneByOne, Primaries, NEW h \in Handlers, CountWallets(h)
    PROVE  Primaries'
  <1>1. PICK next \in {"idle", "delete"}, r \in {req[h]} :
           /\ Proceed(h, "count", next, r)
           /\ next = "delete" => ~(Cardinality(Of(req[h].user)) <= 1)
    BY DEF CountWallets, Await
  <1>2. UNCHANGED <<wallets, users>>
    BY DEF CountWallets, rows
  <1>3. ASSUME Learnt("count", req[h]), next = "delete" PROVE Learnt(next, r)
    <2>1. PICK w \in Of(req[h].user) : w.id = req[h].id
      BY <1>3 DEF Learnt, Names
    <2>2. IsFiniteSet(Of(req[h].user))
      BY Finite DEF IInv, RowsOK
    <2>3. PICK x \in Of(req[h].user) : x # w
      BY <1>1, <1>3, <2>2, Another
    <2>4. x.id # req[h].id
      BY <2>1, <2>3 DEF Of, IInv, RowsOK
    <2>. QED
      BY <1>1, <1>3, <2>3, <2>4 DEF Learnt
  <1>. QED
    BY <1>1, <1>2, <1>3, ReadKeepsPrimaries DEF Without

\* If the row was the primary wallet, its user has one no more and the request
\* goes on to choose another; if not, the primary one is still there.
LEMMA DeleteKeepsPrimaries ==
    ASSUME IInv, OneByOne, Primaries, NEW h \in Handlers, DeleteWallet(h)
    PROVE  Primaries'
  <1>1. PICK next \in {"idle", "remaining"}, r \in {req[h]} :
           /\ Proceed(h, "delete", next, r)
           /\ next = "idle" => WithId(req[h].id) = {} \/ ~req[h].primary
    BY DEF DeleteWallet, Await
  <1>2. wallets' = wallets \ WithId(req[h].id) /\ users' = users
    BY DEF DeleteWallet
  <1>3. at[h] = "delete"
    BY <1>1 DEF Proceed
  <1>4. ASSUME solo
        PROVE  /\ next # "idle" => Learnt(next, r)'
               /\ \A u \in 1..users' :
                      HasPrimary(u)' \/ (next # "idle" /\ Without(next, r, u))
    <2>1. /\ Learnt("delete", req[h])
          /\ \A u \in 1..users : HasPrimary(u) \/ Without("delete", req[h], u)
      BY <1>3, <1>4, Alone
    <2>2. PICK x \in Of(req[h].user) : x.id # req[h].id
      BY <2>1 DEF Learnt
    <2>3. x \in wallets' /\ x.user = req[h].user
      BY <1>2, <2>2 DEF Of, WithId
    <2>4. next # "idle" => Learnt(next, r)'
      BY <1>1, <2>3 DEF Learnt, Of
    <2>5. ASSUME NEW u \in 1..users
          PROVE  HasPrimary(u)' \/ (next # "idle" /\ Without(next, r, u))
      <3>1. PICK w \in Of(u) : w.primary
        BY <2>1 DEF Without, HasPrimary
      <3>2. CASE w.id # req[h].id
        BY <1>2, <3>1, <3>2 DEF HasPrimary, Of, WithId
      <3>3. CASE w.id = req[h].id
        <4>1. w \in WithId(req[h].id)
          BY <3>3 DEF WithId, Of
        <4>2. req[h].primary
          BY <2>1, <3>1, <4>1 DEF Learnt
        <4>3. next = "remaining"
          BY <1>1, <4>1, <4>2
        <4>4. w.user = req[h].user /\ w.user = u
          BY <1>3, <4>1 DEF IInv, RequestsOK, Fit, Of
        <4>. QED
          BY <1>1, <4>3, <4>4 DEF Without
      <3>. QED
        BY <3>2, <3>3
    <2>. QED
      BY <1>2, <2>4, <2>5
  <1>. QED
    BY <1>1, <1>4, ProceedKeepsPrimaries

\* There is one left to choose.
LEMMA RemainingKeepsPrimaries ==
    ASSUME IInv, OneByOne, Primaries, NEW h \in Handlers, ListRemaining(h)
    PROVE  Primaries'
  <1>1. UNCHANGED <<wallets, users>>
    BY DEF ListRemaining, rows
  <1>2. CASE Of(req[h].user) = {} /\ Proceed(h, "remaining", "idle", req[h])
    <2>1. PICK r \in {req[h]} : Proceed(h, "remaining", "idle", r)
      BY <1>2
    <2>. QED
      BY <1>1, <1>2, <2>1, ReadKeepsPrimaries DEF Learnt, Without
  <1>3. CASE \E w \in Of(req[h].user) :
                 Proceed(h, "remaining", "clear", [req[h] EXCEPT !.id = w.id])
    <2>1. PICK w, r : /\ w \in Of(req[h].user) /\ r = [req[h] EXCEPT !.id = w.id]
                      /\ Proceed(h, "remaining", "clear", r)
      BY <1>3
    <2>2. r.user = req[h].user /\ r.id = w.id
      <3>1. req[h] \in Request
        BY DEF IInv, TypeOK
      <3>. QED
        BY <2>1, <3>1 DEF Request
    <2>3. Names(r)
      BY <2>1, <2>2 DEF Names
    <2>. QED
      BY <1>1, <2>1, <2>2, <2>3, ReadKeepsPrimaries DEF Learnt, Without
  <1>. QED
    BY <1>2, <1>3 DEF ListRemaining, Await

\* The flags of the user's wallets are cleared; the chosen one is still there.
LEMMA ClearKeepsPrimaries ==
    ASSUME IInv, OneByOne, Primaries, NEW h \in Handlers, ClearPrimary(h)
    PROVE  Primaries'
  <1>1. PICK r \in {req[h]} : Proceed(h, "clear", "set", r)
    BY DEF ClearPrimary, Await
  <1>2. /\ wallets' = (wallets \ Of(req[h].user))
                          \cup {[w EXCEPT !.primary = FALSE] : w \in Of(req[h].user)}
        /\ users' = users
    BY DEF ClearPrimary
  <1>3. at[h] = "clear"
    BY <1>1 DEF Proceed
  <1>4. ASSUME solo
        PROVE  /\ Learnt("set", r)'
               /\ \A u \in 1..users' : HasPrimary(u)' \/ Without("set", r, u)
    <2>1. /\ Learnt("clear", req[h])
          /\ \A u \in 1..users : HasPrimary(u) \/ Without("clear", req[h], u)
      BY <1>3, <1>4, Alone
    <2>2. PICK w \in Of(req[h].user) : w.id = req[h].id
      BY <2>1 DEF Learnt, Names
    <2>3. PICK x : x = [w EXCEPT !.primary = FALSE]
      OBVIOUS
    <2>4. x.id = w.id /\ x.user = w.user
      BY <2>3 DEF Of, IInv, TypeOK, Wallet
    <2>5. x \in wallets' /\ x.user = req[h].user
      BY <1>2, <2>2, <2>3, <2>4 DEF Of
    <2>6. Learnt("set", r)'
      BY <1>1, <2>2, <2>4, <2>5 DEF Learnt, Names, Of
    <2>7. ASSUME NEW u \in 1..users
          PROVE  HasPrimary(u)' \/ Without("set", r, u)
      <3>1. CASE u = req[h].user
        BY <1>1, <3>1 DEF Without
      <3>2. CASE u # req[h].user
        BY <1>2, <2>1, <3>2 DEF HasPrimary, Of, Without
      <3>. QED
        BY <3>1, <3>2
    <2>. QED
      BY <1>2, <2>6, <2>7
  <1>. QED
    BY <1>1, <1>4, ProceedKeepsPrimaries

\* The chosen wallet becomes the primary one, no other stops being one.
LEMMA SetKeepsPrimaries ==
    ASSUME IInv, OneByOne, Primaries, NEW h \in Handlers, SetPrimary(h)
    PROVE  Primaries'
  <1>1. PICK r \in {req[h]} : Proceed(h, "set", "idle", r)
    BY DEF SetPrimary, Await
  <1>2. users' = users
    BY DEF SetPrimary
  <1>3. at[h] = "set"
    BY <1>1 DEF Proceed
  <1>4. ASSUME NEW w \in wallets
        PROVE  \E x \in wallets' : /\ x.user = w.user
                                   /\ w.primary \/ w.id = req[h].id => x.primary
    <2>1. PICK x : x = [w EXCEPT !.primary = @ \/ w.id = req[h].id]
      OBVIOUS
    <2>2. x \in wallets'
      BY <2>1 DEF SetPrimary
    <2>3. x.user = w.user /\ x.primary = (w.primary \/ w.id = req[h].id)
      BY <2>1 DEF IInv, TypeOK, Wallet
    <2>. QED
      BY <2>2, <2>3
  <1>5. ASSUME solo, NEW u \in 1..users PROVE HasPrimary(u)'
    <2>1. /\ Learnt("set", req[h])
          /\ \A v \in 1..users : HasPrimary(v) \/ Without("set", req[h], v)
      BY <1>3, <1>5, Alone
    <2>2. PICK w \in Of(u) : w.primary \/ w.id = req[h].id
      BY <2>1 DEF HasPrimary, Without, Learnt, Names
    <2>. QED
      BY <1>4, <2>2 DEF HasPrimary, Of
  <1>. QED
    BY <1>1, <1>2, <1>5, ProceedKeepsPrimaries

LEMMA PrimariesStay ==
    ASSUME IInv, OneByOne, Primaries, [Next]_vars
    PROVE  Primaries'
  <1>1. ASSUME UNCHANGED <<wallets, users, at, req, solo>> PROVE Primaries'
    BY <1>1 DEF Primaries, Learnt, Without, HasPrimary, Names, Of, WithKey, WithId
  <1>2. CASE UNCHANGED vars
    BY <1>1, <1>2 DEF vars
  <1>3. ASSUME NEW n \in Nonces, NonceExpires(n) \/ \E k \in Keys : IssueNonce(n, k)
        PROVE  Primaries'
    BY <1>1, <1>3 DEF NonceExpires, IssueNonce, rows
  <1>4. ASSUME NEW u \in Users, NEW t \in Tiers, SetTier(u, t) PROVE Primaries'
    BY <1>1, <1>4 DEF SetTier
  <1>5. ASSUME NEW h \in Handlers, Abort(h) PROVE Primaries'
    BY <1>5 DEF Abort, Primaries
  <1>6. ASSUME NEW h \in Handlers, VerifyBegins(h) PROVE Primaries'
    <2>1. PICK n, k, r :
             /\ n \in Live /\ k \in Keys /\ Begin(h, r, "get")
             /\ r = [NoRequest EXCEPT !.kind = "verify", !.key = k, !.nonce = n]
      BY <1>6 DEF VerifyBegins
    <2>2. r.kind = "verify"
      BY <2>1 DEF NoRequest
    <2>. QED
      BY <2>1, <2>2, BeginKeepsPrimaries DEF Learnt
  <1>7. ASSUME NEW h \in Handlers, LinkBegins(h) PROVE Primaries'
    <2>1. PICK u, n, k, a, r :
             /\ u \in signedIn /\ n \in Live /\ k \in Keys /\ a \in Asks
             /\ Begin(h, r, "get")
             /\ r = [NoRequest EXCEPT !.kind = "link", !.user = u, !.key = k,
                                      !.nonce = n, !.ask = a]
      BY <1>7 DEF LinkBegins
    <2>2. r.kind = "link"
      BY <2>1 DEF NoRequest
    <2>. QED
      BY <2>1, <2>2, BeginKeepsPrimaries DEF Learnt
  <1>8. ASSUME NEW h \in Handlers, UnlinkBegins(h) PROVE Primaries'
    <2>1. PICK r : Begin(h, r, "owner")
      BY <1>8 DEF UnlinkBegins
    <2>. QED
      BY <2>1, BeginKeepsPrimaries DEF Learnt
  <1>9. ASSUME NEW h \in Handlers, GetNonce(h) \/ DelNonce(h) PROVE Primaries'
    BY <1>9, NonceKeepsPrimaries
  <1>10. ASSUME NEW h \in Handlers, VerifyStep(h) PROVE Primaries'
    BY <1>6, <1>10, FindKeepsPrimaries, CreateUserKeepsPrimaries, ProfileKeepsPrimaries
       DEF VerifyStep
  <1>11. ASSUME NEW h \in Handlers, LinkStep(h) PROVE Primaries'
    BY <1>7, <1>11, LoadKeepsPrimaries, LookupKeepsPrimaries, CreateWalletKeepsPrimaries
       DEF LinkStep
  <1>12. ASSUME NEW h \in Handlers, UnlinkStep(h) PROVE Primaries'
    BY <1>8, <1>12, CheckOwnerKeepsPrimaries, CountKeepsPrimaries, DeleteKeepsPrimaries,
       RemainingKeepsPrimaries, ClearKeepsPrimaries, SetKeepsPrimaries DEF UnlinkStep
  <1>. QED
    BY <1>2, <1>3, <1>4, <1>5, <1>9, <1>10, <1>11, <1>12 DEF Next

LEMMA SoloInductive == Spec => [](IInv /\ OneByOne /\ Spent /\ Primaries)
  <1>1. Init => OneByOne /\ Spent /\ Primaries
    <2>. SUFFICES ASSUME Init PROVE OneByOne /\ Spent /\ Primaries
      OBVIOUS
    <2>1. OneByOne
      BY DEF Init, OneByOne, Open
    <2>2. \A n \in Nonces : Deleting(n) = {}
      BY DEF Init, Deleting
    <2>3. Spent
      BY <2>2, FS_EmptySet DEF Init, Spent, Share
    <2>4. Primaries
      BY DEF Init, Primaries, Learnt
    <2>. QED
      BY <2>1, <2>3, <2>4
  <1>2. IInv /\ IInv' /\ OneByOne /\ Spent /\ Primaries /\ [Next]_vars =>
            OneByOne' /\ Spent' /\ Primaries'
    BY OneByOneStays, SpentStays, PrimariesStay
  <1>. QED
    BY Inductive, <1>1, <1>2, PTL DEF Spec

\* Every row, every request in flight and every counter has its type in every
\* reachable state of the sign-in and wallet handlers.
THEOREM TypeCorrect == Spec => []TypeOK
  <1>1. IInv => TypeOK
    BY DEF IInv
  <1>. QED
    BY Inductive, <1>1, PTL

\* However many requests of linkWallet and of sign-up interleave between the check
\* of the limit and the insert, and whatever billing does to the tier, a user has
\* fewer wallets than the premium limit and the number of requests in flight.
THEOREM BoundedOvershoot == Spec => []OvershootBounded
  <1>1. IInv => OvershootBounded
    <2>. SUFFICES ASSUME IInv, NEW u \in Users
                  PROVE  Cardinality(Of(u)) + 1 <= PremiumLimit + Cardinality(Handlers)
      BY DEF OvershootBounded
    <2>2. Cardinality(Of(u)) \in Nat /\ Cardinality(Passed(u)) \in Nat
      BY Finite DEF IInv, RowsOK
    <2>3. Cardinality(Of(u)) + Cardinality(Passed(u)) + 1
              <= PremiumLimit + Cardinality(Handlers)
      BY DEF IInv, Counted, Weight
    <2>. QED
      BY <2>2, <2>3, HandlersCounted
  <1>. QED
    BY Inductive, <1>1, PTL

\* A wallet row goes away only in a step of a request of its own user: the id that
\* unlinkWallet read before other requests ran never names a row of someone else.
THEOREM NobodyElseUnlinks == Spec => OthersUntouched
  <1>1. IInv /\ [Next]_vars =>
            \/ \A w \in wallets \ wallets' :
                   \E h \in Handlers : at'[h] # at[h] /\ req[h].user = w.user
            \/ UNCHANGED vars
    <2>. SUFFICES ASSUME IInv, Next, NEW w \in wallets \ wallets'
                  PROVE  \E h \in Handlers : at'[h] # at[h] /\ req[h].user = w.user
      OBVIOUS
    <2>1. PICK h \in Handlers : DeleteWallet(h) \/ ClearPrimary(h) \/ SetPrimary(h)
                                  \/ CreateWallet(h)
      <3>1. ~ UNCHANGED wallets
        OBVIOUS
      <3>2. ASSUME NEW n \in Nonces,
                   NonceExpires(n) \/ \E k \in Keys : IssueNonce(n, k)
            PROVE  FALSE
        BY <3>1, <3>2 DEF NonceExpires, IssueNonce, rows
      <3>3. ASSUME NEW u \in Users, NEW t \in Tiers, SetTier(u, t) PROVE FALSE
        BY <3>1, <3>3 DEF SetTier
      <3>4. ASSUME NEW h \in Handlers, GetNonce(h) \/ DelNonce(h) \/ Abort(h) PROVE FALSE
        BY <3>1, <3>4 DEF GetNonce, DelNonce, Abort, rows
      <3>5. ASSUME NEW h \in Handlers, VerifyStep(h) PROVE FALSE
        BY <3>1, <3>5 DEF VerifyStep, VerifyBegins, Find, CreateUser, CreateProfile,
                          SetIndexing, SignToken, Begin, rows
      <3>6. ASSUME NEW h \in Handlers, LinkStep(h) PROVE CreateWallet(h)
        BY <3>1, <3>6 DEF LinkStep, LinkBegins, Load, Lookup, Begin, rows
      <3>7. ASSUME NEW h \in Handlers, UnlinkStep(h)
            PROVE  DeleteWallet(h) \/ ClearPrimary(h) \/ SetPrimary(h)
        BY <3>1, <3>7 DEF UnlinkStep, UnlinkBegins, CheckOwner, CountWallets,
                          ListRemaining, Begin, rows
      <3>. QED
        BY <3>2, <3>3, <3>4, <3>5, <3>6, <3>7 DEF Next
    <2>2. at[h] \in Steps /\ Fit(at[h], req[h])
      BY DEF IInv, TypeOK, RequestsOK
    <2>3. at'[h] # at[h]
      BY <2>1 DEF IInv, TypeOK, DeleteWallet, ClearPrimary, SetPrimary, CreateWallet,
                  Await, Proceed, AfterLink
    <2>4. req[h].user = w.user
      <3>1. CASE DeleteWallet(h)
        BY <2>2, <3>1 DEF DeleteWallet, Await, Proceed, Fit, WithId
      <3>2. CASE ClearPrimary(h)
        BY <3>2 DEF ClearPrimary, Of
      <3>3. CASE SetPrimary(h)
        <4>1. w.id = req[h].id
          <5>1. SUFFICES ASSUME w.id # req[h].id PROVE FALSE
            OBVIOUS
          <5>2. w.primary \in BOOLEAN /\ w = [w EXCEPT !.primary = w.primary]
            BY DEF IInv, TypeOK, Wallet
          <5>3. (w.primary \/ w.id = req[h].id) = w.primary
            BY <5>1, <5>2
          <5>4. [w EXCEPT !.primary = w.primary \/ w.id = req[h].id] = w
            BY <5>2, <5>3
          <5>5. [w EXCEPT !.primary = w.primary \/ w.id = req[h].id] \in wallets'
            BY <3>3 DEF SetPrimary
          <5>. QED
            BY <5>4, <5>5
        <4>2. at[h] = "set"
          BY <3>3 DEF SetPrimary, Await, Proceed
        <4>. QED
          BY <2>2, <4>1, <4>2 DEF Fit, WithId
      <3>4. CASE CreateWallet(h)
        BY <3>4 DEF CreateWallet
      <3>. QED
        BY <2>1, <3>1, <3>2, <3>3, <3>4
    <2>. QED
      BY <2>3, <2>4
  <1>2. IInv /\ [Next]_vars =>
            [\A w \in wallets \ wallets' :
                 \E h \in Handlers : at'[h] # at[h] /\ req[h].user = w.user]_vars
    BY <1>1
  <1>. QED
    BY Inductive, <1>2, PTL DEF Spec, OthersUntouched

\* A nonce lets one request through as long as requests come one after the other,
\* and however they interleave no more than are in flight at a time: the GET and
\* the DEL of consumeNonce are two calls, but no GET after the first DEL finds it.
THEOREM NonceUsedOnce == Spec => []NonceOnce
  <1>1. IInv /\ Spent => NonceOnce
    <2>. SUFFICES ASSUME IInv, Spent, NEW n \in Nonces PROVE uses[n] <= Share
      BY DEF NonceOnce, Share
    <2>1. Cardinality(Deleting(n)) \in Nat /\ Share \in Nat /\ uses[n] \in Nat
      BY DeletingCounted DEF IInv, TypeOK
    <2>2. uses[n] + Cardinality(Deleting(n)) <= Share
      BY DEF Spent
    <2>. QED
      BY <2>1, <2>2
  <1>. QED
    BY SoloInductive, <1>1, PTL

\* Whichever wallets users sign up with, link (with isPrimary or without) and
\* unlink, one request after the other, each user is left with a primary wallet:
\* unlinkWallet never ends between the removal of it and the choice of another.
THEOREM PrimaryKept == Spec => []KeepsPrimary
  <1>1. Primaries => KeepsPrimary
    BY DEF Primaries, KeepsPrimary, HasPrimary, Without, Open
  <1>. QED
    BY SoloInductive, <1>1, PTL

====
