------------------------------ MODULE WebProofs ------------------------------
(***************************************************************************)
(* Machine-checked proofs about Web, for every set of slots and every      *)
(* bound: the session, the hint of the slug field and the rename.          *)
(***************************************************************************)
EXTENDS Web, TLAPS

----------------------------------------------------------------------------
(* The inductive invariant *)

\* One request and its answer.
Fit(f) ==
    /\ f.kind = None => f = NoFetch
    /\ f.kind # None => f.token # 0 /\ f.step # None
    /\ f.step # "answered" => f.answer = None
    /\ f.answer = "401" => f.token \in expired
    /\ f.kind = "check" => f.slug \in Slug
    /\ f.kind = "save" => f.slug \in Typed
    /\ f.kind = "save" /\ f.answer \in Slug => f.answer = f.slug
    /\ f.kind = "save" /\ f.step = "answered" => f.answer \in Slug \cup {"401"} \cup Errors
    /\ f.kind = "load" /\ f.step = "answered" => f.answer \in Slug \cup {"401"} \cup Errors
    /\ f.kind = "check" /\ f.step = "answered" => f.answer \in {"free", "taken", "401"} \cup Errors

RequestsOK == \A r \in Slots : Fit(fetch[r])

\* Without a session nothing is asked; with one there is a profile.
SessionOK ==
    /\ token = 0 => page # "onboarding" /\ profile = None /\ \A r \in Slots : fetch[r] = NoFetch
    /\ token # 0 => row # Nobody
    /\ queued \/ job # None => row # Nobody
    /\ form # None => signIns < MaxSignIns

\* The page asks for one profile, then for the rest, and for one save at a time.
PageOK ==
    /\ profile = None => hint = None /\ ~timer
    /\ profile # None => page = "settings" /\ slug \in Typed
    /\ \A r \in Mounted("check") \cup Mounted("save") : profile # None
    /\ \A r \in Mounted("load") : profile = None
    /\ \A q, r \in Mounted("load") : q = r
    /\ \A q, r \in Mounted("save") : q = r
    /\ timer => slug \in Slug \ {profile}

\* In order, a check is about the slug in the field, and after it the hint is.
HintOK ==
    inOrder /\ profile # None =>
        /\ \A q, r \in Mounted("check") : q = r
        /\ \A r \in Mounted("check") : fetch[r].slug = slug /\ slug # profile /\ ~timer
        /\ (Mounted("check") = {} /\ ~timer) =>
              /\ slug \in {profile, "empty"} => hint = None
              /\ slug = "bad" <=> hint = "invalid"
              /\ hint = None => slug \in {profile, "empty", free}

\* Saves that were not yet served, and those the API accepted.
Unserved == {r \in Asked("save") : fetch[r].step = "sent"}
Accepted == {r \in Mounted("save") : fetch[r].answer \in Slug}

\* From a fresh page one save is on its way.  The slug of the page is that of the
\* row, or the answer that says so is.
FreshOK ==
    fresh =>
        /\ \A q, r \in Unserved : q = r
        /\ profile # None => Unserved \subseteq Mounted("save")
        /\ \A r \in Mounted("load") : fetch[r].answer \in Slug => Unserved = {}
        /\ faults = 0 =>
              /\ \A r \in Unserved : fetch[r].confirmed \/ fetch[r].slug = row.slug
              /\ \A r \in Mounted("load") :
                    fetch[r].answer \in Slug => fetch[r].answer = row.slug
              /\ profile # None =>
                    /\ \A r \in Accepted : fetch[r].slug = row.slug
                    /\ Accepted = {} => profile = row.slug

IInv == TypeOK /\ RequestsOK /\ SessionOK /\ PageOK /\ HintOK /\ FreshOK

----------------------------------------------------------------------------
(* What the steps do to the requests *)

LEMMA NoFetchOK ==
    /\ NoFetch \in Fetches /\ NoFetch.kind = None /\ NoFetch.mounted = FALSE
    /\ NoFetch.step = None /\ NoFetch.answer = None /\ NoFetch.token = 0
    /\ NoFetch.slug = None
  BY DEF NoFetch, Fetches, None

LEMMA SentOK ==
    ASSUME token \in Nat, NEW kind \in {"poll", "load", "check", "save"},
           NEW s \in Typed \cup {None}, NEW sure \in BOOLEAN
    PROVE  LET f == Sent(kind, s, sure)
           IN  /\ f \in Fetches /\ f.kind = kind /\ f.token = token /\ f.slug = s
               /\ f.confirmed = sure /\ f.mounted = TRUE /\ f.step = "sent" /\ f.answer = None
  BY DEF Sent, NoFetch, Fetches, None

LEMMA SendingLoad ==
    ASSUME TypeOK
    PROVE  LET f == Sent("load", None, FALSE)
           IN  /\ f \in Fetches /\ f.kind = "load" /\ f.token = token /\ f.mounted = TRUE
               /\ f.step = "sent" /\ f.answer = None
  <1>1. token \in Nat
    BY WebAssumption DEF TypeOK
  <1>. QED
    BY <1>1 DEF Sent, NoFetch, Fetches, None

\* A new request takes a slot that is not in use.
LEMMA Sending ==
    ASSUME TypeOK, NEW f \in Fetches, Fetch(f)
    PROVE  \E s \in Slots :
               /\ fetch[s] = NoFetch /\ fetch'[s] = f
               /\ \A q \in Slots \ {s} : fetch'[q] = fetch[q]
               /\ fetch' \in [Slots -> Fetches]
  <1>. DEFINE s == CHOOSE r \in Idle : TRUE
  <1>1. s \in Idle /\ fetch' = [fetch EXCEPT ![s] = f]
    BY DEF Fetch
  <1>2. s \in Slots /\ fetch[s] = NoFetch
    BY <1>1 DEF Idle
  <1>. HIDE DEF s
  <1>. QED
    BY <1>1, <1>2 DEF TypeOK

\* An answer leaves all but itself as it was.
LEMMA Answering ==
    ASSUME TypeOK, NEW r \in Slots,
           NEW a \in Slug \cup Status \cup {None, "free", "taken", "400", "401", "404", "lost"},
           Answer(r, a)
    PROVE  /\ fetch' \in [Slots -> Fetches]
           /\ \A q \in Slots \ {r} : fetch'[q] = fetch[q]
           /\ fetch'[r].kind = fetch[r].kind /\ fetch'[r].token = fetch[r].token
           /\ fetch'[r].slug = fetch[r].slug /\ fetch'[r].confirmed = fetch[r].confirmed
           /\ fetch'[r].mounted = fetch[r].mounted
           /\ fetch'[r].step = "answered" /\ fetch'[r].answer = a
  <1>1. fetch \in [Slots -> Fetches] /\ fetch[r] \in Fetches
    BY DEF TypeOK
  <1>. DEFINE f == [fetch[r] EXCEPT !.step = "answered", !.answer = a]
  <1>2. fetch' = [fetch EXCEPT ![r] = f]
    BY <1>1 DEF Answer
  <1>3. /\ f \in Fetches
        /\ f.kind = fetch[r].kind /\ f.token = fetch[r].token
        /\ f.slug = fetch[r].slug /\ f.confirmed = fetch[r].confirmed
        /\ f.mounted = fetch[r].mounted
        /\ f.step = "answered" /\ f.answer = a
    BY <1>1 DEF Fetches
  <1>. HIDE DEF f
  <1>. QED
    BY <1>1, <1>2, <1>3

LEMMA Forgetting ==
    ASSUME TypeOK, NEW r \in Slots, Forget(r)
    PROVE  /\ fetch' \in [Slots -> Fetches] /\ fetch'[r] = NoFetch
           /\ \A q \in Slots \ {r} : fetch'[q] = fetch[q]
  BY NoFetchOK DEF TypeOK, Forget

\* The requests of the page before, which nobody hears any more.
LEMMA Unmounting ==
    ASSUME TypeOK
    PROVE  /\ Unmounted \in [Slots -> Fetches]
           /\ \A r \in Slots :
                 LET u == Unmounted[r]
                     f == fetch[r]
                 IN  /\ f = NoFetch => u = NoFetch
                     /\ u.kind = f.kind /\ u.token = f.token /\ u.slug = f.slug
                     /\ u.confirmed = f.confirmed /\ u.step = f.step /\ u.answer = f.answer
                     /\ u.mounted = FALSE
  <1>1. fetch \in [Slots -> Fetches]
    BY DEF TypeOK
  <1>2. ASSUME NEW r \in Slots
        PROVE  LET u == Unmounted[r]
                   f == fetch[r]
               IN  /\ u \in Fetches
                   /\ f = NoFetch => u = NoFetch
                   /\ u.kind = f.kind /\ u.token = f.token /\ u.slug = f.slug
                   /\ u.confirmed = f.confirmed /\ u.step = f.step /\ u.answer = f.answer
                   /\ u.mounted = FALSE
    <2>1. CASE fetch[r] = NoFetch
      <3>1. Unmounted[r] = NoFetch
        BY <2>1 DEF Unmounted
      <3>. QED
        BY <2>1, <3>1, NoFetchOK
    <2>2. CASE fetch[r] # NoFetch
      <3>1. Unmounted[r] = [fetch[r] EXCEPT !.mounted = FALSE]
        BY <2>2 DEF Unmounted
      <3>2. fetch[r] \in Fetches
        BY <1>1
      <3>. QED
        BY <2>2, <3>1, <3>2 DEF Fetches
    <2>. QED
      BY <2>1, <2>2
  <1>3. Unmounted \in [Slots -> Fetches]
    BY <1>2 DEF Unmounted
  <1>. QED
    BY <1>2, <1>3

----------------------------------------------------------------------------
(* Steps outside the pages *)

LEMMA Elsewhere ==
    ASSUME IInv, UNCHANGED <<token, page, fetch, settings>>,
           row'.slug = row.slug, row # Nobody => row' # Nobody,
           queued' \/ job' # None => row' # Nobody,
           form' # None => signIns' < MaxSignIns, expired \subseteq expired', faults' \in {faults, faults + 1}
    PROVE  RequestsOK' /\ SessionOK' /\ PageOK' /\ HintOK' /\ FreshOK'
  <1>1. UNCHANGED <<profile, fresh, slug, hint, timer, inOrder, free>>
    BY DEF settings, field
  <1>2. RequestsOK'
    BY DEF IInv, RequestsOK, Fit
  <1>3. SessionOK'
    BY <1>1 DEF IInv, SessionOK
  <1>4. UNCHANGED <<Mounted("check"), Mounted("save"), Mounted("load"), Unserved, Accepted>>
    BY DEF Mounted, Asked, Unserved, Accepted
  <1>5. PageOK'
    BY <1>1, <1>4 DEF IInv, PageOK
  <1>6. HintOK'
    BY <1>1, <1>4 DEF IInv, HintOK
  <1>7. FreshOK'
    <2>1. faults \in Nat /\ (faults' = 0 => faults = 0)
      BY WebAssumption DEF IInv, TypeOK
    <2>. QED
      BY <1>1, <1>4, <2>1 DEF IInv, FreshOK
  <1>. QED
    BY <1>2, <1>3, <1>5, <1>6, <1>7

\* Refreshes, the cron job and the jobs leave the slug of the row alone.
LEMMA JobsStep ==
    ASSUME IInv, Refresh \/ Cron \/ JobStep
    PROVE  IInv'
  <1>1. /\ {MaxJobs, MaxFaults} \subseteq Nat /\ faults \in 0..MaxFaults /\ jobs \in 0..MaxJobs
        /\ row \in Profiles /\ payload \in Profiles /\ seen \in Profiles
        /\ queued \in BOOLEAN /\ job \in {None, "read", "published"}
    BY WebAssumption DEF IInv, TypeOK
  <1>2. row # Nobody
    BY DEF Refresh, Cron, JobStep, JobReads, JobPublishes, JobEnds, JobFails, IInv, SessionOK, None
  <1>3. \A s \in Status : LET w == [row EXCEPT !.status = s]
                          IN  w \in Profiles /\ w # Nobody /\ w.slug = row.slug
    BY <1>1, <1>2 DEF Profiles, Nobody, Slug, None
  <1>4. /\ UNCHANGED <<taken, session, page, form, fetch, settings, error, visits, edits>>
        /\ row' = row \/ \E s \in Status : row' = [row EXCEPT !.status = s]
        /\ payload' \in {payload, seen} /\ seen' \in {seen, row, Nobody}
        /\ job' \in {job, None, "read", "published"}
        /\ faults' \in {faults, faults + 1} /\ (faults' = faults \/ faults < MaxFaults)
        /\ jobs' \in {jobs, jobs + 1} /\ (jobs' = jobs \/ jobs < MaxJobs)
    BY DEF Refresh, Cron, JobStep, JobReads, JobPublishes, JobEnds, JobFails, bounds, Status
  <1>5. queued' \in BOOLEAN
    <2>1. queued' \in {queued, TRUE, FALSE}
      BY DEF Refresh, Cron, JobStep, JobReads, JobPublishes, JobEnds, JobFails
    <2>. QED
      BY <1>1, <2>1
  <1>6. row' \in Profiles /\ row' # Nobody /\ row'.slug = row.slug
    <2>1. CASE row' = row
      BY <1>1, <1>2, <2>1
    <2>2. CASE row' # row
      <3>1. PICK s \in Status : row' = [row EXCEPT !.status = s]
        BY <1>4, <2>2
      <3>2. PICK w \in Profiles : w = [row EXCEPT !.status = s] /\ w # Nobody /\ w.slug = row.slug
        BY <1>3
      <3>. QED
        BY <3>1, <3>2
    <2>. QED
      BY <2>1, <2>2
  <1>7. faults' \in 0..MaxFaults /\ jobs' \in 0..MaxJobs
    BY <1>1, <1>4
  <1>8. TypeOK'
    <2>1. payload' \in Profiles /\ seen' \in Profiles /\ job' \in {None, "read", "published"}
      BY <1>1, <1>4 DEF Profiles
    <2>. QED
      BY <1>4, <1>5, <1>6, <1>7, <2>1 DEF IInv, TypeOK, session, settings, field
  <1>9. UNCHANGED <<token, expired, signIns>>
    BY <1>4 DEF session
  <1>. QED
    BY <1>4, <1>6, <1>8, <1>9, Elsewhere DEF IInv, SessionOK

LEMMA OutsideStep ==
    ASSUME IInv, SignIn \/ FormStep \/ Expire \/ Refresh \/ Cron \/ JobStep \/ SlugGone \/ UNCHANGED vars
    PROVE  IInv'
  <1>1. /\ {MaxSignIns, MaxVisits, MaxEdits, MaxJobs, MaxFaults} \subseteq Nat
        /\ faults \in 0..MaxFaults /\ jobs \in 0..MaxJobs /\ row \in Profiles
    BY WebAssumption DEF IInv, TypeOK
  <1>2. CASE SignIn \/ FormStep
    <2>1. UNCHANGED <<server, session, page, fetch, settings, error, bounds>>
      BY <1>2 DEF SignIn, FormStep
    <2>2. form' \in {None, "nonce", "sign", "verify"}
      BY <1>2 DEF SignIn, FormStep
    <2>3. TypeOK'
      BY <2>1, <2>2 DEF IInv, TypeOK, server, index, session, settings, field, bounds
    <2>4. UNCHANGED <<token, expired, signIns, row, queued, job, faults>>
      BY <2>1 DEF server, index, session, bounds
    <2>5. form' # None => signIns' < MaxSignIns
      BY <1>1, <1>2, <2>4 DEF SignIn, FormStep, IInv, TypeOK, SessionOK, None
    <2>. QED
      BY <2>1, <2>3, <2>4, <2>5, Elsewhere DEF IInv, SessionOK
  <1>3. CASE Expire
    <2>1. /\ token # 0 /\ expired' = expired \cup {token}
          /\ UNCHANGED <<server, token, signIns, page, form, fetch, settings, error, visits, edits, jobs>>
      BY <1>3 DEF Expire
    <2>2. faults' \in 0..MaxFaults /\ faults' = faults + 1
      BY <1>1, <1>3 DEF Expire
    <2>3. TypeOK'
      <3>1. expired' \subseteq 1..signIns
        BY <2>1 DEF IInv, TypeOK
      <3>. QED
        BY <2>1, <2>2, <3>1 DEF IInv, TypeOK, server, index, settings, field
    <2>4. UNCHANGED <<row, queued, job>>
      BY <2>1 DEF server, index
    <2>. QED
      BY <2>1, <2>2, <2>3, <2>4, Elsewhere DEF IInv, SessionOK
  <1>4. CASE Refresh \/ Cron \/ JobStep
    BY <1>4, JobsStep
  <1>5. CASE SlugGone
    <2>1. /\ taken' = TRUE
          /\ UNCHANGED <<row, payload, index, session, page, form, fetch, settings, error, bounds>>
      BY <1>5 DEF SlugGone
    <2>2. TypeOK'
      BY <2>1 DEF IInv, TypeOK, index, session, settings, field, bounds
    <2>3. UNCHANGED <<token, expired, signIns, queued, job, row, faults>>
      BY <2>1 DEF index, session, bounds
    <2>. QED
      BY <2>1, <2>2, <2>3, Elsewhere DEF IInv, SessionOK
  <1>6. CASE UNCHANGED vars
    <2>1. TypeOK'
      BY <1>6 DEF vars, IInv, TypeOK
    <2>2. UNCHANGED <<token, page, fetch, settings, row, queued, job, expired, signIns, form, faults>>
      BY <1>6 DEF vars, settings, field
    <2>. QED
      BY <2>1, <2>2, Elsewhere DEF IInv, SessionOK
  <1>. QED
    BY <1>2, <1>3, <1>4, <1>5, <1>6

----------------------------------------------------------------------------
(* Pages that open *)

\* A new page knows nothing yet; what is asked on it is at most its profile.
LEMMA Opening ==
    ASSUME IInv, NEW p \in Pages, NEW F \in [Slots -> Fetches], Mount(p, F),
           \A r \in Slots :
               \/ F[r] = NoFetch
               \/ /\ Fit(F[r])' /\ F[r].mounted = FALSE
                  /\ F[r].kind = fetch[r].kind /\ F[r].step = fetch[r].step
                  /\ F[r].slug = fetch[r].slug /\ F[r].confirmed = fetch[r].confirmed
               \/ Fit(F[r])' /\ F[r].kind = "load" /\ F[r].answer = None,
           \A q, r \in Slots : F[q].kind = "load" /\ F[q].mounted /\ F[r].kind = "load" /\ F[r].mounted => q = r,
           row'.slug = row.slug \/ Asked("save") = {}, faults' = faults
    PROVE  RequestsOK' /\ PageOK' /\ HintOK' /\ FreshOK'
  <1>1. /\ fetch' = F /\ profile' = None /\ hint' = None /\ timer' = FALSE
        /\ fresh' = (fresh \/ Asked("save") = {})
    BY DEF Mount
  <1>2. Fit(NoFetch)'
    BY NoFetchOK DEF Fit, None
  <1>3. RequestsOK'
    <2>. SUFFICES ASSUME NEW r \in Slots PROVE Fit(F[r])'
      BY <1>1 DEF RequestsOK
    <2>. QED
      BY <1>2
  <1>4. Mounted("check")' = {} /\ Mounted("save")' = {}
    BY <1>1, NoFetchOK DEF Mounted, Asked, None
  <1>5. \A q, r \in Mounted("load")' : q = r
    BY <1>1 DEF Mounted, Asked
  <1>6. PageOK'
    BY <1>1, <1>4, <1>5 DEF PageOK
  <1>7. HintOK'
    BY <1>1 DEF HintOK
  <1>8. Unserved' \subseteq Unserved
    BY <1>1, NoFetchOK DEF Unserved, Asked, None
  <1>9. \A r \in Unserved' : fetch'[r].confirmed = fetch[r].confirmed /\ fetch'[r].slug = fetch[r].slug
    BY <1>1, NoFetchOK DEF Unserved, Asked, None
  <1>10. \A r \in Mounted("load")' : fetch'[r].answer \notin Slug
    BY <1>1, NoFetchOK DEF Mounted, Asked, None, Slug
  <1>11. FreshOK'
    <2>. SUFFICES ASSUME fresh' PROVE FreshOK'
      BY DEF FreshOK
    <2>1. CASE Asked("save") = {}
      <3>1. Unserved' = {}
        BY <1>8, <2>1 DEF Unserved
      <3>. QED
        BY <1>1, <1>10, <3>1 DEF FreshOK
    <2>2. CASE Asked("save") # {}
      <3>1. fresh /\ row'.slug = row.slug
        BY <1>1, <2>2
      <3>2. \A q, r \in Unserved' : q = r
        BY <1>8, <3>1 DEF IInv, FreshOK
      <3>3. faults' = 0 => \A r \in Unserved' : fetch'[r].confirmed \/ fetch'[r].slug = row'.slug
        BY <1>8, <1>9, <3>1 DEF IInv, FreshOK
      <3>. QED
        BY <1>1, <1>10, <3>2, <3>3 DEF FreshOK
    <2>. QED
      BY <2>1, <2>2
  <1>. QED
    BY <1>3, <1>6, <1>7, <1>11

\* What the page before asked: nobody hears it, the rest is as it was.
LEMMA UnmountedFits ==
    ASSUME IInv, expired' = expired, NEW U \in [Slots -> Fetches], U = Unmounted
    PROVE  \A r \in Slots :
               \/ U[r] = NoFetch
               \/ /\ Fit(U[r])' /\ U[r].mounted = FALSE
                  /\ U[r].kind = fetch[r].kind /\ U[r].step = fetch[r].step
                  /\ U[r].slug = fetch[r].slug /\ U[r].confirmed = fetch[r].confirmed
  <1>. SUFFICES ASSUME NEW r \in Slots, U[r] # NoFetch
                PROVE  /\ Fit(U[r])' /\ U[r].mounted = FALSE
                       /\ U[r].kind = fetch[r].kind /\ U[r].step = fetch[r].step
                       /\ U[r].slug = fetch[r].slug /\ U[r].confirmed = fetch[r].confirmed
    OBVIOUS
  <1>1. /\ fetch[r] = NoFetch => U[r] = NoFetch
        /\ U[r].kind = fetch[r].kind /\ U[r].token = fetch[r].token /\ U[r].slug = fetch[r].slug
        /\ U[r].confirmed = fetch[r].confirmed /\ U[r].step = fetch[r].step
        /\ U[r].answer = fetch[r].answer /\ U[r].mounted = FALSE
    BY Unmounting DEF IInv
  <1>2. Fit(fetch[r])
    BY DEF IInv, RequestsOK
  <1>3. Fit(U[r])
    BY <1>1, <1>2 DEF Fit
  <1>4. Fit(U[r])'
    BY <1>3 DEF Fit
  <1>. QED
    BY <1>1, <1>4

LEMMA OpensOK ==
    ASSUME NEW p \in Pages
    PROVE  Opens(p) \in Pages /\ (token = 0 => Opens(p) # "onboarding")
  BY DEF Opens, Pages, Protected

LEMMA MountOK ==
    ASSUME TypeOK, NEW p \in Pages, NEW F \in [Slots -> Fetches], Mount(p, F)
    PROVE  /\ page' \in Pages /\ fetch' \in [Slots -> Fetches] /\ profile' = None
           /\ profile' \in Slug \cup {None} /\ fresh' \in BOOLEAN /\ slug' \in Typed \cup {None}
           /\ hint' \in {None, "invalid", "taken", "unverified"} /\ timer' \in BOOLEAN
           /\ error' \in BOOLEAN /\ inOrder' \in BOOLEAN /\ free' \in Slug \cup {None}
  <1>1. /\ page' = p /\ fetch' = F /\ profile' = None /\ slug' = None /\ hint' = None
        /\ free' = None
    BY DEF Mount
  <1>2. timer' \in BOOLEAN /\ error' \in BOOLEAN /\ inOrder' \in BOOLEAN
    BY DEF Mount
  <1>3. fresh' \in BOOLEAN
    BY DEF Mount
  <1>. QED
    BY <1>1, <1>2, <1>3

LEMMA VisitStep ==
    ASSUME IInv, Visit
    PROVE  IInv'
  <1>1. PICK p \in {"landing", "onboarding", "settings", "dashboard"} :
            IF Opens(p) \in Protected /\ token # 0
            THEN /\ Idle # {}
                 /\ Mount(Opens(p), [Unmounted EXCEPT ![CHOOSE r \in Idle : TRUE] = Sent("load", None, FALSE)])
            ELSE Mount(Opens(p), Unmounted)
    BY DEF Visit, Opens, Protected
  <1>2. PICK q \in Pages : q = Opens(p) /\ (token = 0 => q # "onboarding")
    BY OpensOK DEF Pages
  <1>3. PICK U \in [Slots -> Fetches] : U = Unmounted
    BY Unmounting DEF IInv
  <1>4. /\ visits' \in 0..MaxVisits
        /\ UNCHANGED <<token, expired, signIns, row, payload, taken, queued, job, seen, form, edits, jobs, faults>>
    <2>1. visits \in 0..MaxVisits /\ MaxVisits \in Nat
      BY WebAssumption DEF IInv, TypeOK
    <2>. QED
      BY <2>1 DEF Visit, server, index, session
  <1>5. \A r \in Slots :
            \/ U[r] = NoFetch
            \/ /\ Fit(U[r])' /\ U[r].mounted = FALSE
               /\ U[r].kind = fetch[r].kind /\ U[r].step = fetch[r].step
               /\ U[r].slug = fetch[r].slug /\ U[r].confirmed = fetch[r].confirmed
    BY <1>3, <1>4, UnmountedFits
  <1>6. ASSUME NEW F \in [Slots -> Fetches], Mount(q, F),
               RequestsOK', PageOK', HintOK', FreshOK',
               token = 0 => \A r \in Slots : F[r] = NoFetch
        PROVE  IInv'
    <2>1. TypeOK'
      BY <1>4, <1>6, MountOK DEF IInv, TypeOK
    <2>2. page' = q /\ fetch' = F /\ profile' = None
      BY <1>6 DEF Mount
    <2>3. SessionOK'
      BY <1>2, <1>4, <1>6, <2>2 DEF IInv, SessionOK
    <2>. QED
      BY <1>6, <2>1, <2>3 DEF IInv
  <1>7. CASE q \in Protected /\ token # 0
    <2>. DEFINE s == CHOOSE r \in Idle : TRUE
    <2>1. s \in Slots
      BY <1>1, <1>2, <1>7 DEF Idle
    <2>2. PICK f \in Fetches : f = Sent("load", None, FALSE)
      BY SendingLoad DEF IInv
    <2>3. /\ f.kind = "load" /\ f.token = token /\ f.mounted = TRUE /\ f.step = "sent"
          /\ f.answer = None
      BY <2>2, SendingLoad DEF IInv
    <2>. HIDE DEF s
    <2>4. PICK F \in [Slots -> Fetches] : F = [U EXCEPT ![s] = f]
      BY <2>1
    <2>5. Mount(q, F)
      BY <1>1, <1>2, <1>3, <1>7, <2>2, <2>4 DEF s
    <2>6. F[s] = f /\ \A r \in Slots \ {s} : F[r] = U[r]
      BY <2>1, <2>4
    <2>7. Fit(f)'
      BY <1>7, <2>3 DEF Fit, None
    <2>8. \A r \in Slots \ {s} : F[r].mounted = FALSE
      BY <1>5, <2>6, NoFetchOK
    <2>9. RequestsOK' /\ PageOK' /\ HintOK' /\ FreshOK'
      <3>1. \A r \in Slots :
               \/ F[r] = NoFetch
               \/ /\ Fit(F[r])' /\ F[r].mounted = FALSE
                  /\ F[r].kind = fetch[r].kind /\ F[r].step = fetch[r].step
                  /\ F[r].slug = fetch[r].slug /\ F[r].confirmed = fetch[r].confirmed
               \/ Fit(F[r])' /\ F[r].kind = "load" /\ F[r].answer = None
        <4>. SUFFICES ASSUME NEW r \in Slots
                      PROVE  \/ F[r] = NoFetch
                             \/ /\ Fit(F[r])' /\ F[r].mounted = FALSE
                                /\ F[r].kind = fetch[r].kind /\ F[r].step = fetch[r].step
                                /\ F[r].slug = fetch[r].slug /\ F[r].confirmed = fetch[r].confirmed
                             \/ Fit(F[r])' /\ F[r].kind = "load" /\ F[r].answer = None
          OBVIOUS
        <4>1. CASE r = s
          BY <2>3, <2>6, <2>7, <4>1
        <4>2. CASE r # s
          BY <1>5, <2>6, <4>2
        <4>. QED
          BY <4>1, <4>2
      <3>2. \A a, b \in Slots : F[a].mounted /\ F[b].mounted => a = b
        BY <2>8
      <3>. QED
        BY <1>4, <2>5, <3>1, <3>2, Opening
    <2>. QED
      BY <1>6, <1>7, <2>5, <2>9
  <1>8. CASE ~(q \in Protected /\ token # 0)
    <2>1. Mount(q, U)
      BY <1>1, <1>2, <1>3, <1>8
    <2>2. \A r \in Slots : U[r].mounted = FALSE
      BY <1>5, NoFetchOK
    <2>3. RequestsOK' /\ PageOK' /\ HintOK' /\ FreshOK'
      BY <1>4, <1>5, <2>1, <2>2, Opening
    <2>4. token = 0 => \A r \in Slots : U[r] = NoFetch
      BY <1>3, Unmounting DEF IInv, SessionOK
    <2>. QED
      BY <1>6, <2>1, <2>3, <2>4
  <1>. QED
    BY <1>7, <1>8

LEMMA SignedInStep ==
    ASSUME IInv, SignedIn
    PROVE  IInv'
  <1>1. /\ form = "verify" /\ form' = None /\ signIns' = signIns + 1 /\ token' = signIns'
        /\ Mount("onboarding", Unmounted)
        /\ UNCHANGED <<expired, payload, taken, job, seen, visits, edits, jobs, faults>>
    BY DEF SignedIn, bounds
  <1>2. IF row = Nobody THEN row' = [slug |-> "a", status |-> "indexing"] /\ queued' = TRUE
                        ELSE UNCHANGED <<row, queued>>
    BY DEF SignedIn
  <1>3. /\ signIns \in Nat /\ signIns' \in 0..MaxSignIns /\ token' \in 0..signIns' /\ token' # 0
        /\ expired' \subseteq 1..signIns'
    <2>1. signIns \in Nat /\ MaxSignIns \in Nat /\ signIns < MaxSignIns /\ expired \subseteq 1..signIns
      BY <1>1, WebAssumption DEF IInv, TypeOK, SessionOK, None
    <2>. QED
      BY <1>1, <2>1
  <1>4. row' \in Profiles /\ row' # Nobody /\ (row'.slug = row.slug \/ row = Nobody)
    BY <1>2 DEF IInv, TypeOK, Profiles, Nobody, Slug, Status, None
  <1>5. queued' \in BOOLEAN
    <2>1. CASE row = Nobody
      BY <1>2, <2>1
    <2>2. CASE row # Nobody
      <3>1. queued' = queued
        BY <1>2, <2>2
      <3>. QED
        BY <3>1 DEF IInv, TypeOK
    <2>. QED
      BY <2>1, <2>2
  <1>6. row = Nobody => Asked("save") = {}
    BY NoFetchOK DEF IInv, SessionOK, Asked, None
  <1>7. PICK U \in [Slots -> Fetches] : U = Unmounted
    BY Unmounting DEF IInv
  <1>8. Mount("onboarding", U)
    BY <1>1, <1>7
  <1>9. \A r \in Slots :
            \/ U[r] = NoFetch
            \/ /\ Fit(U[r])' /\ U[r].mounted = FALSE
               /\ U[r].kind = fetch[r].kind /\ U[r].step = fetch[r].step
               /\ U[r].slug = fetch[r].slug /\ U[r].confirmed = fetch[r].confirmed
    BY <1>1, <1>7, UnmountedFits
  <1>10. \A r \in Slots : U[r].mounted = FALSE
    BY <1>9, NoFetchOK
  <1>11. RequestsOK' /\ PageOK' /\ HintOK' /\ FreshOK'
    BY <1>1, <1>4, <1>6, <1>8, <1>9, <1>10, Opening DEF Pages
  <1>12. TypeOK'
    BY <1>1, <1>3, <1>4, <1>5, <1>8, MountOK DEF IInv, TypeOK, Pages
  <1>13. SessionOK'
    BY <1>1, <1>3, <1>4 DEF SessionOK
  <1>. QED
    BY <1>11, <1>12, <1>13 DEF IInv

LEMMA UnauthorizedStep ==
    ASSUME IInv, NEW r \in Slots, Unauthorized(r)
    PROVE  IInv'
  <1>1. PICK F \in [Slots -> Fetches] : F = [q \in Slots |-> NoFetch]
    BY NoFetchOK
  <1>2. /\ Mount("landing", F) /\ token' = 0 /\ form' = None
        /\ UNCHANGED <<row, payload, taken, queued, job, seen, expired, signIns, visits, edits, jobs, faults>>
    BY <1>1 DEF Unauthorized, server, index, bounds
  <1>3. \A q \in Slots : F[q] = NoFetch /\ F[q].mounted = FALSE
    BY <1>1, NoFetchOK
  <1>4. RequestsOK' /\ PageOK' /\ HintOK' /\ FreshOK'
    BY <1>2, <1>3, Opening DEF Pages
  <1>5. TypeOK'
    <2>1. token' \in 0..signIns'
      BY <1>2, WebAssumption DEF IInv, TypeOK
    <2>. QED
      BY <1>2, <2>1, MountOK DEF IInv, TypeOK, Pages
  <1>6. SessionOK'
    <2>1. page' = "landing" /\ fetch' = F /\ profile' = None
      BY <1>2 DEF Mount
    <2>. QED
      BY <1>2, <1>3, <2>1 DEF IInv, SessionOK
  <1>. QED
    BY <1>4, <1>5, <1>6 DEF IInv

LEMMA PolledStep ==
    ASSUME IInv, NEW r \in Slots, Polled(r), fetch[r].answer = "active"
    PROVE  IInv'
  <1>1. PICK U \in [Slots -> Fetches] : U = Unmounted
    BY Unmounting DEF IInv
  <1>2. PICK F \in [Slots -> Fetches] : F = [U EXCEPT ![r] = NoFetch]
    BY NoFetchOK
  <1>3. /\ Mount("public", F)
        /\ UNCHANGED <<row, payload, taken, queued, job, seen, token, expired, signIns, form, visits, edits, jobs, faults>>
    BY <1>1, <1>2 DEF Polled, server, index, session, bounds
  <1>4. F[r] = NoFetch /\ \A q \in Slots \ {r} : F[q] = U[q]
    BY <1>2
  <1>5. \A q \in Slots :
            \/ U[q] = NoFetch
            \/ /\ Fit(U[q])' /\ U[q].mounted = FALSE
               /\ U[q].kind = fetch[q].kind /\ U[q].step = fetch[q].step
               /\ U[q].slug = fetch[q].slug /\ U[q].confirmed = fetch[q].confirmed
    BY <1>1, <1>3, UnmountedFits
  <1>6. \A q \in Slots :
            \/ F[q] = NoFetch
            \/ /\ Fit(F[q])' /\ F[q].mounted = FALSE
               /\ F[q].kind = fetch[q].kind /\ F[q].step = fetch[q].step
               /\ F[q].slug = fetch[q].slug /\ F[q].confirmed = fetch[q].confirmed
    BY <1>4, <1>5
  <1>7. \A q \in Slots : F[q].mounted = FALSE
    BY <1>6, NoFetchOK
  <1>8. RequestsOK' /\ PageOK' /\ HintOK' /\ FreshOK'
    BY <1>3, <1>6, <1>7, Opening DEF Pages
  <1>9. TypeOK'
    BY <1>3, MountOK DEF IInv, TypeOK, Pages
  <1>10. SessionOK'
    <2>1. page' = "public" /\ fetch' = F /\ profile' = None
      BY <1>3 DEF Mount
    <2>2. token = 0 => \A q \in Slots : F[q] = NoFetch
      BY <1>1, <1>4, Unmounting DEF IInv, SessionOK
    <2>. QED
      BY <1>3, <2>1, <2>2 DEF IInv, SessionOK
  <1>. QED
    BY <1>8, <1>9, <1>10 DEF IInv

----------------------------------------------------------------------------
(* Requests *)

Kinds == {"poll", "load", "check", "save"}

\* What a request adds.
LEMMA Asking ==
    ASSUME IInv, NEW f \in Fetches, Fetch(f), UNCHANGED expired, token # 0,
           f.kind \in Kinds, f.token = token, f.mounted = TRUE, f.step = "sent", f.answer = None,
           f.kind = "check" => f.slug \in Slug, f.kind = "save" => f.slug \in Typed
    PROVE  \E s \in Slots :
               /\ fetch' \in [Slots -> Fetches] /\ fetch'[s] = f
               /\ \A q \in Slots \ {s} : fetch'[q] = fetch[q]
               /\ \A k \in Kinds :
                     Mounted(k)' = IF k = f.kind THEN Mounted(k) \cup {s} ELSE Mounted(k)
               /\ \A k \in Kinds : s \notin Asked(k)
               /\ Unserved' = IF f.kind = "save" THEN Unserved \cup {s} ELSE Unserved
               /\ Accepted' = Accepted
               /\ RequestsOK'
  <1>1. PICK s \in Slots :
            /\ fetch[s] = NoFetch /\ fetch'[s] = f
            /\ \A q \in Slots \ {s} : fetch'[q] = fetch[q]
            /\ fetch' \in [Slots -> Fetches]
    BY Sending DEF IInv
  <1>2. fetch[s].kind \notin Kinds /\ fetch[s].kind # "save"
    BY <1>1, NoFetchOK DEF Kinds, None
  <1>3. \A k \in Kinds : Mounted(k)' = IF k = f.kind THEN Mounted(k) \cup {s} ELSE Mounted(k)
    <2>. SUFFICES ASSUME NEW k \in Kinds
                  PROVE  Mounted(k)' = IF k = f.kind THEN Mounted(k) \cup {s} ELSE Mounted(k)
      OBVIOUS
    <2>1. Mounted(k)' = {r \in Slots : fetch'[r].kind = k /\ fetch'[r].mounted}
      BY DEF Mounted, Asked
    <2>2. Mounted(k) = {r \in Slots : fetch[r].kind = k /\ fetch[r].mounted}
      BY DEF Mounted, Asked
    <2>. QED
      BY <1>1, <1>2, <2>1, <2>2
  <1>4. \A k \in Kinds : s \notin Asked(k)
    BY <1>2 DEF Asked
  <1>5. Unserved' = IF f.kind = "save" THEN Unserved \cup {s} ELSE Unserved
    <2>1. Unserved' = {r \in Slots : fetch'[r].kind = "save" /\ fetch'[r].step = "sent"}
      BY DEF Unserved, Asked
    <2>2. Unserved = {r \in Slots : fetch[r].kind = "save" /\ fetch[r].step = "sent"}
      BY DEF Unserved, Asked
    <2>. QED
      BY <1>1, <1>2, <2>1, <2>2
  <1>6. Accepted' = Accepted
    <2>1. Accepted' = {r \in Slots : fetch'[r].kind = "save" /\ fetch'[r].mounted /\ fetch'[r].answer \in Slug}
      BY DEF Accepted, Mounted, Asked
    <2>2. Accepted = {r \in Slots : fetch[r].kind = "save" /\ fetch[r].mounted /\ fetch[r].answer \in Slug}
      BY DEF Accepted, Mounted, Asked
    <2>. QED
      BY <1>1, <1>2, <2>1, <2>2 DEF None, Slug
  <1>7. RequestsOK'
    <2>1. Fit(f)'
      BY DEF Fit, None, Kinds, Slug
    <2>. SUFFICES ASSUME NEW r \in Slots PROVE Fit(fetch[r])'
      BY DEF RequestsOK
    <2>2. CASE r = s
      BY <1>1, <2>1, <2>2 DEF Fit
    <2>3. CASE r # s
      BY <1>1, <2>3 DEF IInv, RequestsOK, Fit
    <2>. QED
      BY <2>2, <2>3
  <1>. QED
    BY <1>1, <1>3, <1>4, <1>5, <1>6, <1>7

LEMMA PollStep ==
    ASSUME IInv, Poll
    PROVE  IInv'
  <1>1. /\ page = "onboarding" /\ Fetch(Sent("poll", None, FALSE))
        /\ UNCHANGED <<row, payload, taken, queued, job, seen, token, expired, signIns, page, form, profile,
                       fresh, slug, hint, timer, inOrder, free, error, visits, edits, jobs, faults>>
    BY DEF Poll, Polls, server, index, session, settings, field, bounds
  <1>2. token # 0 /\ profile = None
    BY <1>1 DEF IInv, SessionOK, PageOK
  <1>3. PICK f \in Fetches : f = Sent("poll", None, FALSE)
    <2>1. token \in Nat
      BY WebAssumption DEF IInv, TypeOK
    <2>. QED
      BY <2>1 DEF Sent, NoFetch, Fetches, None
  <1>4. f.kind = "poll" /\ f.token = token /\ f.mounted = TRUE /\ f.step = "sent" /\ f.answer = None
    BY <1>3 DEF Sent, NoFetch
  <1>5. PICK s \in Slots :
            /\ fetch' \in [Slots -> Fetches]
            /\ \A k \in Kinds : Mounted(k)' = IF k = f.kind THEN Mounted(k) \cup {s} ELSE Mounted(k)
            /\ \A q \in Slots \ {s} : fetch'[q] = fetch[q]
            /\ fetch'[s] = f
            /\ Unserved' = Unserved /\ RequestsOK'
    BY <1>1, <1>2, <1>3, <1>4, Asking DEF Kinds
  <1>6. /\ UNCHANGED <<Mounted("check"), Mounted("save"), Mounted("load")>>
        /\ \A r \in Mounted("load") : fetch'[r] = fetch[r]
        /\ \A r \in Unserved : fetch'[r] = fetch[r]
    <2>1. UNCHANGED <<Mounted("check"), Mounted("save"), Mounted("load")>>
      BY <1>4, <1>5 DEF Kinds
    <2>2. fetch'[s].kind = "poll"
      BY <1>4, <1>5
    <2>3. s \notin Mounted("load")' /\ s \notin Unserved'
      BY <2>2 DEF Mounted, Asked, Unserved
    <2>. QED
      BY <1>5, <2>1, <2>3 DEF Mounted, Asked, Unserved
  <1>7. TypeOK'
    BY <1>1, <1>5 DEF IInv, TypeOK
  <1>8. SessionOK'
    BY <1>1, <1>2 DEF IInv, SessionOK
  <1>9. PageOK'
    BY <1>1, <1>6 DEF IInv, PageOK
  <1>10. HintOK'
    BY <1>1, <1>2 DEF HintOK
  <1>11. FreshOK'
    BY <1>1, <1>2, <1>5, <1>6 DEF IInv, FreshOK
  <1>. QED
    BY <1>5, <1>7, <1>8, <1>9, <1>10, <1>11 DEF IInv

\* The timer runs only when no check is under way that the field has not overtaken.
LEMMA CheckStep ==
    ASSUME IInv, Check
    PROVE  IInv'
  <1>1. /\ timer /\ timer' = FALSE /\ Fetch(Sent("check", slug, FALSE))
        /\ UNCHANGED <<row, payload, taken, queued, job, seen, token, expired, signIns, page, form, profile,
                       fresh, slug, hint, inOrder, free, error, visits, edits, jobs, faults>>
    BY DEF Check, server, index, session, bounds
  <1>2. profile # None /\ token # 0 /\ slug \in Slug \ {profile} /\ slug \in Typed
    BY <1>1 DEF IInv, SessionOK, PageOK
  <1>3. PICK f \in Fetches : f = Sent("check", slug, FALSE)
    <2>1. token \in Nat
      BY WebAssumption DEF IInv, TypeOK
    <2>. QED
      BY <1>2, <2>1 DEF Sent, NoFetch, Fetches, None
  <1>4. /\ f.kind = "check" /\ f.token = token /\ f.mounted = TRUE /\ f.step = "sent"
        /\ f.answer = None /\ f.slug = slug
    BY <1>3 DEF Sent, NoFetch
  <1>5. PICK s \in Slots :
            /\ fetch' \in [Slots -> Fetches]
            /\ \A k \in Kinds : Mounted(k)' = IF k = f.kind THEN Mounted(k) \cup {s} ELSE Mounted(k)
            /\ \A q \in Slots \ {s} : fetch'[q] = fetch[q]
            /\ fetch'[s] = f
            /\ Unserved' = Unserved /\ Accepted' = Accepted /\ RequestsOK'
    BY <1>1, <1>2, <1>3, <1>4, Asking DEF Kinds
  <1>6. /\ UNCHANGED <<Mounted("save"), Mounted("load")>>
        /\ Mounted("check")' = Mounted("check") \cup {s}
        /\ \A r \in Mounted("load") : fetch'[r] = fetch[r]
        /\ \A r \in Unserved \cup Accepted : fetch'[r] = fetch[r]
    <2>1. /\ UNCHANGED <<Mounted("save"), Mounted("load")>>
          /\ Mounted("check")' = Mounted("check") \cup {s}
      BY <1>4, <1>5 DEF Kinds
    <2>2. fetch'[s].kind = "check"
      BY <1>4, <1>5
    <2>3. s \notin Mounted("load")' /\ s \notin Unserved' /\ s \notin Accepted'
      BY <2>2 DEF Mounted, Asked, Unserved, Accepted
    <2>. QED
      BY <1>5, <2>1, <2>3 DEF Mounted, Asked, Unserved, Accepted
  <1>7. TypeOK'
    <2>1. timer' \in BOOLEAN
      BY <1>1
    <2>. QED
      BY <1>1, <1>5, <2>1 DEF IInv, TypeOK
  <1>8. SessionOK'
    BY <1>1, <1>2 DEF IInv, SessionOK
  <1>9. PageOK'
    BY <1>1, <1>2, <1>6 DEF IInv, PageOK
  <1>10. HintOK'
    <2>. SUFFICES ASSUME inOrder, profile # None
                  PROVE  /\ \A q, r \in Mounted("check")' : q = r
                         /\ \A r \in Mounted("check")' : fetch'[r].slug = slug
      BY <1>1, <1>2, <1>6 DEF HintOK
    <2>1. Mounted("check") = {}
      BY <1>1 DEF IInv, HintOK
    <2>. QED
      BY <1>4, <1>5, <1>6, <2>1
  <1>11. FreshOK'
    BY <1>1, <1>5, <1>6 DEF IInv, FreshOK
  <1>. QED
    BY <1>5, <1>7, <1>8, <1>9, <1>10, <1>11 DEF IInv

LEMMA SaveStep ==
    ASSUME IInv, Save
    PROVE  IInv'
  <1>1. /\ profile # None /\ Mounted("save") = {}
        /\ Fetch(Sent("save", slug, slug # profile))
        /\ UNCHANGED <<row, payload, taken, queued, job, seen, token, expired, signIns, page, form, profile,
                       fresh, slug, hint, timer, inOrder, free, error, visits, jobs, faults>>
    BY DEF Save, server, index, session, settings, field
  <1>2. edits' \in 0..MaxEdits
    <2>1. edits \in 0..MaxEdits /\ MaxEdits \in Nat
      BY WebAssumption DEF IInv, TypeOK
    <2>. QED
      BY <2>1 DEF Save
  <1>3. token # 0 /\ slug \in Typed
    BY <1>1 DEF IInv, SessionOK, PageOK
  <1>4. PICK f \in Fetches :
            /\ f = Sent("save", slug, slug # profile)
            /\ f.kind = "save" /\ f.token = token /\ f.mounted = TRUE /\ f.step = "sent"
            /\ f.answer = None /\ f.slug = slug /\ (f.confirmed \/ slug = profile)
    <2>1. token \in Nat
      BY WebAssumption DEF IInv, TypeOK
    <2>2. PICK b \in BOOLEAN : b = (slug # profile)
      OBVIOUS
    <2>3. Sent("save", slug, slug # profile) = Sent("save", slug, b)
      BY <2>2
    <2>4. b \/ slug = profile
      BY <2>2
    <2>5. LET f == Sent("save", slug, b)
          IN  /\ f \in Fetches
              /\ f.kind = "save" /\ f.token = token /\ f.mounted = TRUE /\ f.step = "sent"
              /\ f.answer = None /\ f.slug = slug /\ f.confirmed = b
      BY <1>3, <2>1 DEF Sent, NoFetch, Fetches, None
    <2>. QED
      BY <2>3, <2>4, <2>5
  <1>5. PICK s \in Slots :
            /\ fetch' \in [Slots -> Fetches]
            /\ \A k \in Kinds : Mounted(k)' = IF k = f.kind THEN Mounted(k) \cup {s} ELSE Mounted(k)
            /\ \A q \in Slots \ {s} : fetch'[q] = fetch[q]
            /\ fetch'[s] = f
            /\ Unserved' = Unserved \cup {s} /\ Accepted' = Accepted /\ RequestsOK'
    BY <1>1, <1>3, <1>4, Asking DEF Kinds
  <1>6. /\ UNCHANGED <<Mounted("check"), Mounted("load")>> /\ Mounted("save")' = {s}
        /\ \A r \in Mounted("check") : fetch'[r] = fetch[r]
        /\ Mounted("load") = {} /\ Accepted = {}
    <2>1. UNCHANGED <<Mounted("check"), Mounted("load")>> /\ Mounted("save")' = {s}
      BY <1>1, <1>4, <1>5 DEF Kinds
    <2>2. fetch'[s].kind = "save"
      BY <1>4, <1>5
    <2>3. s \notin Mounted("check")'
      BY <2>2 DEF Mounted, Asked
    <2>4. Mounted("load") = {} /\ Accepted = {}
      BY <1>1 DEF IInv, PageOK, Accepted
    <2>. QED
      BY <1>5, <2>1, <2>3, <2>4 DEF Mounted, Asked
  <1>7. TypeOK'
    BY <1>1, <1>2, <1>5 DEF IInv, TypeOK
  <1>8. SessionOK'
    BY <1>1, <1>3 DEF IInv, SessionOK
  <1>9. PageOK'
    BY <1>1, <1>6 DEF IInv, PageOK
  <1>10. HintOK'
    BY <1>1, <1>6 DEF IInv, HintOK
  <1>11. FreshOK'
    <2>. SUFFICES ASSUME fresh PROVE FreshOK'
      BY <1>1 DEF FreshOK
    <2>1. Unserved = {}
      BY <1>1 DEF IInv, FreshOK
    <2>2. faults = 0 => profile = row.slug
      BY <1>1, <1>6 DEF IInv, FreshOK
    <2>3. faults' = 0 => \A r \in Unserved' : fetch'[r].confirmed \/ fetch'[r].slug = row'.slug
      BY <1>1, <1>4, <1>5, <2>1, <2>2
    <2>. QED
      BY <1>1, <1>5, <1>6, <2>1, <2>2, <2>3 DEF FreshOK
  <1>. QED
    BY <1>5, <1>7, <1>8, <1>9, <1>10, <1>11 DEF IInv

LEMMA EffectOK ==
    ASSUME TypeOK, NEW v \in Typed, NEW s \in Slug, Effect(v, s)
    PROVE  /\ timer' \in BOOLEAN /\ (timer' <=> v \in Slug \ {s})
           /\ hint' \in {None, "invalid", "taken", "unverified"}
           /\ ~timer' => /\ v \in {s, "empty"} => hint' = None
                         /\ v = "bad" <=> hint' = "invalid"
                         /\ hint' = None => v \in {s, "empty"}
  <1>1. timer' \in BOOLEAN
    BY DEF Effect
  <1>2. timer' <=> v \in Slug \ {s}
    BY DEF Effect
  <1>3. hint' = CASE v \in {s, "empty"} -> None [] v = "bad" -> "invalid" [] OTHER -> hint
    BY DEF Effect
  <1>4. s # "bad" /\ "empty" \notin Slug
    BY DEF Slug
  <1>5. CASE v \in {s, "empty"}
    <2>1. hint' = None
      BY <1>3, <1>4, <1>5
    <2>. QED
      BY <1>1, <1>2, <1>4, <1>5, <2>1 DEF None
  <1>6. CASE v = "bad"
    <2>1. hint' = "invalid"
      BY <1>3, <1>4, <1>6
    <2>. QED
      BY <1>1, <1>2, <1>4, <1>6, <2>1 DEF None
  <1>7. CASE v \notin {s, "empty", "bad"}
    <2>1. hint' = hint /\ v \in Slug \ {s}
      BY <1>3, <1>7 DEF Typed
    <2>. QED
      BY <1>1, <1>2, <2>1 DEF TypeOK
  <1>. QED
    BY <1>5, <1>6, <1>7

LEMMA EditStep ==
    ASSUME IInv, Edit
    PROVE  IInv'
  <1>1. /\ profile # None /\ profile \in Slug
        /\ inOrder' = (inOrder /\ Mounted("check") = {})
        /\ UNCHANGED <<row, payload, taken, queued, job, seen, token, expired, signIns, page, form, fetch,
                       profile, fresh, free, error, visits, jobs, faults>>
    BY DEF Edit, IInv, TypeOK, server, index, session
  <1>2. PICK v \in Typed : slug' = v /\ Effect(v, profile)
    BY DEF Edit
  <1>3. edits' \in 0..MaxEdits
    <2>1. edits \in 0..MaxEdits /\ MaxEdits \in Nat
      BY WebAssumption DEF IInv, TypeOK
    <2>. QED
      BY <2>1 DEF Edit
  <1>4. /\ timer' \in BOOLEAN /\ (timer' <=> v \in Slug \ {profile})
        /\ hint' \in {None, "invalid", "taken", "unverified"}
        /\ ~timer' => /\ v \in {profile, "empty"} => hint' = None
                      /\ v = "bad" <=> hint' = "invalid"
                      /\ hint' = None => v \in {profile, "empty"}
    BY <1>1, <1>2, EffectOK DEF IInv
  <1>5. UNCHANGED <<Mounted("check"), Mounted("save"), Mounted("load"), Unserved, Accepted>>
    BY <1>1 DEF Mounted, Asked, Unserved, Accepted
  <1>6. TypeOK'
    <2>1. inOrder' \in BOOLEAN
      BY <1>1
    <2>. QED
      BY <1>1, <1>2, <1>3, <1>4, <2>1 DEF IInv, TypeOK
  <1>7. RequestsOK'
    BY <1>1 DEF IInv, RequestsOK, Fit
  <1>8. SessionOK'
    BY <1>1 DEF IInv, SessionOK
  <1>9. PageOK'
    BY <1>1, <1>2, <1>4, <1>5 DEF IInv, PageOK
  <1>10. HintOK'
    <2>. SUFFICES ASSUME inOrder' PROVE HintOK'
      BY DEF HintOK
    <2>1. Mounted("check") = {}
      BY <1>1
    <2>. QED
      BY <1>1, <1>2, <1>4, <1>5, <2>1 DEF HintOK
  <1>11. FreshOK'
    BY <1>1, <1>5 DEF IInv, FreshOK
  <1>. QED
    BY <1>6, <1>7, <1>8, <1>9, <1>10, <1>11 DEF IInv

----------------------------------------------------------------------------
(* Answers of the API *)

\* What the API may say to a request.
Fitting(f, a) ==
    /\ a \in Slug \cup Status \cup {"free", "taken", "401"} \cup Errors
    /\ a = "401" => f.token \in expired
    /\ f.kind = "check" => a \in {"free", "taken", "401"} \cup Errors
    /\ f.kind = "save" => a \in {f.slug, "401"} \cup Errors
    /\ f.kind = "load" => a \in Slug \cup {"401"} \cup Errors

\* A row that keeps its owner, and the answer is all that changes besides.
LEMMA AnswerStep ==
    ASSUME IInv, NEW r \in Slots, NEW a,
           fetch[r].step = "sent", Fitting(fetch[r], a), Answer(r, a),
           row' \in Profiles, row # Nobody => row' # Nobody,
           fresh' \in BOOLEAN, faults' \in 0..MaxFaults,
           UNCHANGED <<payload, taken, index, session, page, form, profile, field, error,
                       visits, edits, jobs>>
    PROVE  /\ TypeOK' /\ RequestsOK' /\ SessionOK' /\ PageOK' /\ HintOK'
           /\ fetch'[r].answer = a /\ \A q \in Slots \ {r} : fetch'[q] = fetch[q]
           /\ fetch'[r].slug = fetch[r].slug
           /\ UNCHANGED <<Mounted("save"), Mounted("load")>>
           /\ Unserved' = Unserved \ {r}
           /\ \A q \in Accepted : q # r
           /\ Accepted' = IF r \in Mounted("save") /\ a \in Slug THEN Accepted \cup {r} ELSE Accepted
  <1>1. /\ fetch' \in [Slots -> Fetches]
        /\ \A q \in Slots \ {r} : fetch'[q] = fetch[q]
        /\ fetch'[r].kind = fetch[r].kind /\ fetch'[r].token = fetch[r].token
        /\ fetch'[r].slug = fetch[r].slug /\ fetch'[r].confirmed = fetch[r].confirmed
        /\ fetch'[r].mounted = fetch[r].mounted
        /\ fetch'[r].step = "answered" /\ fetch'[r].answer = a
    BY Answering DEF IInv, Fitting, Errors
  <1>2. UNCHANGED <<payload, taken, queued, job, seen, token, expired, signIns, page, form, profile,
                    slug, hint, timer, inOrder, free, error, visits, edits, jobs>>
    BY DEF index, session, field
  <1>3. Fit(fetch[r]) /\ fetch[r] # NoFetch /\ token # 0 /\ fetch[r].kind # None
    BY NoFetchOK DEF IInv, RequestsOK, SessionOK, Fit, None
  <1>4. /\ \A q \in Slots : fetch'[q].kind = fetch[q].kind /\ fetch'[q].mounted = fetch[q].mounted
        /\ \A q \in Slots : fetch'[q].slug = fetch[q].slug
    BY <1>1
  <1>5. UNCHANGED <<Mounted("save"), Mounted("load"), Mounted("check")>>
    BY <1>4 DEF Mounted, Asked
  <1>6. Unserved' = Unserved \ {r}
    BY <1>1 DEF Unserved, Asked
  <1>7. /\ \A q \in Accepted : q # r
        /\ Accepted' = IF r \in Mounted("save") /\ a \in Slug THEN Accepted \cup {r} ELSE Accepted
    <2>1. fetch[r].answer \notin Slug
      BY <1>3 DEF Fit, None, Slug
    <2>2. \A q \in Accepted : q # r
      BY <2>1 DEF Accepted
    <2>3. Accepted' = {q \in Mounted("save") : fetch'[q].answer \in Slug}
      BY <1>5 DEF Accepted
    <2>4. Accepted = {q \in Mounted("save") : fetch[q].answer \in Slug} /\ Mounted("save") \subseteq Slots
      BY DEF Accepted, Mounted, Asked
    <2>. QED
      BY <1>1, <2>1, <2>2, <2>3, <2>4
  <1>8. TypeOK'
    BY <1>1, <1>2 DEF IInv, TypeOK
  <1>9. RequestsOK'
    <2>. SUFFICES ASSUME NEW q \in Slots PROVE Fit(fetch[q])'
      BY DEF RequestsOK
    <2>1. CASE q = r
      BY <1>1, <1>2, <1>3, <2>1 DEF Fit, Fitting, None, Slug, Status, Typed, Errors
    <2>2. CASE q # r
      <3>1. Fit(fetch[q]) /\ fetch'[q] = fetch[q]
        BY <1>1, <2>2 DEF IInv, RequestsOK
      <3>. QED
        BY <1>2, <3>1 DEF Fit
    <2>. QED
      BY <2>1, <2>2
  <1>10. SessionOK'
    BY <1>2, <1>3 DEF IInv, SessionOK
  <1>11. PageOK'
    BY <1>2, <1>5 DEF IInv, PageOK
  <1>12. HintOK'
    <2>1. \A q \in Mounted("check") : fetch'[q].slug = fetch[q].slug
      BY <1>4 DEF Mounted, Asked
    <2>. QED
      BY <1>2, <1>5, <2>1 DEF IInv, HintOK
  <1>. QED
    BY <1>1, <1>5, <1>6, <1>7, <1>8, <1>9, <1>10, <1>11, <1>12

LEMMA RenamingOK ==
    ASSUME IInv, NEW r \in Slots, Renames(fetch[r])
    PROVE  \E w \in Profiles : w = [row EXCEPT !.slug = fetch[r].slug] /\ w # Nobody /\ w.slug = fetch[r].slug
  <1>1. token # 0
    BY NoFetchOK DEF IInv, SessionOK, Renames, Authorized
  <1>2. row \in [slug : Slug, status : Status]
    BY <1>1 DEF IInv, TypeOK, SessionOK, Profiles
  <1>3. fetch[r].slug \in Slug
    BY <1>2 DEF Renames, Free
  <1>. DEFINE w == [row EXCEPT !.slug = fetch[r].slug]
  <1>4. w \in [slug : Slug, status : Status] /\ w.slug = fetch[r].slug
    BY <1>2, <1>3
  <1>. HIDE DEF w
  <1>5. w \in Profiles /\ w # Nobody
    BY <1>3, <1>4 DEF Profiles, Nobody, Slug, None
  <1>. QED
    BY <1>4, <1>5 DEF w

\* A save that the API serves or that is lost.
LEMMA SavingFresh ==
    ASSUME IInv, NEW r \in Unserved, NEW a,
           fetch'[r].answer = a, fetch'[r].slug = fetch[r].slug,
           UNCHANGED <<fresh, profile, Mounted("save"), Mounted("load")>>,
           \A q \in Slots \ {r} : fetch'[q] = fetch[q],
           Unserved' = Unserved \ {r}, \A q \in Accepted : q # r,
           Accepted' = IF r \in Mounted("save") /\ a \in Slug THEN Accepted \cup {r} ELSE Accepted,
           \/ faults' # 0
           \/ faults = 0 /\ a \in Slug /\ row'.slug = fetch[r].slug
           \/ faults = 0 /\ a \notin Slug /\ row' = row
    PROVE  FreshOK'
  <1>. SUFFICES ASSUME fresh PROVE FreshOK'
    BY DEF FreshOK
  <1>1. Unserved' = {}
    BY DEF IInv, FreshOK
  <1>2. r \in Asked("save") /\ r \in Slots /\ r \notin Mounted("load")
    BY DEF Unserved, Asked, Mounted
  <1>3. \A q \in Mounted("load") : fetch[q].answer \notin Slug /\ fetch'[q] = fetch[q]
    BY <1>2 DEF IInv, FreshOK, Mounted, Asked
  <1>4. ASSUME faults' = 0, profile # None
        PROVE  /\ \A q \in Accepted' : fetch'[q].slug = row'.slug
               /\ Accepted' = {} => profile = row'.slug
    <2>1. r \in Mounted("save")
      BY <1>4 DEF IInv, FreshOK
    <2>2. Accepted = {}
      BY <2>1 DEF IInv, PageOK, Accepted
    <2>3. faults = 0 /\ profile = row.slug
      BY <1>4, <2>2 DEF IInv, FreshOK
    <2>4. CASE a \in Slug /\ row'.slug = fetch[r].slug
      BY <2>1, <2>2, <2>4
    <2>5. CASE a \notin Slug /\ row' = row
      BY <2>2, <2>3, <2>5
    <2>. QED
      BY <1>4, <2>4, <2>5
  <1>. QED
    BY <1>1, <1>3, <1>4 DEF FreshOK

LEMMA ServeStep ==
    ASSUME IInv, NEW r \in Slots, Serve(r)
    PROVE  IInv'
  <1>. DEFINE f == fetch[r]
  <1>1. /\ f.step = "sent"
        /\ UNCHANGED <<payload, taken, index, session, page, form, profile, field, error,
                       visits, edits, jobs, faults>>
    BY DEF Serve, bounds
  <1>2. Fit(f) /\ f \in Fetches /\ f.kind \in {"poll", "load", "check", "save"} /\ f.answer = None
    BY <1>1, NoFetchOK DEF IInv, RequestsOK, TypeOK, Fit, Fetches, None
  <1>3. token # 0 /\ row # Nobody /\ f.token # 0
    BY <1>1, <1>2, NoFetchOK DEF IInv, SessionOK, Fit, None
  <1>4. row' = IF Renames(f) THEN [row EXCEPT !.slug = f.slug] ELSE row
    BY DEF Serve
  <1>5. row' \in Profiles /\ row' # Nobody /\ (Renames(f) => row'.slug = f.slug) /\ (~Renames(f) => row' = row)
    <2>1. CASE Renames(f)
      BY <1>4, <2>1, RenamingOK
    <2>2. CASE ~Renames(f)
      BY <1>3, <1>4, <2>2 DEF IInv, TypeOK
    <2>. QED
      BY <2>1, <2>2
  <1>6. \E a : /\ Answer(r, a) /\ Fitting(f, a)
               /\ f.kind = "save" => (a \in Slug <=> Renames(f))
               /\ f.kind = "load" /\ a \in Slug => a = payload.slug
    <2>1. CASE ~Authorized(f)
      <3>1. Answer(r, "401")
        BY <2>1 DEF Serve
      <3>2. f.token \in expired
        BY <1>3, <2>1 DEF Authorized
      <3>. QED
        BY <2>1, <3>1, <3>2 DEF Fitting, Renames, Slug, None
    <2>2. CASE Authorized(f) /\ f.kind \in {"poll", "load"}
      <3>1. AnswerProfile(r)
        BY <2>2 DEF Serve
      <3>2. CASE payload = Nobody
        <4>1. Answer(r, "404")
          BY <3>1, <3>2 DEF AnswerProfile
        <4>. QED
          BY <2>2, <4>1 DEF Fitting, Errors, Slug, None
      <3>3. CASE payload # Nobody
        <4>1. payload \in [slug : Slug, status : Status]
          BY <3>3 DEF IInv, TypeOK, Profiles
        <4>2. payload.slug \in Slug /\ payload.status \in Status /\ "401" \notin Slug \cup Status
          BY <4>1 DEF Slug, Status
        <4>3. CASE f.kind = "poll"
          <5>1. Answer(r, payload.status)
            BY <3>1, <3>3, <4>3 DEF AnswerProfile
          <5>2. Fitting(f, payload.status)
            BY <4>2, <4>3 DEF Fitting
          <5>. QED
            BY <4>3, <5>1, <5>2
        <4>4. CASE f.kind = "load"
          <5>1. Answer(r, payload.slug)
            BY <3>1, <3>3, <4>4 DEF AnswerProfile
          <5>2. Fitting(f, payload.slug)
            BY <4>2, <4>4 DEF Fitting
          <5>. QED
            BY <4>4, <5>1, <5>2
        <4>. QED
          BY <2>2, <4>3, <4>4
      <3>. QED
        BY <3>2, <3>3
    <2>3. CASE Authorized(f) /\ f.kind = "check"
      <3>1. Answer(r, IF Free(f.slug) THEN "free" ELSE "taken")
        BY <2>3 DEF Serve
      <3>. QED
        BY <2>3, <3>1 DEF Fitting, Slug, None
    <2>4. CASE Authorized(f) /\ f.kind = "save"
      <3>1. Answer(r, IF Renames(f) THEN f.slug ELSE "400")
        BY <2>4 DEF Serve
      <3>2. CASE Renames(f)
        <4>1. Answer(r, f.slug)
          BY <3>1, <3>2
        <4>2. f.slug \in Slug
          <5>1. row \in [slug : Slug, status : Status]
            BY <1>3 DEF IInv, TypeOK, Profiles
          <5>. QED
            BY <3>2, <5>1 DEF Renames, Free
        <4>3. Fitting(f, f.slug)
          BY <2>4, <4>2 DEF Fitting, Slug
        <4>. QED
          BY <2>4, <3>2, <4>1, <4>2, <4>3
      <3>3. CASE ~Renames(f)
        <4>1. Answer(r, "400")
          BY <3>1, <3>3
        <4>. QED
          BY <2>4, <3>3, <4>1 DEF Fitting, Errors, Slug, None
      <3>. QED
        BY <3>2, <3>3
    <2>. QED
      BY <1>2, <2>1, <2>2, <2>3, <2>4
  <1>7. PICK a : /\ Answer(r, a) /\ Fitting(f, a)
                 /\ f.kind = "save" => (a \in Slug <=> Renames(f))
                 /\ f.kind = "load" /\ a \in Slug => a = payload.slug
    BY <1>6
  <1>8. fresh' = IF f.kind = "load" /\ f.mounted
                 THEN payload.slug = row.slug /\ \A q \in Asked("save") : fetch[q].step # "sent"
                 ELSE fresh
    BY DEF Serve
  <1>9. fresh' \in BOOLEAN
    <2>1. CASE f.kind = "load" /\ f.mounted
      BY <1>8, <2>1
    <2>2. CASE ~(f.kind = "load" /\ f.mounted)
      <3>1. fresh' = fresh
        BY <1>8, <2>2
      <3>. QED
        BY <3>1 DEF IInv, TypeOK
    <2>. QED
      BY <2>1, <2>2
  <1>10. /\ TypeOK' /\ RequestsOK' /\ SessionOK' /\ PageOK' /\ HintOK'
         /\ fetch'[r].answer = a /\ \A q \in Slots \ {r} : fetch'[q] = fetch[q]
         /\ fetch'[r].slug = f.slug
         /\ UNCHANGED <<Mounted("save"), Mounted("load")>>
         /\ Unserved' = Unserved \ {r}
         /\ \A q \in Accepted : q # r
         /\ Accepted' = IF r \in Mounted("save") /\ a \in Slug THEN Accepted \cup {r} ELSE Accepted
    <2>1. faults \in 0..MaxFaults /\ faults' = faults
      BY <1>1 DEF IInv, TypeOK
    <2>. QED
      BY <1>1, <1>3, <1>5, <1>7, <1>9, <2>1, AnswerStep
  <1>11. FreshOK'
    <2>1. CASE f.kind = "load" /\ f.mounted
      <3>. SUFFICES ASSUME fresh' PROVE FreshOK'
        BY DEF FreshOK
      <3>1. payload.slug = row.slug /\ Unserved = {} /\ row' = row
        BY <1>5, <1>8, <2>1 DEF Unserved, Renames
      <3>2. profile = None /\ profile' = None /\ Mounted("load")' = {r}
        BY <1>1, <1>10, <2>1 DEF IInv, PageOK, Mounted, Asked
      <3>. QED
        BY <1>7, <1>10, <2>1, <3>1, <3>2 DEF FreshOK
    <2>2. CASE f.kind = "save"
      <3>1. r \in Unserved /\ fresh' = fresh
        BY <1>1, <1>8, <2>2 DEF Unserved, Asked
      <3>2. \/ a \in Slug /\ row'.slug = f.slug
            \/ a \notin Slug /\ row' = row
        BY <1>5, <1>7, <2>2
      <3>. QED
        BY <1>1, <1>10, <3>1, <3>2, SavingFresh
    <2>3. CASE f.kind # "save" /\ ~(f.kind = "load" /\ f.mounted)
      <3>1. fresh' = fresh /\ row' = row
        BY <1>5, <1>8, <2>3 DEF Renames
      <3>2. r \notin Unserved /\ r \notin Mounted("save") /\ r \notin Mounted("load")
        BY <2>3 DEF Unserved, Mounted, Asked
      <3>3. /\ Unserved' = Unserved /\ Accepted' = Accepted
            /\ \A q \in Unserved \cup Accepted \cup Mounted("load") : fetch'[q] = fetch[q]
        BY <1>10, <3>2 DEF Unserved, Accepted, Mounted, Asked
      <3>. QED
        BY <1>1, <1>10, <3>1, <3>3 DEF IInv, FreshOK
    <2>. QED
      BY <2>1, <2>2, <2>3
  <1>. QED
    BY <1>10, <1>11 DEF IInv

LEMMA LostStep ==
    ASSUME IInv, NEW r \in Slots, Lost(r)
    PROVE  IInv'
  <1>. DEFINE f == fetch[r]
  <1>1. /\ f.step = "sent" /\ Answer(r, "lost")
        /\ UNCHANGED <<payload, taken, index, session, page, form, profile, fresh, field, error,
                       visits, edits, jobs>>
    BY DEF Lost, settings
  <1>2. faults' \in 0..MaxFaults /\ faults' # 0
    <2>1. faults \in 0..MaxFaults /\ MaxFaults \in Nat
      BY WebAssumption DEF IInv, TypeOK
    <2>. QED
      BY <2>1 DEF Lost
  <1>3. row' \in Profiles /\ (row # Nobody => row' # Nobody) /\ (row' # row => Renames(f))
    <2>1. row' \in {row} \cup (IF Renames(f) THEN {[row EXCEPT !.slug = f.slug]} ELSE {})
      BY DEF Lost
    <2>2. CASE row' = row
      BY <2>2 DEF IInv, TypeOK
    <2>3. CASE row' # row
      <3>1. Renames(f) /\ row' = [row EXCEPT !.slug = f.slug]
        BY <2>1, <2>3
      <3>. QED
        BY <3>1, RenamingOK
    <2>. QED
      BY <2>2, <2>3
  <1>4. Fitting(f, "lost") /\ "lost" \notin Slug
    BY DEF Fitting, Errors, Slug
  <1>5. fresh' \in BOOLEAN
    BY <1>1 DEF IInv, TypeOK
  <1>6. /\ TypeOK' /\ RequestsOK' /\ SessionOK' /\ PageOK' /\ HintOK'
        /\ fetch'[r].answer = "lost" /\ \A q \in Slots \ {r} : fetch'[q] = fetch[q]
        /\ fetch'[r].slug = f.slug
        /\ UNCHANGED <<Mounted("save"), Mounted("load")>>
        /\ Unserved' = Unserved \ {r}
        /\ \A q \in Accepted : q # r
        /\ Accepted' = IF r \in Mounted("save") /\ "lost" \in Slug THEN Accepted \cup {r} ELSE Accepted
    BY <1>1, <1>2, <1>3, <1>4, <1>5, AnswerStep
  <1>7. FreshOK'
    <2>1. CASE r \in Unserved
      BY <1>1, <1>2, <1>6, <2>1, SavingFresh
    <2>2. CASE r \notin Unserved
      <3>1. Unserved' = Unserved
        BY <1>6, <2>2
      <3>2. \A q \in Mounted("load") : fetch'[q].answer \in Slug => fetch'[q] = fetch[q]
        BY <1>4, <1>6 DEF Mounted, Asked
      <3>. QED
        BY <1>1, <1>2, <1>6, <3>1, <3>2 DEF IInv, FreshOK
    <2>. QED
      BY <2>1, <2>2
  <1>. QED
    BY <1>6, <1>7 DEF IInv

----------------------------------------------------------------------------
(* Answers that arrive *)

\* An answer that was handled leaves its slot.
LEMMA Handling ==
    ASSUME IInv, NEW r \in Slots, fetch[r].step = "answered", Forget(r), UNCHANGED expired
    PROVE  /\ fetch' \in [Slots -> Fetches] /\ RequestsOK'
           /\ \A q \in Slots : fetch'[q] = fetch[q] \/ (q = r /\ fetch'[q] = NoFetch)
           /\ \A k \in Kinds : Mounted(k)' = Mounted(k) \ {r} /\ Mounted(k) \subseteq Slots
           /\ \A k \in Kinds : r \in Mounted(k) <=> fetch[r].kind = k /\ fetch[r].mounted
           /\ Unserved' = Unserved /\ Unserved \subseteq Slots \ {r}
           /\ Accepted' = Accepted \ {r} /\ Accepted \subseteq Mounted("save")
           /\ token # 0 /\ row # Nobody
  <1>1. /\ fetch' \in [Slots -> Fetches] /\ fetch'[r] = NoFetch
        /\ \A q \in Slots \ {r} : fetch'[q] = fetch[q]
    BY Forgetting DEF IInv
  <1>2. fetch[r] # NoFetch
    BY NoFetchOK DEF None
  <1>3. token # 0 /\ row # Nobody
    BY <1>2 DEF IInv, SessionOK
  <1>4. RequestsOK'
    <2>. SUFFICES ASSUME NEW q \in Slots PROVE Fit(fetch[q])'
      BY DEF RequestsOK
    <2>1. CASE q = r
      BY <1>1, <2>1, NoFetchOK DEF Fit, None
    <2>2. CASE q # r
      BY <1>1, <2>2 DEF IInv, RequestsOK, Fit
    <2>. QED
      BY <2>1, <2>2
  <1>5. \A k \in Kinds : Mounted(k)' = Mounted(k) \ {r} /\ Mounted(k) \subseteq Slots
    <2>. SUFFICES ASSUME NEW k \in Kinds
                  PROVE  Mounted(k)' = Mounted(k) \ {r} /\ Mounted(k) \subseteq Slots
      OBVIOUS
    <2>1. Mounted(k)' = {q \in Slots : fetch'[q].kind = k /\ fetch'[q].mounted}
      BY DEF Mounted, Asked
    <2>2. Mounted(k) = {q \in Slots : fetch[q].kind = k /\ fetch[q].mounted}
      BY DEF Mounted, Asked
    <2>3. fetch'[r].mounted = FALSE
      BY <1>1, NoFetchOK
    <2>. QED
      BY <1>1, <2>1, <2>2, <2>3
  <1>6. Unserved' = Unserved /\ Unserved \subseteq Slots \ {r}
    <2>1. Unserved' = {q \in Slots : fetch'[q].kind = "save" /\ fetch'[q].step = "sent"}
      BY DEF Unserved, Asked
    <2>2. Unserved = {q \in Slots : fetch[q].kind = "save" /\ fetch[q].step = "sent"}
      BY DEF Unserved, Asked
    <2>. QED
      BY <1>1, <2>1, <2>2, NoFetchOK DEF None
  <1>7. Accepted' = Accepted \ {r} /\ Accepted \subseteq Mounted("save")
    <2>1. Mounted("save")' = Mounted("save") \ {r} /\ Mounted("save") \subseteq Slots
      BY <1>5 DEF Kinds
    <2>. QED
      BY <1>1, <2>1 DEF Accepted
  <1>8. \A k \in Kinds : r \in Mounted(k) <=> fetch[r].kind = k /\ fetch[r].mounted
    BY DEF Mounted, Asked
  <1>. QED
    BY <1>1, <1>3, <1>4, <1>5, <1>6, <1>7, <1>8

\* Nobody hears it, or a poll that asks for another one.
LEMMA DroppedStep ==
    ASSUME IInv, NEW r \in Slots, Ignored(r) \/ (Polled(r) /\ fetch[r].answer # "active")
    PROVE  IInv'
  <1>1. /\ fetch[r].step = "answered" /\ Forget(r)
        /\ fetch[r].kind = "poll" \/ ~fetch[r].mounted
        /\ UNCHANGED <<row, payload, taken, queued, job, seen, token, expired, signIns, page, form, profile,
                       fresh, slug, hint, timer, inOrder, free, visits, edits, jobs, faults>>
    BY DEF Ignored, Polled, Answered, server, index, session, settings, field, bounds
  <1>2. error' \in BOOLEAN
    <2>1. CASE Ignored(r)
      <3>1. error' = error
        BY <2>1 DEF Ignored
      <3>. QED
        BY <3>1 DEF IInv, TypeOK
    <2>2. CASE Polled(r) /\ fetch[r].answer # "active"
      BY <2>2 DEF Polled
    <2>. QED
      BY <2>1, <2>2
  <1>3. /\ fetch' \in [Slots -> Fetches] /\ RequestsOK'
        /\ \A q \in Slots : fetch'[q] = fetch[q] \/ (q = r /\ fetch'[q] = NoFetch)
        /\ \A k \in Kinds : Mounted(k)' = Mounted(k) \ {r} /\ Mounted(k) \subseteq Slots
        /\ \A k \in Kinds : r \in Mounted(k) <=> fetch[r].kind = k /\ fetch[r].mounted
        /\ Unserved' = Unserved /\ Unserved \subseteq Slots \ {r}
        /\ Accepted' = Accepted \ {r} /\ Accepted \subseteq Mounted("save")
        /\ token # 0 /\ row # Nobody
    BY <1>1, Handling
  <1>4. /\ UNCHANGED <<Mounted("check"), Mounted("save"), Mounted("load")>>
        /\ r \notin Mounted("check") \cup Mounted("save") \cup Mounted("load")
        /\ Mounted("check") \cup Mounted("save") \cup Mounted("load") \subseteq Slots
    BY <1>1, <1>3 DEF Kinds
  <1>5. Accepted' = Accepted
    BY <1>3, <1>4
  <1>6. \A q \in Mounted("check") \cup Mounted("load") \cup Unserved \cup Accepted : fetch'[q] = fetch[q]
    BY <1>3, <1>4
  <1>7. TypeOK'
    BY <1>1, <1>2, <1>3 DEF IInv, TypeOK
  <1>8. SessionOK'
    BY <1>1, <1>3 DEF IInv, SessionOK
  <1>9. PageOK'
    BY <1>1, <1>4 DEF IInv, PageOK
  <1>10. HintOK'
    BY <1>1, <1>4, <1>6 DEF IInv, HintOK
  <1>11. FreshOK'
    BY <1>1, <1>3, <1>4, <1>5, <1>6 DEF IInv, FreshOK
  <1>. QED
    BY <1>3, <1>7, <1>8, <1>9, <1>10, <1>11 DEF IInv

LEMMA LoadedStep ==
    ASSUME IInv, NEW r \in Slots, Loaded(r)
    PROVE  IInv'
  <1>1. /\ fetch[r].step = "answered" /\ fetch[r].kind = "load" /\ fetch[r].answer # "401"
        /\ fetch[r].mounted /\ Forget(r)
        /\ UNCHANGED <<row, payload, taken, queued, job, seen, token, expired, signIns, page, form,
                       fresh, hint, timer, inOrder, free, error, visits, edits, jobs, faults>>
    BY DEF Loaded, Answered, Ends, server, index, session, bounds
  <1>2. /\ fetch' \in [Slots -> Fetches] /\ RequestsOK'
        /\ \A k \in Kinds : Mounted(k)' = Mounted(k) \ {r} /\ Mounted(k) \subseteq Slots
        /\ \A k \in Kinds : r \in Mounted(k) <=> fetch[r].kind = k /\ fetch[r].mounted
        /\ \A q \in Slots : fetch'[q] = fetch[q] \/ (q = r /\ fetch'[q] = NoFetch)
        /\ Unserved' = Unserved /\ Unserved \subseteq Slots \ {r}
        /\ Accepted' = Accepted \ {r} /\ Accepted \subseteq Mounted("save")
        /\ token # 0 /\ row # Nobody
    BY <1>1, Handling
  <1>3. /\ profile = None /\ hint = None /\ ~timer
        /\ Mounted("check") = {} /\ Mounted("save") = {} /\ r \in Mounted("load") /\ Accepted = {}
        /\ UNCHANGED <<Mounted("check"), Mounted("save"), Accepted>>
        /\ Mounted("load")' = {}
    <2>1. r \in Mounted("load")
      BY <1>1, <1>2 DEF Kinds
    <2>2. profile = None
      BY <2>1 DEF IInv, PageOK
    <2>3. Mounted("check") = {} /\ Mounted("save") = {} /\ hint = None /\ ~timer
      BY <2>2 DEF IInv, PageOK
    <2>4. Mounted("load") = {r}
      BY <2>1 DEF IInv, PageOK
    <2>. QED
      BY <1>2, <2>1, <2>2, <2>3, <2>4 DEF Kinds
  <1>4. TypeOK' /\ PageOK' /\ HintOK' /\ FreshOK'
    <2>1. CASE page = "settings" /\ fetch[r].answer \notin Errors
      <3>1. profile' = fetch[r].answer /\ slug' = fetch[r].answer
        BY <2>1 DEF Loaded
      <3>2. profile' \in Slug /\ slug' = profile' /\ slug' \in Typed /\ profile' # None /\ slug' # "bad"
        BY <1>1, <2>1, <3>1 DEF IInv, RequestsOK, Fit, Slug, Typed, None
      <3>3. TypeOK'
        BY <1>1, <1>2, <3>2 DEF IInv, TypeOK
      <3>4. PageOK'
        BY <1>1, <1>3, <2>1, <3>2 DEF PageOK
      <3>5. HintOK'
        BY <1>1, <1>3, <3>2 DEF HintOK, None
      <3>6. FreshOK'
        <4>. SUFFICES ASSUME fresh PROVE FreshOK'
          BY <1>1 DEF FreshOK
        <4>1. Unserved' = {} /\ (faults = 0 => profile' = row.slug)
          BY <1>2, <1>3, <3>1, <3>2 DEF IInv, FreshOK
        <4>. QED
          BY <1>1, <1>3, <4>1 DEF FreshOK
      <3>. QED
        BY <3>3, <3>4, <3>5, <3>6
    <2>2. CASE ~(page = "settings" /\ fetch[r].answer \notin Errors)
      <3>1. UNCHANGED <<profile, slug>>
        BY <2>2 DEF Loaded
      <3>2. TypeOK'
        BY <1>1, <1>2, <3>1 DEF IInv, TypeOK
      <3>3. PageOK'
        BY <1>1, <1>3, <3>1 DEF PageOK
      <3>4. HintOK'
        BY <1>3, <3>1 DEF HintOK
      <3>5. \A q \in Unserved : fetch'[q] = fetch[q]
        BY <1>2
      <3>6. FreshOK'
        BY <1>1, <1>2, <1>3, <3>1, <3>5 DEF IInv, FreshOK
      <3>. QED
        BY <3>2, <3>3, <3>4, <3>6
    <2>. QED
      BY <2>1, <2>2
  <1>5. SessionOK'
    BY <1>1, <1>2 DEF IInv, SessionOK
  <1>. QED
    BY <1>2, <1>4, <1>5 DEF IInv

LEMMA CheckedStep ==
    ASSUME IInv, NEW r \in Slots, Checked(r)
    PROVE  IInv'
  <1>1. /\ fetch[r].step = "answered" /\ fetch[r].kind = "check" /\ fetch[r].mounted /\ Forget(r)
        /\ UNCHANGED <<row, payload, taken, queued, job, seen, token, expired, signIns, page, form, profile,
                       fresh, slug, timer, inOrder, error, visits, edits, jobs, faults>>
    BY DEF Checked, Answered, server, index, session, bounds
  <1>2. /\ hint' \in {None, "taken", "unverified"} /\ free' \in Slug \cup {None}
        /\ hint' = None => free' = fetch[r].slug
        /\ fetch[r].slug \in Slug
    <2>1. fetch[r].slug \in Slug
      BY <1>1 DEF IInv, RequestsOK, Fit
    <2>2. hint' = CASE fetch[r].answer = "free" -> None
                    [] fetch[r].answer = "taken" -> "taken"
                    [] OTHER -> "unverified"
      BY DEF Checked
    <2>3. free' = IF fetch[r].answer = "free" THEN fetch[r].slug ELSE None
      BY DEF Checked
    <2>4. CASE fetch[r].answer = "free"
      BY <2>1, <2>2, <2>3, <2>4
    <2>5. CASE fetch[r].answer = "taken"
      BY <2>1, <2>2, <2>3, <2>5 DEF None
    <2>6. CASE fetch[r].answer \notin {"free", "taken"}
      BY <2>1, <2>2, <2>3, <2>6 DEF None
    <2>. QED
      BY <2>4, <2>5, <2>6
  <1>3. /\ fetch' \in [Slots -> Fetches] /\ RequestsOK'
        /\ \A k \in Kinds : Mounted(k)' = Mounted(k) \ {r} /\ Mounted(k) \subseteq Slots
        /\ \A k \in Kinds : r \in Mounted(k) <=> fetch[r].kind = k /\ fetch[r].mounted
        /\ \A q \in Slots : fetch'[q] = fetch[q] \/ (q = r /\ fetch'[q] = NoFetch)
        /\ Unserved' = Unserved /\ Unserved \subseteq Slots \ {r}
        /\ Accepted' = Accepted \ {r} /\ Accepted \subseteq Mounted("save")
        /\ token # 0 /\ row # Nobody
    BY <1>1, Handling
  <1>4. /\ r \in Mounted("check") /\ r \notin Mounted("save") \cup Mounted("load")
        /\ Mounted("save") \cup Mounted("load") \cup Mounted("check") \subseteq Slots
        /\ UNCHANGED <<Mounted("save"), Mounted("load")>>
        /\ Mounted("check")' = Mounted("check") \ {r}
    BY <1>1, <1>3 DEF Kinds
  <1>5. profile # None
    BY <1>4 DEF IInv, PageOK
  <1>6. TypeOK'
    BY <1>1, <1>2, <1>3 DEF IInv, TypeOK
  <1>7. SessionOK'
    BY <1>1, <1>3 DEF IInv, SessionOK
  <1>8. PageOK'
    BY <1>1, <1>4, <1>5 DEF IInv, PageOK
  <1>9. HintOK'
    <2>. SUFFICES ASSUME inOrder PROVE HintOK'
      BY <1>1 DEF HintOK
    <2>1. Mounted("check")' = {} /\ fetch[r].slug = slug /\ slug # profile
      BY <1>4, <1>5 DEF IInv, HintOK
    <2>. QED
      BY <1>1, <1>2, <2>1 DEF HintOK, Slug, None
  <1>10. FreshOK'
    <2>1. /\ Accepted' = Accepted
          /\ \A q \in Mounted("load") \cup Unserved \cup Accepted : fetch'[q] = fetch[q]
      BY <1>3, <1>4
    <2>. QED
      BY <1>1, <1>3, <1>4, <2>1 DEF IInv, FreshOK
  <1>. QED
    BY <1>3, <1>6, <1>7, <1>8, <1>9, <1>10 DEF IInv

LEMMA SavedStep ==
    ASSUME IInv, NEW r \in Slots, Saved(r)
    PROVE  IInv'
  <1>1. /\ fetch[r].step = "answered" /\ fetch[r].kind = "save" /\ fetch[r].mounted
        /\ fetch[r].answer # "401" /\ Forget(r)
        /\ UNCHANGED <<row, payload, taken, queued, job, seen, token, expired, signIns, page, form,
                       fresh, slug, free, error, visits, edits, jobs, faults>>
    BY DEF Saved, Answered, Ends, server, index, session, bounds
  <1>2. /\ fetch' \in [Slots -> Fetches] /\ RequestsOK'
        /\ \A k \in Kinds : Mounted(k)' = Mounted(k) \ {r} /\ Mounted(k) \subseteq Slots
        /\ \A k \in Kinds : r \in Mounted(k) <=> fetch[r].kind = k /\ fetch[r].mounted
        /\ \A q \in Slots : fetch'[q] = fetch[q] \/ (q = r /\ fetch'[q] = NoFetch)
        /\ Unserved' = Unserved /\ Unserved \subseteq Slots \ {r}
        /\ Accepted' = Accepted \ {r} /\ Accepted \subseteq Mounted("save")
        /\ token # 0 /\ row # Nobody
    BY <1>1, Handling
  <1>3. /\ r \in Mounted("save") /\ r \notin Mounted("check") \cup Mounted("load")
        /\ Mounted("check") \cup Mounted("load") \subseteq Slots
        /\ UNCHANGED <<Mounted("check"), Mounted("load")>>
        /\ Mounted("save") = {r} /\ Mounted("save")' = {}
    <2>1. r \in Mounted("save") /\ r \notin Mounted("check") \cup Mounted("load")
      BY <1>1, <1>2 DEF Kinds
    <2>2. Mounted("save") = {r}
      BY <2>1 DEF IInv, PageOK
    <2>. QED
      BY <1>2, <2>1, <2>2 DEF Kinds
  <1>4. profile # None /\ profile \in Slug /\ Mounted("load") = {} /\ slug \in Typed /\ page = "settings"
    BY <1>3 DEF IInv, PageOK, TypeOK
  <1>5. /\ fetch[r].answer \notin Errors => /\ fetch[r].answer \in Slug /\ fetch[r].answer = fetch[r].slug
        /\ fetch[r].answer \in Errors => fetch[r].answer \notin Slug
    BY <1>1 DEF IInv, RequestsOK, Fit, Errors, Slug
  <1>6. Accepted = (IF fetch[r].answer \in Slug THEN {r} ELSE {}) /\ Accepted' = {}
    BY <1>2, <1>3 DEF Accepted
  \* No save is on its way, and the slug of the page becomes that of the row.
  <1>7. fresh => /\ Unserved' = {}
                 /\ faults = 0 => IF fetch[r].answer \in Slug THEN fetch[r].slug = row.slug
                                                             ELSE profile = row.slug
    <2>. SUFFICES ASSUME fresh
                  PROVE  /\ Unserved' = {}
                         /\ faults = 0 => IF fetch[r].answer \in Slug THEN fetch[r].slug = row.slug
                                                                     ELSE profile = row.slug
      OBVIOUS
    <2>1. Unserved' = {}
      BY <1>2, <1>3, <1>4 DEF IInv, FreshOK
    <2>2. ASSUME faults = 0
          PROVE  IF fetch[r].answer \in Slug THEN fetch[r].slug = row.slug ELSE profile = row.slug
      BY <1>4, <1>6, <2>2 DEF IInv, FreshOK
    <2>. QED
      BY <2>1, <2>2
  <1>8. SessionOK'
    BY <1>1, <1>2 DEF IInv, SessionOK
  <1>9. \A q \in Mounted("check") : fetch'[q] = fetch[q]
    BY <1>2, <1>3
  <1>10. CASE fetch[r].answer \in Errors \/ fetch[r].slug = profile
    <2>1. UNCHANGED <<profile, hint, timer, inOrder>>
      BY <1>10 DEF Saved, SavedAs
    <2>2. TypeOK'
      BY <1>1, <1>2, <2>1 DEF IInv, TypeOK
    <2>3. PageOK'
      BY <1>1, <1>3, <1>4, <2>1 DEF IInv, PageOK
    <2>4. HintOK'
      BY <1>1, <1>3, <1>9, <2>1 DEF IInv, HintOK
    <2>5. fresh /\ faults = 0 => profile = row.slug
      BY <1>5, <1>7, <1>10
    <2>6. FreshOK'
      BY <1>1, <1>3, <1>4, <1>6, <1>7, <2>1, <2>5 DEF FreshOK
    <2>. QED
      BY <1>2, <1>8, <2>2, <2>3, <2>4, <2>6 DEF IInv
  <1>11. CASE ~(fetch[r].answer \in Errors \/ fetch[r].slug = profile)
    <2>1. /\ profile' = fetch[r].slug /\ Effect(slug, fetch[r].slug)
          /\ inOrder' = (inOrder /\ Mounted("check") = {})
      BY <1>11 DEF Saved, SavedAs
    <2>2. profile' \in Slug /\ profile' # None /\ fetch[r].slug \in Slug
      BY <1>5, <1>11, <2>1 DEF Slug, None
    <2>3. /\ timer' \in BOOLEAN /\ (timer' <=> slug \in Slug \ {profile'})
          /\ hint' \in {None, "invalid", "taken", "unverified"}
          /\ ~timer' => /\ slug \in {profile', "empty"} => hint' = None
                        /\ slug = "bad" <=> hint' = "invalid"
                        /\ hint' = None => slug \in {profile', "empty"}
      <3>1. PICK v \in Typed, s \in Slug : v = slug /\ s = fetch[r].slug
        BY <1>4, <2>2
      <3>2. Effect(v, s)
        BY <2>1, <3>1
      <3>. QED
        BY <2>1, <3>1, <3>2, EffectOK DEF IInv
    <2>4. TypeOK'
      <3>1. inOrder' \in BOOLEAN
        BY <2>1
      <3>. QED
        BY <1>1, <1>2, <2>2, <2>3, <3>1 DEF IInv, TypeOK
    <2>5. PageOK'
      BY <1>1, <1>3, <1>4, <2>2, <2>3 DEF PageOK
    <2>6. HintOK'
      <3>. SUFFICES ASSUME inOrder' PROVE HintOK'
        BY DEF HintOK
      <3>1. Mounted("check") = {}
        BY <2>1
      <3>. QED
        BY <1>1, <1>3, <2>3, <3>1 DEF HintOK
    <2>7. fresh /\ faults = 0 => profile' = row.slug
      BY <1>5, <1>7, <1>11, <2>1
    <2>8. FreshOK'
      BY <1>1, <1>3, <1>4, <1>6, <1>7, <2>7 DEF FreshOK
    <2>. QED
      BY <1>2, <1>8, <2>4, <2>5, <2>6, <2>8 DEF IInv
  <1>. QED
    BY <1>10, <1>11

----------------------------------------------------------------------------
(* The invariant *)

LEMMA Initially == Init => IInv
  <1>. SUFFICES ASSUME Init PROVE IInv
    OBVIOUS
  <1>1. fetch \in [Slots -> Fetches] /\ \A r \in Slots : fetch[r] = NoFetch
    BY NoFetchOK DEF Init
  <1>2. Mounted("check") = {} /\ Mounted("save") = {} /\ Mounted("load") = {} /\ Unserved = {} /\ Accepted = {}
    BY <1>1, NoFetchOK DEF Mounted, Asked, Unserved, Accepted, None
  <1>3. TypeOK
    <2>1. /\ timer \in BOOLEAN /\ fresh \in BOOLEAN /\ error \in BOOLEAN /\ inOrder \in BOOLEAN
          /\ queued \in BOOLEAN /\ taken \in BOOLEAN
      BY DEF Init
    <2>2. /\ token \in 0..signIns /\ expired \subseteq 1..signIns /\ signIns \in 0..MaxSignIns
          /\ visits \in 0..MaxVisits /\ edits \in 0..MaxEdits /\ jobs \in 0..MaxJobs
          /\ faults \in 0..MaxFaults
      BY WebAssumption DEF Init
    <2>3. /\ row \in Profiles /\ payload \in Profiles /\ seen \in Profiles
          /\ job \in {None, "read", "published"} /\ page \in Pages
          /\ form \in {None, "nonce", "sign", "verify"} /\ profile \in Slug \cup {None}
          /\ slug \in Typed \cup {None} /\ hint \in {None, "invalid", "taken", "unverified"}
          /\ free \in Slug \cup {None}
      BY DEF Init, Profiles, Pages
    <2>. QED
      BY <1>1, <2>1, <2>2, <2>3 DEF TypeOK
  <1>4. RequestsOK
    BY <1>1, NoFetchOK DEF RequestsOK, Fit, None
  <1>5. SessionOK
    BY <1>1 DEF Init, SessionOK
  <1>6. PageOK
    BY <1>2 DEF Init, PageOK
  <1>7. HintOK
    BY DEF Init, HintOK
  <1>8. FreshOK
    BY <1>2 DEF Init, FreshOK
  <1>. QED
    BY <1>3, <1>4, <1>5, <1>6, <1>7, <1>8 DEF IInv

LEMMA Inductive == IInv /\ [Next]_vars => IInv'
  <1>. SUFFICES ASSUME IInv, [Next]_vars PROVE IInv'
    OBVIOUS
  <1>1. CASE SignIn \/ FormStep \/ Expire \/ Refresh \/ Cron \/ JobStep \/ SlugGone \/ UNCHANGED vars
    BY <1>1, OutsideStep
  <1>2. CASE Visit
    BY <1>2, VisitStep
  <1>3. CASE SignedIn
    BY <1>3, SignedInStep
  <1>4. CASE Poll
    BY <1>4, PollStep
  <1>5. CASE Edit
    BY <1>5, EditStep
  <1>6. CASE Check
    BY <1>6, CheckStep
  <1>7. CASE Save
    BY <1>7, SaveStep
  <1>8. ASSUME NEW r \in Slots, Serve(r) PROVE IInv'
    BY <1>8, ServeStep
  <1>9. ASSUME NEW r \in Slots, Lost(r) PROVE IInv'
    BY <1>9, LostStep
  <1>10. ASSUME NEW r \in Slots, Deliver(r) PROVE IInv'
    <2>1. CASE Unauthorized(r)
      BY <2>1, UnauthorizedStep
    <2>2. CASE Ignored(r)
      BY <2>2, DroppedStep
    <2>3. CASE Polled(r)
      BY <2>3, PolledStep, DroppedStep
    <2>4. CASE Loaded(r)
      BY <2>4, LoadedStep
    <2>5. CASE Checked(r)
      BY <2>5, CheckedStep
    <2>6. CASE Saved(r)
      BY <2>6, SavedStep
    <2>. QED
      BY <1>10, <2>1, <2>2, <2>3, <2>4, <2>5, <2>6 DEF Deliver
  <1>. QED
    BY <1>1, <1>2, <1>3, <1>4, <1>5, <1>6, <1>7, <1>8, <1>9, <1>10 DEF Next

LEMMA Invariance == Spec => []IInv
  BY Initially, Inductive, PTL DEF Spec

----------------------------------------------------------------------------
(* The theorems *)

\* The state of the tab, of its requests and of the profile has the types that the
\* components of the page and the API give it, whatever answers come and when.
THEOREM TypeCorrect == Spec => []TypeOK
  <1>1. IInv => TypeOK
    BY DEF IInv
  <1>. QED
    BY <1>1, Invariance, PTL

\* The hint below the slug field is about the name in the field, if any, once every check is
\* answered, unless a check was overtaken (SlugInput).
THEOREM HintCorrect == Spec => []HintMatches
  <1>1. IInv => HintMatches
    BY DEF IInv, HintOK, HintMatches
  <1>. QED
    BY <1>1, Invariance, PTL

\* A session ends with a 401 for an expired token only: its own, or that of a session
\* before (the response interceptor of the API client).
THEOREM SessionStays == Spec => SessionKept
  <1>1. IInv /\ [Next]_vars =>
            [(token # 0 /\ token' = 0) =>
                token \in expired \/ \E r \in Slots : fetch[r].token \notin {0, token}]_vars
    <2>. SUFFICES ASSUME IInv, [Next]_vars, token # 0, token' = 0
                  PROVE  token \in expired \/ \E r \in Slots : fetch[r].token \notin {0, token}
      OBVIOUS
    <2>1. token \in Nat /\ signIns \in Nat
      BY WebAssumption DEF IInv, TypeOK
    <2>2. PICK r \in Slots : Unauthorized(r)
      <3>1. ~SignedIn
        BY <2>1 DEF SignedIn
      <3>. QED
        BY <3>1 DEF Next, vars, Visit, SignIn, FormStep, Expire, Poll, Edit, Check, Save, Serve, Lost,
                    Deliver, Ignored, Polled, Loaded, Checked, Saved, Refresh, Cron, JobStep, JobReads,
                    JobPublishes, JobEnds, JobFails, SlugGone, session
    <2>3. fetch[r].step = "answered" /\ fetch[r].answer = "401"
      BY <2>2 DEF Unauthorized, Ends
    <2>4. fetch[r].token \in expired /\ fetch[r].token # 0
      BY <2>3, NoFetchOK DEF IInv, RequestsOK, Fit, None
    <2>. QED
      BY <2>4
  <1>. QED
    BY <1>1, Invariance, PTL DEF Spec, SessionKept

\* The profile never gets a slug that the user did not confirm in handleSave, as long as
\* the page was loaded with the slug of the row and every save was answered.
THEOREM RenamesAsConfirmed == Spec => RenameConfirmed
  <1>1. IInv /\ [Next]_vars =>
            [(row # Nobody /\ row'.slug # row.slug) =>
                \/ \E r \in Asked("save") : fetch[r].step = "sent" /\ fetch[r].confirmed
                \/ ~fresh \/ faults > 0]_vars
    <2>. SUFFICES ASSUME IInv, [Next]_vars, row # Nobody, row'.slug # row.slug, fresh, ~(faults > 0)
                  PROVE  \E r \in Asked("save") : fetch[r].step = "sent" /\ fetch[r].confirmed
      OBVIOUS
    <2>1. faults = 0
      BY WebAssumption DEF IInv, TypeOK
    <2>2. PICK r \in Slots : /\ fetch[r].step = "sent" /\ Renames(fetch[r])
                             /\ fetch[r].slug # row.slug
      <3>1. row' # row
        OBVIOUS
      <3>2. ~SignedIn
        BY <3>1 DEF SignedIn
      <3>3. ~(Refresh \/ JobEnds \/ JobFails)
        <4>. SUFFICES ASSUME Refresh \/ JobEnds \/ JobFails PROVE FALSE
          OBVIOUS
        <4>1. \E s \in Status : row' = [row EXCEPT !.status = s]
          BY DEF Refresh, JobEnds, JobFails, Status
        <4>2. row \in [slug : Slug, status : Status]
          BY DEF IInv, TypeOK, Profiles
        <4>. QED
          BY <4>1, <4>2
      <3>4. PICK r \in Slots : Serve(r) \/ Lost(r)
        BY <3>1, <3>2, <3>3 DEF Next, vars, Visit, SignIn, FormStep, Expire, Poll, Edit, Check, Save,
               Deliver, Unauthorized, Ignored, Polled, Loaded, Checked, Saved, Cron, JobStep, JobReads,
               JobPublishes, SlugGone, server
      <3>5. fetch[r].step = "sent" /\ Renames(fetch[r])
            /\ row' = [row EXCEPT !.slug = fetch[r].slug]
        BY <3>1, <3>4 DEF Serve, Lost
      <3>6. row'.slug = fetch[r].slug
        BY <3>5, RenamingOK
      <3>. QED
        BY <3>5, <3>6
    <2>3. r \in Unserved /\ r \in Asked("save")
      BY <2>2 DEF Unserved, Asked, Renames
    <2>4. fetch[r].confirmed
      BY <2>1, <2>2, <2>3 DEF IInv, FreshOK
    <2>. QED
      BY <2>2, <2>3, <2>4
  <1>. QED
    BY <1>1, Invariance, PTL DEF Spec, RenameConfirmed

==============================================================================
