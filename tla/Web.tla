---------------------------------- MODULE Web ----------------------------------
(***************************************************************************)
(* One tab of the web application and what it asks of the API: the sign-in *)
(* form and the session token, the onboarding page that polls, the profile *)
(* settings with the slug check and the save, and the dashboard.  A call   *)
(* of the API is one step; ProfileCache and Accounts look inside.          *)
(***************************************************************************)
EXTENDS Naturals, FiniteSets

CONSTANTS Slots,       \* requests of the tab in flight at a time
          CookieGate,  \* the middleware asks for a cookie (not in test mode)
          MaxSignIns,  \* bound: sessions
          MaxVisits,   \* bound: pages opened by the user
          MaxEdits,    \* bound: changes of the slug field
          MaxJobs,     \* bound: premium refreshes
          MaxFaults    \* bound: calls without an answer, sessions that expire early,
                       \* index jobs that fail

ASSUME WebAssumption ==
    /\ Slots # {} /\ IsFiniteSet(Slots) /\ CookieGate \in BOOLEAN
    /\ {MaxSignIns, MaxVisits, MaxEdits, MaxJobs, MaxFaults} \subseteq Nat

VARIABLES
    token,     \* in sessionStorage: the number of a sign-in, 0 if there is none
    expired,   \* tokens older than 24 hours
    row,       \* profiles: slug and status
    payload,   \* the slug and status in the projection
    taken,     \* slug "b" belongs to another profile
    queued,    \* an index job waits; if two do, the cron job is the second
    job, seen, \* the job in the worker: its last step; the row its projection read
    page,
    form,      \* the sign-in form: its next await
    fetch,     \* fetch[r]: a request and its answer
    profile,   \* settings: the slug of the loaded profile, "none" before
    fresh,     \* history: it was the slug in the database, with no save under way,
               \* and none from a page of which that is not true
    slug,      \* settings: the slug field
    hint, timer,  \* SlugInput: the error below the field; the 400 ms run
    error,     \* onboarding: the last poll failed
    signIns, visits, edits, jobs, faults,
    inOrder,   \* history: no answer came after its question was dropped
    free       \* history: the slug that the last answered check found free

index == <<queued, job, seen>>
server == <<row, payload, taken, index>>
session == <<token, expired, signIns>>
field == <<slug, hint, timer, inOrder, free>>
settings == <<profile, fresh, field>>
bounds == <<visits, edits, jobs, faults>>
vars == <<token, expired, row, payload, taken, queued, job, seen, page, form, fetch, profile,
          fresh, slug, hint, timer, error, signIns, visits, edits, jobs, faults, inOrder, free>>

None == "none"
Slug == {"a", "b"}   \* pass validateSlug
\* A name that fails the pattern of the page, which is that of the API, and no name.
Typed == Slug \cup {"bad", "empty"}
Status == {"indexing", "active", "failed"}
Nobody == [slug |-> None, status |-> None]
Profiles == [slug : Slug, status : Status] \cup {Nobody}
Pages == {"landing", "onboarding", "settings", "dashboard", "public"}
Protected == {"settings", "dashboard"}

\* mounted: the component that asked is still there.
NoFetch == [kind |-> None, token |-> 0, slug |-> None, confirmed |-> FALSE, mounted |-> FALSE,
            step |-> None, answer |-> None]
Fetches == [kind : {None, "poll", "load", "check", "save"}, token : Nat,
            slug : Typed \cup {None}, confirmed : BOOLEAN, mounted : BOOLEAN,
            step : {None, "sent", "answered"},
            answer : Slug \cup Status \cup {None, "free", "taken", "400", "401", "404", "lost"}]
Sent(kind, s, sure) == [NoFetch EXCEPT !.kind = kind, !.token = token, !.slug = s,
                                       !.confirmed = sure, !.mounted = TRUE, !.step = "sent"]
Asked(kind) == {r \in Slots : fetch[r].kind = kind}
Mounted(kind) == {r \in Asked(kind) : fetch[r].mounted}
Idle == {r \in Slots : fetch[r] = NoFetch}

\* One of the slots that are not in use; which one makes no difference.
Fetch(f) == Idle # {} /\ fetch' = [fetch EXCEPT ![CHOOSE r \in Idle : TRUE] = f]

Init ==
    /\ token = 0 /\ expired = {} /\ row = Nobody /\ payload = Nobody
    /\ taken \in BOOLEAN /\ queued = FALSE /\ job = None /\ seen = Nobody
    /\ page = "landing" /\ form = None /\ fetch = [r \in Slots |-> NoFetch]
    /\ profile = None /\ fresh = TRUE /\ slug = None /\ hint = None /\ timer = FALSE /\ error = FALSE
    /\ signIns = 0 /\ visits = 0 /\ edits = 0 /\ jobs = 0 /\ faults = 0
    /\ inOrder = TRUE /\ free = None
----------------------------------------------------------------------------
(* Pages *)

Unmounted == [r \in Slots |-> IF fetch[r] = NoFetch THEN NoFetch ELSE [fetch[r] EXCEPT !.mounted = FALSE]]

\* A new page: what the one before asked may still be answered, and a save from
\* an outdated page may still come.
Mount(p, fetches) ==
    /\ page' = p /\ fetch' = fetches
    /\ profile' = None /\ slug' = None /\ hint' = None /\ timer' = FALSE
    /\ fresh' = (fresh \/ Asked("save") = {})
    /\ error' = FALSE /\ inOrder' = TRUE /\ free' = None

\* Where a page leads without a cookie, which nothing sets, or without a token.
Opens(p) == CASE p \in Protected /\ CookieGate -> "landing"
              [] p = "onboarding" /\ token = 0 -> "landing"
              [] OTHER -> p

\* Settings and dashboard load the profile, once, if there is a token.
Visit ==
    /\ visits < MaxVisits /\ visits' = visits + 1
    /\ \E p \in {"landing", "onboarding", "settings", "dashboard"} :
          IF Opens(p) \in Protected /\ token # 0
          THEN /\ Idle # {}
               /\ Mount(p, [Unmounted EXCEPT ![CHOOSE r \in Idle : TRUE] = Sent("load", None, FALSE)])
          ELSE Mount(Opens(p), Unmounted)
    /\ UNCHANGED <<server, session, form, edits, jobs, faults>>
----------------------------------------------------------------------------
(* LinkWalletForm and signInWithEthereum *)

SignIn ==
    /\ page = "landing" /\ form = None /\ signIns < MaxSignIns /\ form' = "nonce"
    /\ UNCHANGED <<server, session, page, fetch, settings, error, bounds>>

\* A nonce, the signature in the wallet; or an error, and the form is free again.
FormStep ==
    /\ \/ form = "nonce" /\ form' \in {"sign", None}
       \/ form = "sign" /\ form' \in {"verify", None}
       \/ form = "verify" /\ form' = None
    /\ UNCHANGED <<server, session, page, fetch, settings, error, bounds>>

\* The first sign-in creates the profile and its first job.  The page of the form
\* may be gone: it leads to the onboarding page all the same.
SignedIn ==
    /\ form = "verify" /\ form' = None
    /\ signIns' = signIns + 1 /\ token' = signIns'
    /\ IF row = Nobody THEN row' = [slug |-> "a", status |-> "indexing"] /\ queued' = TRUE
                       ELSE UNCHANGED <<row, queued>>
    /\ Mount("onboarding", Unmounted)
    /\ UNCHANGED <<expired, payload, taken, job, seen, bounds>>

Expire ==
    /\ token # 0 /\ token \notin expired /\ faults < MaxFaults /\ faults' = faults + 1
    /\ expired' = expired \cup {token}
    /\ UNCHANGED <<server, token, signIns, page, form, fetch, settings, error, visits, edits, jobs>>
----------------------------------------------------------------------------
(* The onboarding page *)

Polls_UntilError == page = "onboarding" /\ ~error
Polls == page = "onboarding"

Poll ==
    /\ Polls /\ Fetch(Sent("poll", None, FALSE))
    /\ UNCHANGED <<server, session, page, form, settings, error, bounds>>
----------------------------------------------------------------------------
(* Profile settings *)

\* The effect of SlugInput for value v and the slug s of the profile.
Effect_KeepsError(v, s) ==
    /\ timer' = (v \in Slug \ {s})
    /\ hint' = CASE v = "empty" -> None [] v = "bad" -> "invalid" [] OTHER -> hint

Effect(v, s) ==
    /\ timer' = (v \in Slug \ {s})
    /\ hint' = CASE v \in {s, "empty"} -> None [] v = "bad" -> "invalid" [] OTHER -> hint

\* A new value stops the timer, not a check under way.
Edit ==
    /\ page = "settings" /\ profile # None /\ edits < MaxEdits /\ edits' = edits + 1
    /\ \E v \in Typed \ {slug} : slug' = v /\ Effect(v, profile)
    /\ inOrder' = (inOrder /\ Mounted("check") = {})
    /\ UNCHANGED <<server, session, page, form, fetch, profile, fresh, free, error, visits, jobs, faults>>

Check ==
    /\ timer /\ timer' = FALSE /\ Fetch(Sent("check", slug, FALSE))
    /\ UNCHANGED <<server, session, page, form, profile, fresh, slug, hint, inOrder, free, error, bounds>>

\* handleSave; a new slug is confirmed first.  The hint does not stop it, and the
\* field can be changed meanwhile.
Save ==
    /\ page = "settings" /\ profile # None /\ Mounted("save") = {}
    /\ edits < MaxEdits /\ edits' = edits + 1
    /\ Fetch(Sent("save", slug, slug # profile))
    /\ UNCHANGED <<server, session, page, form, settings, error, visits, jobs, faults>>
----------------------------------------------------------------------------
(* The API *)

\* JwtAuthGuard
Authorized(f) == f.token \notin expired \cup {0}

Free(s) == s \in Slug \ {row.slug} /\ ~(s = "b" /\ taken)

\* updateOwnerProfile accepts the slug the profile has and one that is free; it leaves
\* the slug of the projection as it is.
Renames(f) == f.kind = "save" /\ Authorized(f) /\ (f.slug = row.slug \/ Free(f.slug))

Answer(r, a) == fetch' = [fetch EXCEPT ![r].step = "answered", ![r].answer = a]

\* getOwnerProfile and mapProjectionToOwner: slug and status are those of the projection,
\* not of the row.  A poll is after the status, settings and dashboard after the slug.
AnswerProfile(r) ==
    Answer(r, CASE payload = Nobody -> "404"
                [] payload # Nobody /\ fetch[r].kind = "poll" -> payload.status
                [] payload # Nobody /\ fetch[r].kind = "load" -> payload.slug)

Serve(r) ==
    LET f == fetch[r]
    IN  /\ f.step = "sent"
        /\ CASE ~Authorized(f) -> Answer(r, "401")
             [] Authorized(f) /\ f.kind \in {"poll", "load"} -> AnswerProfile(r)
             [] Authorized(f) /\ f.kind = "check" ->
                    Answer(r, IF Free(f.slug) THEN "free" ELSE "taken")
             [] Authorized(f) /\ f.kind = "save" ->
                    Answer(r, IF Renames(f) THEN f.slug ELSE "400")
        /\ row' = IF Renames(f) THEN [row EXCEPT !.slug = f.slug] ELSE row
        /\ fresh' = IF f.kind = "load" /\ f.mounted
                    THEN payload.slug = row.slug /\ \A q \in Asked("save") : fetch[q].step # "sent"
                    ELSE fresh
        /\ UNCHANGED <<payload, taken, index, session, page, form, profile, field, error, bounds>>

\* No answer, whatever was done; a save may stop after the update.
Lost(r) ==
    LET f == fetch[r]
    IN  /\ f.step = "sent" /\ faults < MaxFaults /\ faults' = faults + 1
        /\ Answer(r, "lost")
        /\ row' \in {row} \cup (IF Renames(f) THEN {[row EXCEPT !.slug = f.slug]} ELSE {})
        /\ UNCHANGED <<payload, taken, index, session, page, form, settings, error, visits, edits, jobs>>
----------------------------------------------------------------------------
(* Answers *)

Ends_NotFound(a) == a \in {"401", "404"}
Ends(a) == a = "401"

Answered(r, kind) == fetch[r].step = "answered" /\ fetch[r].kind = kind /\ ~Ends(fetch[r].answer)
Errors == {"400", "404", "lost"}
Forget(r) == fetch' = [fetch EXCEPT ![r] = NoFetch]

\* Removes the token that is there now and loads the landing page anew.
Unauthorized(r) ==
    /\ fetch[r].step = "answered" /\ Ends(fetch[r].answer)
    /\ token' = 0 /\ form' = None
    /\ Mount("landing", [q \in Slots |-> NoFetch])
    /\ UNCHANGED <<server, expired, signIns, bounds>>

\* Nobody is there to hear it.
Ignored(r) ==
    /\ fetch[r].step = "answered" /\ ~Ends(fetch[r].answer) /\ ~fetch[r].mounted
    /\ Forget(r)
    /\ UNCHANGED <<server, session, page, form, settings, error, bounds>>

\* The page leads to the profile when the owner's view says active.
Polled(r) ==
    /\ Answered(r, "poll") /\ fetch[r].mounted
    /\ IF fetch[r].answer = "active"
       THEN Mount("public", [Unmounted EXCEPT ![r] = NoFetch])
       ELSE error' = (fetch[r].answer \in Errors) /\ Forget(r) /\ UNCHANGED <<page, settings>>
    /\ UNCHANGED <<server, session, form, bounds>>

\* A failed load has no catch: the page goes on loading.
Loaded(r) ==
    /\ Answered(r, "load") /\ fetch[r].mounted /\ Forget(r)
    /\ IF page = "settings" /\ fetch[r].answer \notin Errors
       THEN profile' = fetch[r].answer /\ slug' = fetch[r].answer
       ELSE UNCHANGED <<profile, slug>>
    /\ UNCHANGED <<server, session, page, form, fresh, hint, timer, inOrder, free, error, bounds>>

Checked(r) ==
    /\ Answered(r, "check") /\ fetch[r].mounted /\ Forget(r)
    /\ hint' = CASE fetch[r].answer = "free" -> None
                 [] fetch[r].answer = "taken" -> "taken"
                 [] OTHER -> "unverified"
    /\ free' = IF fetch[r].answer = "free" THEN fetch[r].slug ELSE None
    /\ UNCHANGED <<server, session, page, form, profile, fresh, slug, timer, inOrder, error, bounds>>

SavedAs_Field(r) == slug
SavedAs(r) == fetch[r].slug

\* The profile becomes what was sent, and the effect of SlugInput runs again.
Saved(r) ==
    /\ Answered(r, "save") /\ fetch[r].mounted /\ Forget(r)
    /\ IF fetch[r].answer \in Errors \/ SavedAs(r) = profile
       THEN UNCHANGED <<profile, hint, timer, inOrder>>
       ELSE /\ profile' = SavedAs(r) /\ Effect(slug, SavedAs(r))
            /\ inOrder' = (inOrder /\ Mounted("check") = {})
    /\ UNCHANGED <<server, session, page, form, fresh, slug, free, error, bounds>>

Deliver(r) == Unauthorized(r) \/ Ignored(r) \/ Polled(r) \/ Loaded(r) \/ Checked(r) \/ Saved(r)
----------------------------------------------------------------------------
(* Others *)

\* triggerRefresh of a premium user, from another tab: the status first, then the job,
\* which may not come.
Refresh ==
    /\ row # Nobody /\ jobs < MaxJobs /\ jobs' = jobs + 1
    /\ row' = [row EXCEPT !.status = "indexing"]
    /\ \/ queued' = TRUE /\ UNCHANGED faults
       \/ faults < MaxFaults /\ faults' = faults + 1 /\ UNCHANGED queued
    /\ UNCHANGED <<payload, taken, job, seen, session, page, form, fetch, settings, error, visits, edits>>

\* The cron job of the worker leaves the status alone.  Bound: only when no job waits or
\* is under way.
Cron ==
    /\ row # Nobody /\ ~queued /\ job = None /\ queued' = TRUE
    /\ UNCHANGED <<row, payload, taken, job, seen, session, page, form, fetch, settings, error, bounds>>

\* The next job, up to where the projector reads the profile.
JobReads ==
    /\ queued /\ job = None
    /\ queued' = FALSE /\ job' = "read" /\ seen' = row
    /\ UNCHANGED <<row, payload, taken, session, page, form, fetch, settings, error, bounds>>

\* The projection says what was read, also of the status.
JobPublishes ==
    /\ job = "read" /\ job' = "published" /\ payload' = seen /\ seen' = Nobody
    /\ UNCHANGED <<row, taken, queued, session, page, form, fetch, settings, error, bounds>>

JobEnds ==
    /\ job = "published" /\ job' = None /\ row' = [row EXCEPT !.status = "active"]
    /\ UNCHANGED <<payload, taken, queued, seen, session, page, form, fetch, settings, error, bounds>>

\* An exception before or after the projection was written: again, or no more.
JobFails ==
    /\ job # None /\ faults < MaxFaults /\ faults' = faults + 1
    /\ job' = None /\ seen' = Nobody /\ row' = [row EXCEPT !.status = "failed"]
    /\ queued' \in {queued, TRUE}
    /\ UNCHANGED <<payload, taken, session, page, form, fetch, settings, error, visits, edits, jobs>>

JobStep == JobReads \/ JobPublishes \/ JobEnds \/ JobFails

SlugGone ==
    /\ ~taken /\ row.slug # "b" /\ taken' = TRUE
    /\ UNCHANGED <<row, payload, index, session, page, form, fetch, settings, error, bounds>>

Next ==
    \/ Visit \/ SignIn \/ FormStep \/ SignedIn \/ Expire \/ Poll \/ Edit \/ Check \/ Save
    \/ \E r \in Slots : Serve(r) \/ Lost(r) \/ Deliver(r)
    \/ Refresh \/ Cron \/ JobStep \/ SlugGone

Spec == Init /\ [][Next]_vars

\* The intervals of the page and of the cron job fire, jobs come to an end, requests are
\* answered, answers are handled.
FairSpec ==
    /\ Spec /\ WF_vars(Poll) /\ WF_vars(Cron) /\ WF_vars(JobStep)
    /\ \A r \in Slots : WF_vars(Serve(r) \/ Lost(r)) /\ WF_vars(Deliver(r))
----------------------------------------------------------------------------
(* Properties *)

TypeOK ==
    /\ token \in 0..signIns /\ expired \subseteq 1..signIns /\ signIns \in 0..MaxSignIns
    /\ row \in Profiles /\ payload \in Profiles /\ taken \in BOOLEAN
    /\ queued \in BOOLEAN /\ job \in {None, "read", "published"} /\ seen \in Profiles
    /\ page \in Pages /\ form \in {None, "nonce", "sign", "verify"}
    /\ fetch \in [Slots -> Fetches]
    /\ profile \in Slug \cup {None} /\ fresh \in BOOLEAN /\ slug \in Typed \cup {None}
    /\ hint \in {None, "invalid", "taken", "unverified"} /\ timer \in BOOLEAN
    /\ error \in BOOLEAN /\ inOrder \in BOOLEAN /\ free \in Slug \cup {None}
    /\ visits \in 0..MaxVisits /\ edits \in 0..MaxEdits /\ jobs \in 0..MaxJobs
    /\ faults \in 0..MaxFaults

\* A session that has not expired stays: no error of the API but 401 ends it, unless
\* an answer to a request of an earlier session comes late.
SessionKept ==
    [][(token # 0 /\ token' = 0) =>
          token \in expired \/ \E r \in Slots : fetch[r].token \notin {0, token}]_vars

\* The slug of the profile changes only after the user confirmed it: what the page
\* calls the current slug is that of the database, also when the field is edited
\* while a save is under way; but not if the page was loaded after a rename and before
\* the next projection, or if an answer was lost.
RenameConfirmed ==
    [][(row # Nobody /\ row'.slug # row.slug) =>
          \/ \E r \in Asked("save") : fetch[r].step = "sent" /\ fetch[r].confirmed
          \/ ~fresh \/ faults > 0]_vars

\* Once the checks are answered the hint is about the slug in the field, and no hint below
\* a name means that the slug was free, unless a check was overtaken.  No hint is also
\* what an empty field gets, whatever the API will say of it.
HintMatches ==
    (profile # None /\ ~timer /\ Mounted("check") = {} /\ inOrder) =>
        /\ slug \in {profile, "empty"} => hint = None
        /\ slug = "bad" <=> hint = "invalid"
        /\ hint = None => slug \in {profile, "empty", free}

\* The user does not wait on the onboarding page for good, whatever the polls meet: though
\* the first job publishes the status it found, that is indexing, and a refresh or a
\* failure makes a later one publish indexing or failed again.
OnboardingEnds == page = "onboarding" ~> page # "onboarding"
==============================================================================
