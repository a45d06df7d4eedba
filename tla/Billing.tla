-------------------------------- MODULE Billing --------------------------------
(***************************************************************************)
(* The plan of one user: StripeWebhookService.handleEvent, the writes of   *)
(* StripeService, createCheckoutSession and what getEffectivePlan makes of *)
(* the two rows.  Stripe itself is external: what a customer does there    *)
(* appends an event to log, and an event is sent until it was answered     *)
(* with 200, in any order, and sometimes once more.  A customer has one    *)
(* subscription at a time.                                                 *)
(***************************************************************************)
EXTENDS Naturals, Sequences

CONSTANTS Handlers,        \* requests in flight at a time
          MaxCustomers,    \* bound: customers at Stripe
          MaxEvents,       \* bound: events
          MaxCheckouts,    \* bound: checkouts
          MaxDuplicates,   \* bound: deliveries of answered events
          MaxFaults        \* bound: requests that fail or are cut off

ASSUME BillingAssumption ==
    /\ MaxCustomers \in Nat /\ MaxEvents \in Nat /\ MaxCheckouts \in Nat

VARIABLES
    configured,  \* Stripe keys are set; else the checkout is a mock
    tagged,      \* subscriptions carry metadata.userId: somebody wrote it there at
                 \* Stripe, for createCheckoutSession gives it to the session alone
    sub,         \* the subscriptions row
    tier,        \* users.subscriptionTier
    recorded,    \* stripe_webhook_events
    customers,   \* number of customers at Stripe; 0 is the mock customer
    sessions,    \* customers with an open checkout session
    stripe,      \* stripe[c]: the state of the subscription of customer c
    log,         \* events, in Stripe's order
    acked,       \* events answered with 200
    at,          \* at[h]: the next await of the request of h
    req,         \* req[h]: the event it handles (0: a checkout) and its customer
    checkouts, duplicates, faults,
    alone,       \* history: no two requests overlapped
    inOrder      \* history: an event came after all earlier ones were answered

db == <<sub, tier, recorded>>
remote == <<customers, sessions, stripe, log>>
counts == <<checkouts, duplicates, faults>>
vars == <<configured, tagged, sub, tier, recorded, customers, sessions, stripe, log, acked,
          at, req, checkouts, duplicates, faults, alone, inOrder>>

Customers == 1..MaxCustomers
Plans == {"free", "premium"}
NoRow == [plan |-> "none", status |-> "none", customer |-> 0]
Row == [plan : Plans, status : {"active", "canceled"}, customer : 0..MaxCustomers]

Kinds == {"completed", "active", "ended", "other"}
Event == [kind : Kinds, customer : Customers]

Steps == {"idle", "check", "sub", "tier", "record", "answer",
          "read", "customer", "save", "session"}
Open == {h \in Handlers : at[h] # "idle"}
NoRequest == [event |-> 0, customer |-> 0]
Request == [event : 0..MaxEvents, customer : 0..MaxCustomers]

Init ==
    /\ configured \in BOOLEAN /\ tagged \in BOOLEAN
    /\ sub = NoRow /\ tier = "free" /\ recorded = {}
    /\ customers = 0 /\ sessions = {} /\ stripe = [c \in Customers |-> "none"]
    /\ log = <<>> /\ acked = {}
    /\ at = [h \in Handlers |-> "idle"] /\ req = [h \in Handlers |-> NoRequest]
    /\ checkouts = 0 /\ duplicates = 0 /\ faults = 0
    /\ alone = TRUE /\ inOrder = TRUE

EffectivePlan_NoStatus ==
    IF sub.plan = "premium" /\ sub.status = "active" THEN "premium" ELSE tier

\* getEffectivePlan.
EffectivePlan ==
    CASE sub.plan = "premium" /\ sub.status = "active" -> "premium"
      [] sub.status = "canceled" -> "free"
      [] OTHER -> tier
----------------------------------------------------------------------------
(* Stripe *)

Active == {c \in Customers : stripe[c] = "active"}

Happens(c, state, kind) ==
    /\ Len(log) < MaxEvents
    /\ stripe' = [stripe EXCEPT ![c] = state]
    /\ log' = Append(log, [kind |-> kind, customer |-> c])
    /\ UNCHANGED <<configured, tagged, db, customers, acked, at, req, counts, alone, inOrder>>

Pay(c) ==
    /\ c \in sessions /\ stripe[c] \in {"none", "ended"}
    /\ sessions' = sessions \ {c}
    /\ Happens(c, "active", "completed")

Renew(c) ==
    /\ stripe[c] \in {"active", "unpaid"}
    /\ Happens(c, "active", "active") /\ UNCHANGED sessions

\* updated with past_due, or an event of a type the service does not handle.
Notice(c) == stripe[c] = "active" /\ Happens(c, "active", "other") /\ UNCHANGED sessions

\* updated with unpaid.
Lapse(c) == stripe[c] = "active" /\ Happens(c, "unpaid", "ended") /\ UNCHANGED sessions

\* deleted, or updated with canceled.
Cancel(c) ==
    /\ stripe[c] \in {"active", "unpaid"}
    /\ Happens(c, "ended", "ended") /\ UNCHANGED sessions

StripeStep == \E c \in Customers : Pay(c) \/ Renew(c) \/ Notice(c) \/ Lapse(c) \/ Cancel(c)
----------------------------------------------------------------------------
(* Requests *)

Begin(h, e, first) ==
    /\ at[h] = "idle"
    /\ at' = [at EXCEPT ![h] = first]
    /\ req' = [req EXCEPT ![h] = [event |-> e, customer |-> 0]]
    /\ alone' = (alone /\ Open = {})
    /\ UNCHANGED <<configured, tagged, db, remote, acked, faults>>

\* An await answers; the request goes on at step next and remembers r.
Proceed(h, here, next, r) ==
    /\ at[h] = here /\ at' = [at EXCEPT ![h] = next]
    /\ req' = [req EXCEPT ![h] = IF next = "idle" THEN NoRequest ELSE r]
    /\ UNCHANGED <<configured, tagged, counts, alone, inOrder>>

Await(h, here, next) == Proceed(h, here, next, req[h])

Abort(h) ==
    /\ at[h] # "idle" /\ faults < MaxFaults
    /\ at' = [at EXCEPT ![h] = "idle"] /\ faults' = faults + 1
    /\ req' = [req EXCEPT ![h] = NoRequest]
    /\ UNCHANGED <<configured, tagged, db, remote, acked, checkouts, duplicates, alone, inOrder>>
----------------------------------------------------------------------------
(* handleEvent *)

\* What an event does to the plan, "none" if nothing: subscription events are
\* only applied if they name the user.
Effect(e) ==
    CASE log[e].kind = "completed" -> "premium"
      [] log[e].kind = "active" /\ tagged -> "premium"
      [] log[e].kind = "ended" /\ tagged -> "free"
      [] OTHER -> "none"

Deliver(h, e) ==
    /\ e \in acked => duplicates < MaxDuplicates
    /\ duplicates' = IF e \in acked THEN duplicates + 1 ELSE duplicates
    /\ inOrder' = (inOrder /\ 1..(e - 1) \subseteq acked)
    /\ Begin(h, e, "check") /\ UNCHANGED checkouts

CheckThen(h, known) ==
    LET e == req[h].event
    IN  /\ Await(h, "check", CASE e \in recorded -> known
                                 [] e \notin recorded /\ Effect(e) = "none" -> "record"
                                 [] OTHER -> "sub")
        /\ UNCHANGED <<db, remote, acked>>

Check_MarksFirst(h) ==
    LET e == req[h].event
    IN  /\ Await(h, "check", CASE e \in recorded -> "answer"
                               [] e \notin recorded /\ Effect(e) = "none" -> "record"
                               [] OTHER -> "sub")
        /\ recorded' = recorded \cup {e}
        /\ UNCHANGED <<sub, tier, remote, acked>>

Check(h) == CheckThen(h, "answer")

\* The plan a request is about to write: a mock checkout has no event.
Target(h) == IF req[h].event = 0 THEN "premium" ELSE Effect(req[h].event)
Payer(h) == IF req[h].event = 0 THEN 0 ELSE log[req[h].event].customer

\* upsertPremiumSubscription and markSubscriptionCanceled, the first write.
WriteSub(h) ==
    /\ Await(h, "sub", "tier")
    /\ \/ /\ Target(h) = "premium"
          /\ sub' = [plan |-> "premium", status |-> "active", customer |-> Payer(h)]
       \/ /\ Target(h) = "free"
          /\ sub' = IF sub = NoRow THEN NoRow
                    ELSE [sub EXCEPT !.plan = "free", !.status = "canceled"]
    /\ UNCHANGED <<tier, recorded, remote, acked>>

WriteTier_OnlyUp(h) ==
    /\ Await(h, "tier", IF req[h].event = 0 THEN "idle" ELSE "record")
    /\ tier' = IF Target(h) = "premium" THEN "premium" ELSE tier
    /\ UNCHANGED <<sub, recorded, remote, acked>>

\* The second write.
WriteTier(h) ==
    /\ Await(h, "tier", IF req[h].event = 0 THEN "idle" ELSE "record")
    /\ tier' = Target(h)
    /\ UNCHANGED <<sub, recorded, remote, acked>>

\* A second row of the same event is refused, and the request fails.
Record(h) ==
    LET e == req[h].event
    IN  /\ Await(h, "record", IF e \in recorded THEN "idle" ELSE "answer")
        /\ recorded' = recorded \cup {e}
        /\ UNCHANGED <<sub, tier, remote, acked>>

Answer(h) ==
    /\ Await(h, "answer", "idle")
    /\ acked' = acked \cup {req[h].event}
    /\ UNCHANGED <<db, remote>>
----------------------------------------------------------------------------
(* createCheckoutSession *)

CheckoutBegins(h) ==
    /\ checkouts < MaxCheckouts /\ checkouts' = checkouts + 1
    /\ Begin(h, 0, IF configured THEN "read" ELSE "sub")
    /\ UNCHANGED <<duplicates, inOrder>>

ReadSub(h) ==
    /\ Proceed(h, "read", IF sub.customer # 0 THEN "session" ELSE "customer",
               [req[h] EXCEPT !.customer = sub.customer])
    /\ UNCHANGED <<db, remote, acked>>

CreateCustomer(h) ==
    /\ customers < MaxCustomers
    /\ Proceed(h, "customer", "save", [req[h] EXCEPT !.customer = customers + 1])
    /\ customers' = customers + 1
    /\ UNCHANGED <<db, sessions, stripe, log, acked>>

\* The upsert sets the customer of a row there is, and plan and status of a new one.
SaveCustomer(h) ==
    /\ Await(h, "save", "session")
    /\ sub' = IF sub = NoRow
              THEN [plan |-> "free", status |-> "active", customer |-> req[h].customer]
              ELSE [sub EXCEPT !.customer = req[h].customer]
    /\ UNCHANGED <<tier, recorded, remote, acked>>

OpenSession(h) ==
    /\ Await(h, "session", "idle")
    /\ sessions' = sessions \cup {req[h].customer}
    /\ UNCHANGED <<db, customers, stripe, log, acked>>
----------------------------------------------------------------------------
EventStep(h) == Check(h) \/ WriteSub(h) \/ WriteTier(h) \/ Record(h) \/ Answer(h)
CheckoutStep(h) == ReadSub(h) \/ CreateCustomer(h) \/ SaveCustomer(h) \/ OpenSession(h)

Next ==
    \/ StripeStep
    \/ \E h \in Handlers :
           \/ \E e \in 1..Len(log) : Deliver(h, e)
           \/ CheckoutBegins(h) \/ Abort(h) \/ EventStep(h) \/ CheckoutStep(h)

Spec == Init /\ [][Next]_vars
----------------------------------------------------------------------------
(* What is checked *)

TypeOK ==
    /\ configured \in BOOLEAN /\ tagged \in BOOLEAN /\ sub \in Row \cup {NoRow} /\ tier \in Plans
    /\ customers \in 0..MaxCustomers /\ sessions \subseteq Customers
    /\ stripe \in [Customers -> {"none", "active", "unpaid", "ended"}]
    /\ log \in Seq(Event) /\ Len(log) <= MaxEvents
    /\ acked \subseteq 1..Len(log) /\ recorded \subseteq 1..Len(log)
    /\ at \in [Handlers -> Steps] /\ req \in [Handlers -> Request]
    /\ checkouts \in 0..MaxCheckouts /\ duplicates \in Nat /\ faults \in Nat
    /\ alone \in BOOLEAN /\ inOrder \in BOOLEAN

Quiet == Open = {} /\ acked = 1..Len(log)

\* However webhooks and checkouts interleave, fail and repeat, the plan that guards
\* the paid features is that of the subscriptions row: the tier of the user row,
\* which getEffectivePlan falls back to and which may be stale, never decides.
SubscriptionRules == EffectivePlan = "premium" <=> sub.plan = "premium"

\* Requests one after the other, with any failures, repetitions and order of
\* events: the tier that linkWallet looks at agrees with the effective plan when
\* everything has been answered.
TierAgrees == (configured /\ Quiet /\ alone) => tier = EffectivePlan

\* Events in order and one after the other, with failures and repetitions: if the
\* subscriptions name the user, premium is exactly who has a paid one at Stripe; as
\* createCheckoutSession makes them they do not, and premium is exactly who ever paid.
PlanFollowsPayments ==
    (configured /\ Quiet /\ alone /\ inOrder) =>
        (EffectivePlan = "premium" <=>
             IF tagged THEN Active # {}
                       ELSE \E e \in 1..Len(log) : log[e].kind = "completed")
----------------------------------------------------------------------------
(* What a test says and the code does not do *)

\* billing.e2e-spec.ts: an expired subscription resolves to free.
ExpiredIsFree ==
    (configured /\ Quiet /\ alone /\ inOrder /\ Active = {}) => EffectivePlan = "free"
==============================================================================
