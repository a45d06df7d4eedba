---------------------------- MODULE BillingProofs ----------------------------
(***************************************************************************)
(* Machine-checked proofs about Billing, for every number of handlers,     *)
(* events, customers, checkouts, repetitions and failures.                 *)
(***************************************************************************)
EXTENDS Billing, TLAPS

----------------------------------------------------------------------------
(* The inductive invariant *)

\* A request holds an event there is, what it is about to write is a plan, and it
\* opens a session for a customer there is.
Sound(s, r, plan) ==
    /\ r.event \in 0..Len(log)
    /\ s \in {"check", "record", "answer"} => r.event # 0
    /\ s \in {"sub", "tier"} => plan \in Plans
    /\ s \in {"save", "session"} => r.customer \in Customers

RequestsOK == \A h \in Handlers : Sound(at[h], req[h], Target(h))

\* A row that is neither premium nor canceled has never been premium: the tier is
\* still free, and no request is about to raise it.
TierBehind ==
    /\ sub.plan = "premium" => sub.status = "active"
    /\ (sub.plan # "premium" /\ sub.status # "canceled") =>
           /\ tier = "free"
           /\ \A h \in Handlers : at[h] = "tier" => Target(h) = "free"

IInv == TypeOK /\ RequestsOK /\ TierBehind

----------------------------------------------------------------------------
(* Lemmas *)

\* Whatever the rows say, the invariant decides which of them getEffectivePlan uses.
LEMMA RowDecides == IInv => SubscriptionRules
  BY DEF IInv, TypeOK, TierBehind, SubscriptionRules, EffectivePlan, Row, NoRow, Plans

\* The event of a request keeps its kind while others are appended.
LEMMA EventsStay ==
    ASSUME IInv, NEW h \in Handlers, req'[h] = req[h], tagged' = tagged,
           \/ log' = log
           \/ \E c \in Customers, k \in Kinds : log' = Append(log, [kind |-> k, customer |-> c])
    PROVE  Target(h)' = Target(h) /\ Len(log)' >= Len(log)
  <1>1. req[h].event \in 0..Len(log) /\ log \in Seq(Event) /\ Len(log) \in Nat
    BY DEF IInv, TypeOK, RequestsOK, Sound
  <1>2. Len(log)' >= Len(log) /\ \A e \in 1..Len(log) : log'[e] = log[e]
    <2>1. CASE log' = log
      BY <1>1, <2>1
    <2>2. ASSUME NEW c \in Customers, NEW k \in Kinds,
                 log' = Append(log, [kind |-> k, customer |-> c])
          PROVE  Len(log)' >= Len(log) /\ \A e \in 1..Len(log) : log'[e] = log[e]
      <3>1. [kind |-> k, customer |-> c] \in Event
        BY DEF Event
      <3>. QED
        BY <1>1, <2>2, <3>1
    <2>. QED
      BY <2>1, <2>2
  <1>3. CASE req[h].event = 0
    BY <1>2, <1>3 DEF Target
  <1>4. CASE req[h].event # 0
    BY <1>1, <1>2, <1>4 DEF Target, Effect
  <1>. QED
    BY <1>2, <1>3, <1>4

\* Stripe appends an event.
LEMMA StripeKeeps ==
    ASSUME IInv, NEW c \in Customers, NEW state \in {"active", "unpaid", "ended"},
           NEW k \in Kinds, Happens(c, state, k), sessions' \subseteq sessions
    PROVE  IInv'
  <1>1. /\ log' = Append(log, [kind |-> k, customer |-> c]) /\ Len(log) < MaxEvents
        /\ UNCHANGED <<configured, tagged, sub, tier, recorded, customers, acked, at, req,
                       checkouts, duplicates, faults, alone, inOrder>>
    BY DEF Happens, db, counts
  <1>2. log' \in Seq(Event) /\ Len(log') = Len(log) + 1 /\ Len(log) \in Nat
    <2>1. [kind |-> k, customer |-> c] \in Event /\ log \in Seq(Event)
      BY DEF Event, IInv, TypeOK
    <2>. QED
      BY <1>1, <2>1
  <1>3. TypeOK'
    <2>1. stripe' \in [Customers -> {"none", "active", "unpaid", "ended"}]
      BY DEF Happens, IInv, TypeOK
    <2>2. Len(log') <= MaxEvents /\ 1..Len(log) \subseteq 1..Len(log')
      BY <1>1, <1>2, BillingAssumption
    <2>. QED
      BY <1>1, <1>2, <2>1, <2>2 DEF IInv, TypeOK
  <1>4. \A h \in Handlers : Target(h)' = Target(h) /\ Len(log)' >= Len(log)
    BY <1>1, EventsStay
  <1>5. RequestsOK'
    BY <1>1, <1>2, <1>4 DEF IInv, RequestsOK, Sound
  <1>6. TierBehind'
    BY <1>1, <1>4 DEF IInv, TierBehind
  <1>. QED
    BY <1>3, <1>5, <1>6 DEF IInv

LEMMA StripeStepKeeps ==
    ASSUME IInv, StripeStep
    PROVE  IInv'
  <1>. PICK c \in Customers : Pay(c) \/ Renew(c) \/ Notice(c) \/ Lapse(c) \/ Cancel(c)
    BY DEF StripeStep
  <1>1. PICK state \in {"active", "unpaid", "ended"}, k \in Kinds :
            Happens(c, state, k) /\ sessions' \subseteq sessions
    BY DEF Pay, Renew, Notice, Lapse, Cancel, Kinds
  <1>. QED
    BY <1>1, StripeKeeps

\* A request moves to step next with r: the others stay sound, and so does the
\* whole if r is and the rows fit.
LEMMA Moves ==
    ASSUME IInv, TypeOK', NEW h \in Handlers, NEW next, NEW r,
           at' = [at EXCEPT ![h] = next], req' = [req EXCEPT ![h] = r], log' = log,
           tagged' = tagged, Sound(next, r, Target(h)'),
           sub.plan = "premium" => sub'.plan = "premium" \/ sub'.status = "canceled",
           sub'.plan = "premium" => sub'.status = "active",
           (sub'.plan # "premium" /\ sub'.status # "canceled") =>
               /\ sub.plan # "premium" /\ sub.status # "canceled"
               /\ tier' = "free" /\ (next = "tier" => Target(h)' = "free")
    PROVE  IInv'
  <1>1. at'[h] = next /\ req'[h] = r
    BY DEF IInv, TypeOK
  <1>2. ASSUME NEW g \in Handlers, g # h
        PROVE  at'[g] = at[g] /\ req'[g] = req[g] /\ Target(g)' = Target(g)
    BY <1>2, EventsStay DEF IInv, TypeOK
  <1>3. RequestsOK'
    BY <1>1, <1>2 DEF IInv, RequestsOK, Sound
  <1>4. TierBehind'
    BY <1>1, <1>2 DEF IInv, TierBehind
  <1>. QED
    BY <1>3, <1>4 DEF IInv

\* What every step of a request leaves as it is, and the types that follow.
Around ==
    /\ configured' = configured /\ tagged' = tagged /\ log' = log
    /\ checkouts' \in 0..MaxCheckouts /\ duplicates' \in Nat /\ faults' \in Nat
    /\ alone' \in BOOLEAN /\ inOrder' \in BOOLEAN

LEMMA Typed ==
    ASSUME IInv, NEW h \in Handlers, NEW next \in Steps, NEW r \in Request,
           at' = [at EXCEPT ![h] = next], req' = [req EXCEPT ![h] = r], Around,
           sub' \in Row \cup {NoRow}, tier' \in Plans,
           customers' \in 0..MaxCustomers, sessions' \subseteq Customers, stripe' = stripe,
           acked' \subseteq 1..Len(log), recorded' \subseteq 1..Len(log)
    PROVE  TypeOK'
  BY DEF IInv, TypeOK, Around

LEMMA NoRequestOK == NoRequest \in Request /\ NoRequest.event = 0 /\ NoRequest.customer = 0
  BY BillingAssumption DEF NoRequest, Request

----------------------------------------------------------------------------
(* Requests *)

LEMMA BeginKeeps ==
    ASSUME IInv, NEW h \in Handlers, NEW e \in 0..Len(log),
           NEW first \in {"check", "sub", "read"}, Begin(h, e, first),
           first = "check" => e # 0, first = "sub" => e = 0,
           checkouts' \in 0..MaxCheckouts, duplicates' \in Nat, inOrder' \in BOOLEAN
    PROVE  IInv'
  <1>. DEFINE r == [event |-> e, customer |-> 0]
  <1>1. /\ at' = [at EXCEPT ![h] = first] /\ req' = [req EXCEPT ![h] = r]
        /\ UNCHANGED <<configured, tagged, sub, tier, recorded, customers, sessions, stripe, log,
                       acked, faults>>
    BY DEF Begin, db, remote
  <1>2. r \in Request /\ first \in Steps
    <2>1. Len(log) \in Nat /\ Len(log) <= MaxEvents /\ MaxEvents \in Nat
      BY BillingAssumption DEF IInv, TypeOK
    <2>. QED
      BY <2>1, BillingAssumption DEF Request, Steps
  <1>3. alone' \in BOOLEAN
    BY DEF Begin
  <1>4. Around
    BY <1>1, <1>3 DEF Around, IInv, TypeOK
  <1>5. TypeOK'
    BY <1>1, <1>2, <1>4, Typed DEF IInv, TypeOK
  <1>6. Target(h)' = IF e = 0 THEN "premium" ELSE Effect(e)'
    BY <1>1 DEF Target, IInv, TypeOK
  <1>7. Sound(first, r, Target(h)')
    BY <1>6 DEF Sound, Plans
  <1>. QED
    BY <1>1, <1>5, <1>7, Moves DEF IInv, TypeOK, TierBehind

LEMMA AbortKeeps ==
    ASSUME IInv, NEW h \in Handlers, Abort(h)
    PROVE  IInv'
  <1>1. /\ at' = [at EXCEPT ![h] = "idle"] /\ req' = [req EXCEPT ![h] = NoRequest]
        /\ UNCHANGED <<configured, tagged, sub, tier, recorded, customers, sessions, stripe, log,
                       acked, checkouts, duplicates, alone, inOrder>>
        /\ faults' \in Nat
    BY DEF Abort, db, remote, IInv, TypeOK
  <1>2. Around
    BY <1>1 DEF Around, IInv, TypeOK
  <1>3. TypeOK'
    BY <1>1, <1>2, NoRequestOK, Typed DEF IInv, TypeOK, Steps
  <1>4. Sound("idle", NoRequest, Target(h)')
    BY NoRequestOK DEF Sound, IInv, TypeOK
  <1>. QED
    BY <1>1, <1>3, <1>4, Moves DEF IInv, TypeOK, TierBehind

\* A step of a request that goes on with r, its own event in r.
LEMMA ProceedKeeps ==
    ASSUME IInv, NEW h \in Handlers, NEW here, NEW next \in Steps, NEW r \in Request,
           Proceed(h, here, next, r), r.event = req[h].event,
           next \in {"check", "record", "answer"} => r.event # 0,
           next \in {"sub", "tier"} => Target(h) \in Plans,
           next \in {"save", "session"} => r.customer \in Customers,
           log' = log, stripe' = stripe,
           sub' \in Row \cup {NoRow}, tier' \in Plans,
           customers' \in 0..MaxCustomers, sessions' \subseteq Customers,
           acked' \subseteq 1..Len(log), recorded' \subseteq 1..Len(log),
           sub.plan = "premium" => sub'.plan = "premium" \/ sub'.status = "canceled",
           sub'.plan = "premium" => sub'.status = "active",
           (sub'.plan # "premium" /\ sub'.status # "canceled") =>
               /\ sub.plan # "premium" /\ sub.status # "canceled"
               /\ tier' = "free" /\ (next = "tier" => Target(h) = "free")
    PROVE  IInv'
  <1>1. PICK q : q = IF next = "idle" THEN NoRequest ELSE r
    OBVIOUS
  <1>2. /\ at' = [at EXCEPT ![h] = next] /\ req' = [req EXCEPT ![h] = q]
        /\ Around /\ q \in Request /\ tagged' = tagged
    BY <1>1, NoRequestOK DEF Proceed, counts, Around, IInv, TypeOK
  <1>3. TypeOK'
    BY <1>2, Typed
  <1>4. req'[h] = q
    BY <1>2 DEF IInv, TypeOK
  <1>5. q.event \in 0..Len(log) /\ Len(log) \in Nat
    BY <1>1, NoRequestOK DEF IInv, TypeOK, RequestsOK, Sound
  <1>6. next # "idle" => Target(h)' = Target(h)
    BY <1>1, <1>2, <1>4 DEF Target, Effect
  <1>7. Sound(next, q, Target(h)')
    BY <1>1, <1>5, <1>6 DEF Sound
  <1>. QED
    BY <1>2, <1>3, <1>6, <1>7, Moves

LEMMA EventStepKeeps ==
    ASSUME IInv, NEW h \in Handlers, EventStep(h)
    PROVE  IInv'
  <1>. DEFINE r == req[h]
  <1>1. /\ r \in Request /\ r.event \in 0..Len(log) /\ log \in Seq(Event) /\ Len(log) \in Nat
        /\ sub \in Row \cup {NoRow} /\ tier \in Plans /\ customers \in 0..MaxCustomers
        /\ sessions \subseteq Customers /\ acked \subseteq 1..Len(log)
        /\ recorded \subseteq 1..Len(log) /\ Sound(at[h], r, Target(h))
    BY DEF IInv, TypeOK, RequestsOK, Sound
  <1>2. ASSUME Check(h) PROVE IInv'
    <2>1. PICK next \in {"answer", "record", "sub"} :
              Proceed(h, "check", next, r) /\ (next = "sub" => Effect(r.event) # "none")
      BY <1>2 DEF Check, CheckThen, Await
    <2>2. r.event # 0 /\ UNCHANGED <<sub, tier, recorded, customers, sessions, stripe, log, acked>>
      BY <1>1, <1>2 DEF Check, CheckThen, Await, Proceed, Sound, db, remote
    <2>3. next = "sub" => Target(h) \in Plans
      BY <2>1, <2>2 DEF Target, Effect, Plans
    <2>. QED
      BY <1>1, <2>1, <2>2, <2>3, ProceedKeeps DEF IInv, TierBehind, Steps
  <1>3. ASSUME WriteSub(h) PROVE IInv'
    <2>1. /\ Proceed(h, "sub", "tier", r)
          /\ UNCHANGED <<tier, recorded, customers, sessions, stripe, log, acked>>
      BY <1>3 DEF WriteSub, Await, remote
    <2>2. Target(h) \in Plans
      BY <1>1, <2>1 DEF Proceed, Sound
    <2>3. Payer(h) \in 0..MaxCustomers
      <3>1. CASE r.event = 0
        BY <3>1, BillingAssumption DEF Payer
      <3>2. CASE r.event # 0
        <4>1. r.event \in 1..Len(log)
          BY <1>1, <3>2
        <4>2. log[r.event] \in Event
          BY <1>1, <4>1
        <4>. QED
          BY <3>2, <4>2, BillingAssumption DEF Payer, Event, Customers
      <3>. QED
        BY <3>1, <3>2
    <2>4. CASE Target(h) = "premium"
      <3>1. sub' = [plan |-> "premium", status |-> "active", customer |-> Payer(h)]
        BY <1>3, <2>4 DEF WriteSub
      <3>2. sub' \in Row
        BY <2>3, <3>1 DEF Row, Plans
      <3>. QED
        BY <1>1, <2>1, <2>2, <2>4, <3>1, <3>2, ProceedKeeps DEF Steps
    <2>5. CASE Target(h) = "free"
      <3>1. sub' = IF sub = NoRow THEN NoRow
                   ELSE [sub EXCEPT !.plan = "free", !.status = "canceled"]
        BY <1>3, <2>5 DEF WriteSub
      <3>2. CASE sub = NoRow
        BY <1>1, <2>1, <2>2, <2>5, <3>1, <3>2, ProceedKeeps
           DEF Steps, IInv, TierBehind, NoRow, Plans
      <3>3. CASE sub # NoRow
        <4>1. sub' \in Row /\ sub'.plan = "free" /\ sub'.status = "canceled"
          BY <1>1, <3>1, <3>3 DEF Row, Plans
        <4>. QED
          BY <1>1, <2>1, <2>2, <4>1, ProceedKeeps DEF Steps
      <3>. QED
        BY <3>2, <3>3
    <2>. QED
      BY <2>2, <2>4, <2>5 DEF Plans
  <1>4. ASSUME WriteTier(h) PROVE IInv'
    <2>1. PICK next \in {"idle", "record"} :
              Proceed(h, "tier", next, r) /\ (next = "record" => r.event # 0)
      BY <1>4 DEF WriteTier, Await
    <2>2. tier' = Target(h) /\ Target(h) \in Plans /\ at[h] = "tier"
          /\ UNCHANGED <<sub, recorded, customers, sessions, stripe, log, acked>>
      BY <1>1, <1>4, <2>1 DEF WriteTier, Proceed, Sound, remote
    <2>. QED
      BY <1>1, <2>1, <2>2, ProceedKeeps DEF IInv, TierBehind, Steps
  <1>5. ASSUME Record(h) PROVE IInv'
    <2>1. PICK next \in {"idle", "answer"} : Proceed(h, "record", next, r)
      BY <1>5 DEF Record, Await
    <2>2. r.event # 0 /\ recorded' = recorded \cup {r.event}
          /\ UNCHANGED <<sub, tier, customers, sessions, stripe, log, acked>>
      BY <1>1, <1>5, <2>1 DEF Record, Proceed, Sound, remote
    <2>3. recorded' \subseteq 1..Len(log)
      <3>1. r.event \in 1..Len(log)
        BY <1>1, <2>2
      <3>. QED
        BY <1>1, <2>2, <3>1
    <2>. QED
      BY <1>1, <2>1, <2>2, <2>3, ProceedKeeps DEF IInv, TierBehind, Steps
  <1>6. ASSUME Answer(h) PROVE IInv'
    <2>1. Proceed(h, "answer", "idle", r)
      BY <1>6 DEF Answer, Await
    <2>2. r.event # 0 /\ acked' = acked \cup {r.event}
          /\ UNCHANGED <<sub, tier, recorded, customers, sessions, stripe, log>>
      BY <1>1, <1>6, <2>1 DEF Answer, Proceed, Sound, remote, db
    <2>3. acked' \subseteq 1..Len(log)
      <3>1. r.event \in 1..Len(log)
        BY <1>1, <2>2
      <3>. QED
        BY <1>1, <2>2, <3>1
    <2>. QED
      BY <1>1, <2>1, <2>2, <2>3, ProceedKeeps DEF IInv, TierBehind, Steps
  <1>. QED
    BY <1>2, <1>3, <1>4, <1>5, <1>6 DEF EventStep

LEMMA CheckoutStepKeeps ==
    ASSUME IInv, NEW h \in Handlers, CheckoutStep(h)
    PROVE  IInv'
  <1>. DEFINE r == req[h]
  <1>1. /\ r \in Request /\ sub \in Row \cup {NoRow} /\ tier \in Plans
        /\ customers \in 0..MaxCustomers /\ MaxCustomers \in Nat
        /\ sessions \subseteq Customers /\ acked \subseteq 1..Len(log)
        /\ recorded \subseteq 1..Len(log) /\ Sound(at[h], r, Target(h))
    BY BillingAssumption DEF IInv, TypeOK, RequestsOK
  <1>2. ASSUME ReadSub(h) PROVE IInv'
    <2>1. PICK next \in {"session", "customer"} :
              /\ Proceed(h, "read", next, [r EXCEPT !.customer = sub.customer])
              /\ next = "session" => sub.customer # 0
      BY <1>2 DEF ReadSub
    <2>2. UNCHANGED <<sub, tier, recorded, customers, sessions, stripe, log, acked>>
      BY <1>2 DEF ReadSub, db, remote
    <2>3. sub.customer \in 0..MaxCustomers
      BY <1>1 DEF Row, NoRow
    <2>4. [r EXCEPT !.customer = sub.customer] \in Request
      BY <1>1, <2>3 DEF Request
    <2> DEFINE q == [r EXCEPT !.customer = sub.customer]
    <2>5. /\ q.event = r.event /\ q.customer = sub.customer
          /\ next = "session" => q.customer \in Customers
      BY <1>1, <2>1, <2>3 DEF Customers, Request
    <2>6. /\ sub.plan = "premium" => sub.status = "active"
          /\ (sub.plan # "premium" /\ sub.status # "canceled") => tier = "free"
      BY DEF IInv, TierBehind
    <2>7. Proceed(h, "read", next, q) /\ q \in Request
      BY <2>1, <2>4
    <2>8. /\ sub' = sub /\ tier' = tier /\ log' = log /\ stripe' = stripe
          /\ customers' = customers /\ sessions' = sessions
          /\ acked' = acked /\ recorded' = recorded /\ next \in Steps
          /\ next \notin {"check", "record", "answer", "sub", "tier", "save"}
      BY <2>1, <2>2 DEF Steps
    <2>. HIDE DEF q
    <2>. QED
      BY <1>1, <2>5, <2>6, <2>7, <2>8, ProceedKeeps
  <1>3. ASSUME CreateCustomer(h) PROVE IInv'
    <2>1. /\ Proceed(h, "customer", "save", [r EXCEPT !.customer = customers + 1])
          /\ customers < MaxCustomers /\ customers' = customers + 1
          /\ UNCHANGED <<sub, tier, recorded, sessions, stripe, log, acked>>
      BY <1>3 DEF CreateCustomer, db
    <2>2. customers + 1 \in Customers /\ customers' \in 0..MaxCustomers
      BY <1>1, <2>1 DEF Customers
    <2>3. [r EXCEPT !.customer = customers + 1] \in Request
      BY <1>1, <2>2 DEF Request, Customers
    <2>. QED
      BY <1>1, <2>1, <2>2, <2>3, ProceedKeeps DEF IInv, TierBehind, Steps, Request
  <1>4. ASSUME SaveCustomer(h) PROVE IInv'
    <2>1. /\ Proceed(h, "save", "session", r) /\ r.customer \in Customers
          /\ UNCHANGED <<tier, recorded, customers, sessions, stripe, log, acked>>
      BY <1>1, <1>4 DEF SaveCustomer, Await, Proceed, Sound, remote
    <2>2. CASE sub = NoRow
      <3>1. sub' = [plan |-> "free", status |-> "active", customer |-> r.customer]
        BY <1>4, <2>2 DEF SaveCustomer
      <3>2. sub' \in Row /\ sub.plan = "none" /\ sub.status = "none"
        BY <1>1, <2>1, <2>2, <3>1 DEF Row, NoRow, Plans, Customers
      <3>. QED
        BY <1>1, <2>1, <3>1, <3>2, ProceedKeeps DEF IInv, TierBehind, Steps
    <2>3. CASE sub # NoRow
      <3>1. sub' = [sub EXCEPT !.customer = r.customer]
        BY <1>4, <2>3 DEF SaveCustomer
      <3>2. sub' \in Row /\ sub'.plan = sub.plan /\ sub'.status = sub.status
        BY <1>1, <2>1, <2>3, <3>1 DEF Row, Customers
      <3>. QED
        BY <1>1, <2>1, <3>2, ProceedKeeps DEF IInv, TierBehind, Steps
    <2>. QED
      BY <2>2, <2>3
  <1>5. ASSUME OpenSession(h) PROVE IInv'
    <2>1. /\ Proceed(h, "session", "idle", r) /\ r.customer \in Customers
          /\ sessions' = sessions \cup {r.customer}
          /\ UNCHANGED <<sub, tier, recorded, customers, stripe, log, acked>>
      BY <1>1, <1>5 DEF OpenSession, Await, Proceed, Sound, db
    <2>2. sessions' \subseteq Customers
      BY <1>1, <2>1
    <2>. QED
      BY <1>1, <2>1, <2>2, ProceedKeeps DEF IInv, TierBehind, Steps
  <1>. QED
    BY <1>2, <1>3, <1>4, <1>5 DEF CheckoutStep

----------------------------------------------------------------------------
(* The theorems *)

LEMMA Inductive == Spec => []IInv
  <1>1. Init => IInv
    <2>. SUFFICES ASSUME Init PROVE IInv
      OBVIOUS
    <2>1. /\ sub = NoRow /\ tier = "free" /\ log = <<>> /\ Len(log) = 0
          /\ at = [h \in Handlers |-> "idle"] /\ req = [h \in Handlers |-> NoRequest]
      BY DEF Init
    <2>2. TypeOK
      <3>1. 0 \in 0..MaxCustomers /\ 0 \in 0..MaxCheckouts /\ 0 <= MaxEvents
        BY BillingAssumption
      <3>2. at \in [Handlers -> Steps] /\ req \in [Handlers -> Request]
        BY <2>1, NoRequestOK DEF Steps
      <3>3. log \in Seq(Event)
        BY <2>1
      <3>4. stripe \in [Customers -> {"none", "active", "unpaid", "ended"}]
        BY DEF Init
      <3>. QED
        BY <2>1, <3>1, <3>2, <3>3, <3>4 DEF Init, TypeOK, Plans
    <2>3. RequestsOK /\ TierBehind
      BY <2>1, NoRequestOK DEF RequestsOK, Sound, TierBehind, NoRow
    <2>. QED
      BY <2>2, <2>3 DEF IInv
  <1>2. IInv /\ [Next]_vars => IInv'
    <2>. SUFFICES ASSUME IInv, [Next]_vars PROVE IInv'
      OBVIOUS
    <2>1. CASE UNCHANGED vars
      <3>1. \A h \in Handlers : Target(h)' = Target(h)
        BY <2>1 DEF vars, Target, Effect
      <3>. QED
        BY <2>1, <3>1 DEF vars, IInv, TypeOK, RequestsOK, Sound, TierBehind
    <2>2. CASE StripeStep
      BY <2>2, StripeStepKeeps
    <2>3. ASSUME NEW h \in Handlers, NEW e \in 1..Len(log), Deliver(h, e) PROVE IInv'
      <3>1. duplicates' \in Nat /\ inOrder' \in BOOLEAN /\ checkouts' \in 0..MaxCheckouts
        BY <2>3 DEF Deliver, IInv, TypeOK
      <3>2. e \in 0..Len(log) /\ e # 0
        BY <2>3 DEF IInv, TypeOK
      <3>3. Begin(h, e, "check")
        BY <2>3 DEF Deliver
      <3>. QED
        BY <3>1, <3>2, <3>3, BeginKeeps
    <2>4. ASSUME NEW h \in Handlers, CheckoutBegins(h) PROVE IInv'
      <3>1. duplicates' \in Nat /\ inOrder' \in BOOLEAN /\ checkouts' \in 0..MaxCheckouts
        BY <2>4, BillingAssumption DEF CheckoutBegins, IInv, TypeOK
      <3>2. 0 \in 0..Len(log)
        BY DEF IInv, TypeOK
      <3>3. PICK first \in {"read", "sub"} : Begin(h, 0, first)
        BY <2>4 DEF CheckoutBegins
      <3>. QED
        BY <3>1, <3>2, <3>3, BeginKeeps
    <2>5. ASSUME NEW h \in Handlers, Abort(h) \/ EventStep(h) \/ CheckoutStep(h) PROVE IInv'
      BY <2>5, AbortKeeps, EventStepKeeps, CheckoutStepKeeps
    <2>. QED
      BY <2>1, <2>2, <2>3, <2>4, <2>5 DEF Next
  <1>. QED
    BY <1>1, <1>2, PTL DEF Spec

\* Rows, events, requests and counters keep their types under every interleaving of
\* webhooks, checkouts and failures.
THEOREM TypeCorrect == Spec => []TypeOK
  <1>1. IInv => TypeOK
    BY DEF IInv
  <1>. QED
    BY Inductive, <1>1, PTL

\* The subscriptions row alone decides the effective plan, though two statements write
\* the row and the tier, webhooks overlap, repeat and come in any order, and any of
\* them may stop between the two.
THEOREM PlanIsThatOfTheRow == Spec => []SubscriptionRules
  BY Inductive, RowDecides, PTL

----------------------------------------------------------------------------
(* One request after the other *)

\* As long as alone holds, no two requests are in flight.
OneByOne == alone => \A g, h \in Open : g = h

\* What is answered with 200 is recorded.
Answered ==
    /\ acked \subseteq recorded
    /\ \A h \in Handlers : at[h] = "answer" => req[h].event \in recorded

Premium == sub.plan = "premium"
Agrees == tier = EffectivePlan

\* Events that have an effect and whose last statement is not done.
Pending == {e \in 1..Len(log) : e \notin recorded /\ Effect(e) # "none"}

\* What holds of the event e of the only request, at step s.
HalfWay(s, e) ==
    /\ s \in {"sub", "tier", "record"} => e # 0 /\ e \notin recorded
    /\ s \in {"sub", "tier"} => Effect(e) # "none"
    /\ s = "tier" => (Effect(e) = "premium" <=> Premium)
    /\ s = "record" => Agrees \/ Effect(e) = "none"

\* Row and tier agree, or an event that was cut off between the two will be sent again.
Caught ==
    (alone /\ configured) =>
        /\ \A h \in Handlers : HalfWay(at[h], req[h].event)
        /\ Agrees \/ Pending # {}

\* What the first n events make of the plan: some one granted it, none after took it.
Standing(n) == \E i \in 1..n : /\ Effect(i) = "premium"
                               /\ \A j \in (i + 1)..n : Effect(j) # "free"

Late(n, s, e) ==
    /\ s # "idle" => e <= n + 1
    /\ s \in {"tier", "record"} => (Premium <=> Standing(n + 1))

\* The first n events are answered.  The row is what they make of it, or what the
\* next one does, which is in work, was cut off or could not be answered.
Upto(n) ==
    /\ acked = 1..n /\ recorded \subseteq 1..(n + 1)
    /\ (Premium <=> Standing(n)) \/ (n < Len(log) /\ (Premium <=> Standing(n + 1)))
    /\ n + 1 \in recorded => (Premium <=> Standing(n + 1))
    /\ \A h \in Handlers : Late(n, at[h], req[h].event)

InStep == (alone /\ configured /\ inOrder) => \E n \in 0..Len(log) : Upto(n)

\* The customer has been to the checkout.
Used(c) == c \in sessions \/ stripe[c] # "none" \/ \E e \in 1..Len(log) : log[e].customer = c

Payee(s, c) ==
    /\ s \in {"customer", "save"} => sub.customer = 0
    /\ s = "session" => sub.customer = c

\* Only the customer in the row has: a customer that was created and not saved has
\* no session.
OneCustomer ==
    (alone /\ configured) =>
        /\ \A c \in Customers : Used(c) => sub.customer = c
        /\ \A h \in Handlers : Payee(at[h], req[h].customer)

\* Stripe tells all it does.
Told == (tagged /\ alone /\ configured) => (Active # {} <=> Standing(Len(log)))

Orderly == OneByOne /\ Answered /\ Caught /\ InStep /\ OneCustomer /\ Told

----------------------------------------------------------------------------
(* Lemmas about the events *)

LEMMA EffectType == \A e : Effect(e) \in {"premium", "free", "none"}
  BY DEF Effect

LEMMA StandingNext ==
    ASSUME NEW n \in Nat
    PROVE  Standing(n + 1) <=> \/ Effect(n + 1) = "premium"
                               \/ Standing(n) /\ Effect(n + 1) # "free"
  <1>1. ASSUME Effect(n + 1) = "premium" PROVE Standing(n + 1)
    BY <1>1 DEF Standing
  <1>2. ASSUME Standing(n), Effect(n + 1) # "free" PROVE Standing(n + 1)
    <2>1. PICK i \in 1..n : Effect(i) = "premium" /\ \A j \in (i + 1)..n : Effect(j) # "free"
      BY <1>2 DEF Standing
    <2>2. \A j \in (i + 1)..(n + 1) : j \in (i + 1)..n \/ j = n + 1
      BY <2>1
    <2>. QED
      BY <1>2, <2>1, <2>2 DEF Standing
  <1>3. ASSUME Standing(n + 1), Effect(n + 1) # "premium"
        PROVE  Standing(n) /\ Effect(n + 1) # "free"
    <2>1. PICK i \in 1..(n + 1) :
              Effect(i) = "premium" /\ \A j \in (i + 1)..(n + 1) : Effect(j) # "free"
      BY <1>3 DEF Standing
    <2>2. i \in 1..n
      BY <1>3, <2>1
    <2>. QED
      BY <2>1, <2>2 DEF Standing
  <1>. QED
    BY <1>1, <1>2, <1>3

Recurrence == \A n \in Nat : Standing(n + 1) <=> \/ Effect(n + 1) = "premium"
                                                 \/ Standing(n) /\ Effect(n + 1) # "free"

LEMMA RecurrenceNow == Recurrence
  BY StandingNext DEF Recurrence

LEMMA RecurrenceThen == Recurrence'
  BY RecurrenceNow, PTL

\* The log is only appended to.
Grows == \/ log' = log
         \/ \E c \in Customers, k \in Kinds : log' = Append(log, [kind |-> k, customer |-> c])

LEMMA LogGrows ==
    ASSUME IInv, Grows, tagged' = tagged
    PROVE  /\ Len(log) \in Nat /\ Len(log)' \in Nat /\ Len(log)' >= Len(log)
           /\ \A e \in 1..Len(log) : log'[e] = log[e] /\ Effect(e)' = Effect(e)
           /\ \A n \in 0..Len(log) : Standing(n)' = Standing(n)
  <1>1. log \in Seq(Event) /\ Len(log) \in Nat
    BY DEF IInv, TypeOK
  <1>2. Len(log)' \in Nat /\ Len(log)' >= Len(log) /\ \A e \in 1..Len(log) : log'[e] = log[e]
    <2>1. CASE log' = log
      BY <1>1, <2>1
    <2>2. ASSUME NEW c \in Customers, NEW k \in Kinds,
                 log' = Append(log, [kind |-> k, customer |-> c])
          PROVE  /\ Len(log)' \in Nat /\ Len(log)' >= Len(log)
                 /\ \A e \in 1..Len(log) : log'[e] = log[e]
      <3>1. [kind |-> k, customer |-> c] \in Event
        BY DEF Event
      <3>. QED
        BY <1>1, <2>2, <3>1
    <2>. QED
      BY <2>1, <2>2 DEF Grows
  <1>3. \A e \in 1..Len(log) : Effect(e)' = Effect(e)
    BY <1>2 DEF Effect
  <1>4. \A n \in 0..Len(log) : Standing(n)' = Standing(n)
    <2>1. SUFFICES ASSUME NEW n \in 0..Len(log) PROVE Standing(n)' = Standing(n)
      OBVIOUS
    <2>2. \A i \in 1..n : Effect(i)' = Effect(i) /\ \A j \in (i + 1)..n : Effect(j)' = Effect(j)
      BY <1>1, <1>3, <2>1
    <2>. QED
      BY <2>2 DEF Standing
  <1>. QED
    BY <1>1, <1>2, <1>3, <1>4

----------------------------------------------------------------------------
(* Requests come and go *)

\* How a step moves the requests: one begins, goes on or ends.
Moved(h, next) ==
    /\ at' = [at EXCEPT ![h] = next]
    /\ \/ at[h] = "idle" /\ alone' = (alone /\ Open = {})
       \/ at[h] # "idle" /\ alone' = alone

LEMMA OneByOneMoves ==
    ASSUME IInv, OneByOne, NEW h \in Handlers, NEW next, Moved(h, next)
    PROVE  /\ OneByOne'
           /\ alone' => alone
           /\ alone' => \A g \in Handlers : g # h => at[g] = "idle" /\ at'[g] = "idle"
  <1>1. at' = [at EXCEPT ![h] = next] /\ at \in [Handlers -> Steps]
    BY DEF Moved, IInv, TypeOK
  <1>2. alone' => alone
    BY DEF Moved
  <1>3. alone' => \A g \in Handlers : g # h => at[g] = "idle"
    BY DEF Moved, OneByOne, Open
  <1>4. alone' => \A g \in Handlers : g # h => at'[g] = "idle"
    BY <1>1, <1>3
  <1>5. OneByOne'
    BY <1>4 DEF OneByOne, Open
  <1>. QED
    BY <1>2, <1>3, <1>4, <1>5

\* The invariant after a step of h to next, which then works on e and c.
LEMMA OrderlyMoves ==
    ASSUME IInv, IInv', OneByOne, NEW h \in Handlers, NEW next, NEW r, Moved(h, next),
           req' = [req EXCEPT ![h] = r], log' = log, configured' = configured,
           tagged' = tagged,
           acked' \subseteq recorded', recorded \subseteq recorded',
           \A g \in Handlers : at[g] = "answer" => req[g].event \in recorded,
           next = "answer" => r.event \in recorded',
           (alone' /\ configured) => /\ next # "idle" => HalfWay(next, r.event)'
                                     /\ Agrees' \/ Pending' # {}
                                     /\ \A c \in Customers : Used(c)' => sub'.customer = c
                                     /\ next # "idle" => Payee(next, r.customer)',
           (alone' /\ configured /\ inOrder') =>
               \E n \in 0..Len(log) :
                   /\ acked' = 1..n /\ recorded' \subseteq 1..(n + 1)
                   /\ \/ Premium' <=> Standing(n)
                      \/ n < Len(log) /\ (Premium' <=> Standing(n + 1))
                   /\ n + 1 \in recorded' => (Premium' <=> Standing(n + 1))
                   /\ next # "idle" => r.event <= n + 1
                   /\ next \in {"tier", "record"} => (Premium' <=> Standing(n + 1)),
           Told, stripe' = stripe
    PROVE  Orderly'
  <1>1. /\ OneByOne'
        /\ alone' => alone
        /\ alone' => \A g \in Handlers : g # h => at'[g] = "idle"
    BY OneByOneMoves
  <1>2. at'[h] = next /\ req'[h] = r
    BY DEF Moved, IInv, TypeOK
  <1>3. \A g \in Handlers : g # h => at'[g] = at[g] /\ req'[g] = req[g]
    BY DEF Moved, IInv, TypeOK
  <1>4. Answered'
    BY <1>2, <1>3 DEF Answered
  <1>5. Caught'
    <2>1. SUFFICES ASSUME alone', configured, NEW g \in Handlers
                   PROVE  HalfWay(at[g], req[g].event)'
      BY DEF Caught
    <2>2. CASE at'[g] = "idle"
      BY <2>2 DEF HalfWay
    <2>3. CASE at'[g] # "idle"
      <3>1. g = h
        BY <1>1, <2>1, <2>3
      <3>2. HalfWay(next, r.event)' /\ at'[g] = next /\ req'[g] = r
        BY <1>2, <2>1, <2>3, <3>1
      <3>. QED
        BY <3>2 DEF HalfWay, Effect, Agrees, Premium, EffectivePlan
    <2>. QED
      BY <2>2, <2>3
  <1>6. \A k : Standing(k)' = Standing(k)
    BY DEF Standing, Effect
  <1>7. InStep'
    <2>1. SUFFICES ASSUME alone', configured, inOrder'
                   PROVE  \E n \in 0..Len(log) : Upto(n)'
      BY DEF InStep
    <2>2. PICK n \in 0..Len(log) :
                   /\ acked' = 1..n /\ recorded' \subseteq 1..(n + 1)
                   /\ \/ Premium' <=> Standing(n)
                      \/ n < Len(log) /\ (Premium' <=> Standing(n + 1))
                   /\ n + 1 \in recorded' => (Premium' <=> Standing(n + 1))
                   /\ next # "idle" => r.event <= n + 1
                   /\ next \in {"tier", "record"} => (Premium' <=> Standing(n + 1))
      BY <2>1
    <2>3. \A g \in Handlers : Late(n, at[g], req[g].event)'
      BY <1>1, <1>2, <1>6, <2>1, <2>2 DEF Late
    <2>. QED
      BY <1>6, <2>2, <2>3 DEF Upto
  <1>8. OneCustomer'
    <2>1. SUFFICES ASSUME alone', configured, NEW g \in Handlers
                   PROVE  Payee(at[g], req[g].customer)'
      BY DEF OneCustomer
    <2>2. CASE at'[g] = "idle"
      BY <2>2 DEF Payee
    <2>3. CASE at'[g] # "idle"
      <3>1. g = h
        BY <1>1, <2>1, <2>3
      <3>2. Payee(next, r.customer)' /\ at'[g] = next /\ req'[g] = r
        BY <1>2, <2>1, <2>3, <3>1
      <3>. QED
        BY <3>2 DEF Payee
    <2>. QED
      BY <2>2, <2>3
  <1>9. Told'
    BY <1>1, <1>6 DEF Told, Active
  <1>. QED
    BY <1>1, <1>4, <1>5, <1>7, <1>8, <1>9 DEF Orderly

\* What the only request knows of the rows: its event is the next to be answered.
LEMMA Now ==
    ASSUME IInv, Orderly, alone, configured, NEW h \in Handlers
    PROVE  /\ HalfWay(at[h], req[h].event) /\ Payee(at[h], req[h].customer)
           /\ Agrees \/ Pending # {}
           /\ \A c \in Customers : Used(c) => sub.customer = c
  BY DEF Orderly, Caught, OneCustomer

LEMMA NextEvent ==
    ASSUME IInv, Orderly, alone, configured, inOrder
    PROVE  \E n \in 0..Len(log) :
              /\ Upto(n) /\ n \in Nat
              /\ \A h \in Handlers : /\ at[h] # "idle" => req[h].event <= n + 1
                                     /\ at[h] \in {"sub", "tier", "record"} => req[h].event = n + 1
  <1>1. PICK n \in 0..Len(log) : Upto(n)
    BY DEF Orderly, InStep
  <1>2. n \in Nat /\ acked = 1..n /\ acked \subseteq recorded
    BY <1>1 DEF Upto, Orderly, Answered
  <1>3. ASSUME NEW h \in Handlers, at[h] # "idle" PROVE req[h].event <= n + 1
    BY <1>1, <1>3 DEF Upto, Late
  <1>4. ASSUME NEW h \in Handlers, at[h] \in {"sub", "tier", "record"}
        PROVE  req[h].event = n + 1
    <2>1. req[h].event \in 0..Len(log) /\ Len(log) \in Nat
      BY DEF IInv, TypeOK, RequestsOK, Sound
    <2>2. req[h].event # 0 /\ req[h].event \notin recorded
      BY <1>4, Now DEF HalfWay
    <2>. QED
      BY <1>2, <1>3, <1>4, <2>1, <2>2
  <1>. QED
    BY <1>1, <1>2, <1>3, <1>4

\* What follows of a step of h from here to next that remembers r.
LEMMA Went ==
    ASSUME IInv, Orderly, NEW h \in Handlers, NEW here \in Steps \ {"idle"}, NEW next, NEW r,
           Proceed(h, here, next, r)
    PROVE  /\ at[h] = here /\ Moved(h, next) /\ UNCHANGED <<configured, tagged, alone, inOrder>>
           /\ req' = [req EXCEPT ![h] = IF next = "idle" THEN NoRequest ELSE r]
           /\ Answered /\ OneByOne /\ Told
           /\ log \in Seq(Event) /\ Len(log) \in Nat /\ req[h] \in Request
           /\ req[h].event \in 0..Len(log) /\ Sound(here, req[h], Target(h))
  BY DEF Proceed, Moved, Orderly, IInv, TypeOK, RequestsOK, Sound

LEMMA CheckOrderly ==
    ASSUME IInv, IInv', Orderly, NEW h \in Handlers, Check(h)
    PROVE  Orderly'
  <1>1. PICK next \in {"answer", "record", "sub"} :
           /\ Proceed(h, "check", next, req[h])
           /\ next = "answer" => req[h].event \in recorded
           /\ next # "answer" => req[h].event \notin recorded
           /\ next = "record" => Effect(req[h].event) = "none"
           /\ next = "sub" => Effect(req[h].event) # "none"
    BY DEF Check, CheckThen, Await
  <1>2. UNCHANGED <<sub, tier, recorded, customers, sessions, stripe, log, acked>>
    BY DEF Check, CheckThen, db, remote
  <1>3. PICK r : r = req[h]
    OBVIOUS
  <1>4. /\ at[h] = "check" /\ Moved(h, next) /\ UNCHANGED <<configured, tagged, alone, inOrder>>
        /\ req' = [req EXCEPT ![h] = r] /\ Answered /\ OneByOne /\ Told /\ Len(log) \in Nat
        /\ r.event \in 1..Len(log)
    <2>1. "check" \in Steps \ {"idle"} /\ next # "idle"
      BY <1>1 DEF Steps
    <2>2. /\ at[h] = "check" /\ Moved(h, next)
          /\ UNCHANGED <<configured, tagged, alone, inOrder>>
          /\ req' = [req EXCEPT ![h] = r] /\ Answered /\ OneByOne /\ Told
          /\ Len(log) \in Nat /\ r.event \in 0..Len(log) /\ Sound("check", r, Target(h))
      BY <1>1, <1>3, <2>1, Went
    <2>. QED
      BY <2>2 DEF Sound
  <1>5. \A e : Effect(e)' = Effect(e)
    BY <1>2, <1>4 DEF Effect
  <1>6. Agrees' = Agrees /\ Pending' = Pending /\ Premium' = Premium
        /\ \A c \in Customers : Used(c)' = Used(c)
    BY <1>2, <1>5 DEF Agrees, EffectivePlan, Pending, Premium, Used
  <1>7. ASSUME alone, configured
        PROVE  /\ HalfWay(next, r.event)'
               /\ Agrees' \/ Pending' # {}
               /\ \A c \in Customers : Used(c)' => sub'.customer = c
               /\ Payee(next, r.customer)'
    BY <1>1, <1>2, <1>3, <1>4, <1>5, <1>6, <1>7, Now DEF HalfWay, Payee
  <1>8. ASSUME alone, configured, inOrder
        PROVE  \E n \in 0..Len(log) :
                   /\ acked = 1..n /\ recorded \subseteq 1..(n + 1)
                   /\ \/ Premium <=> Standing(n)
                      \/ n < Len(log) /\ (Premium <=> Standing(n + 1))
                   /\ n + 1 \in recorded => (Premium <=> Standing(n + 1))
                   /\ r.event <= n + 1
                   /\ next \in {"tier", "record"} => (Premium <=> Standing(n + 1))
    <2>1. PICK n \in 0..Len(log) :
             /\ Upto(n) /\ n \in Nat
             /\ r.event <= n + 1
      BY <1>3, <1>4, <1>8, NextEvent
    <2>2. ASSUME next = "record" PROVE Premium <=> Standing(n + 1)
      <3>1. Effect(n + 1) = "none"
        <4>1. r.event \notin recorded /\ acked \subseteq recorded /\ acked = 1..n
          BY <1>1, <1>3, <1>4, <2>1, <2>2 DEF Answered, Upto
        <4>2. r.event = n + 1
          BY <1>4, <2>1, <4>1
        <4>. QED
          BY <1>1, <1>3, <2>2, <4>2
      <3>2. Standing(n + 1) <=> Standing(n)
        BY <2>1, <3>1, StandingNext
      <3>. QED
        BY <2>1, <3>2 DEF Upto
    <2>. QED
      BY <1>1, <2>1, <2>2 DEF Upto
  <1>9. next = "answer" => r.event \in recorded
    BY <1>1, <1>3
  <1>. QED
    BY <1>1, <1>2, <1>4, <1>6, <1>7, <1>8, <1>9, OrderlyMoves DEF Answered

\* The first write: the row is what the event makes of it, the tier may not be.
LEMMA WriteSubOrderly ==
    ASSUME IInv, IInv', Orderly, NEW h \in Handlers, WriteSub(h)
    PROVE  Orderly'
  <1>1. /\ Proceed(h, "sub", "tier", req[h])
        /\ UNCHANGED <<tier, recorded, customers, sessions, stripe, log, acked>>
    BY DEF WriteSub, Await, remote
  <1>3. PICK r : r = req[h]
    OBVIOUS
  <1>4. /\ at[h] = "sub" /\ Moved(h, "tier") /\ UNCHANGED <<configured, tagged, alone, inOrder>>
        /\ req' = [req EXCEPT ![h] = r] /\ Answered /\ OneByOne /\ Told /\ Len(log) \in Nat
        /\ r.event \in 0..Len(log) /\ log \in Seq(Event)
    BY <1>1, <1>3, Went DEF Steps
  <1>5. \A e : Effect(e)' = Effect(e)
    BY <1>1, <1>4 DEF Effect
  <1>6. /\ Target(h) = "premium" => Premium' /\ sub'.customer = Payer(h)
        /\ Target(h) = "free" => ~Premium' /\ sub'.customer = sub.customer
        /\ Target(h) \in {"premium", "free"}
    <2>1. /\ Target(h) \in {"premium", "free"} /\ sub \in Row \cup {NoRow}
      BY DEF WriteSub, IInv, TypeOK
    <2>2. CASE Target(h) = "premium"
      BY <2>2 DEF WriteSub, Premium
    <2>3. CASE Target(h) = "free"
      <3>1. sub' = IF sub = NoRow THEN NoRow ELSE [sub EXCEPT !.plan = "free", !.status = "canceled"]
        BY <2>3 DEF WriteSub
      <3>2. CASE sub = NoRow
        BY <2>3, <3>1, <3>2 DEF NoRow, Premium
      <3>3. CASE sub # NoRow
        <4>1. sub'.plan = "free" /\ sub'.customer = sub.customer
          BY <2>1, <3>1, <3>3 DEF Row
        <4>. QED
          BY <2>3, <4>1 DEF Premium
      <3>. QED
        BY <3>2, <3>3
    <2>. QED
      BY <2>1, <2>2, <2>3
  <1>7. ASSUME alone, configured
        PROVE  /\ HalfWay("tier", r.event)' /\ Pending' # {}
               /\ \A c \in Customers : Used(c)' => sub'.customer = c
               /\ Payee("tier", r.customer)' /\ Target(h) = Effect(r.event)
    <2>1. r.event # 0 /\ r.event \notin recorded /\ Effect(r.event) # "none"
      BY <1>3, <1>4, <1>7, Now DEF HalfWay
    <2>2. Target(h) = Effect(r.event)
      BY <1>3, <2>1 DEF Target
    <2>3. HalfWay("tier", r.event)'
      BY <1>1, <1>5, <1>6, <2>1, <2>2 DEF HalfWay
    <2>4. r.event \in Pending'
      BY <1>1, <1>4, <1>5, <2>1 DEF Pending
    <2>5. ASSUME NEW c \in Customers, Used(c)' PROVE sub'.customer = c
      <3>1. Used(c) /\ sub.customer = c
        BY <1>1, <1>7, <2>5, Now DEF Used
      <3>2. CASE Target(h) = "free"
        BY <1>6, <3>1, <3>2
      <3>3. CASE Target(h) = "premium"
        <4>1. r.event \in 1..Len(log)
          BY <1>4, <2>1
        <4>2. Payer(h) = log[r.event].customer /\ Payer(h) \in Customers
          <5>1. log[r.event] \in Event
            BY <1>4, <4>1
          <5>. QED
            BY <1>3, <2>1, <5>1 DEF Payer, Event
        <4>3. Used(Payer(h))
          BY <4>1, <4>2 DEF Used
        <4>4. sub.customer = Payer(h)
          BY <1>7, <4>2, <4>3, Now
        <4>. QED
          BY <1>6, <3>1, <3>3, <4>4
      <3>. QED
        BY <1>6, <3>2, <3>3
    <2>6. Payee("tier", r.customer)'
      BY DEF Payee
    <2>. QED
      BY <2>2, <2>3, <2>4, <2>5, <2>6
  <1>8. ASSUME alone, configured, inOrder
        PROVE  \E n \in 0..Len(log) :
                   /\ acked = 1..n /\ recorded \subseteq 1..(n + 1)
                   /\ n < Len(log) /\ (Premium' <=> Standing(n + 1))
                   /\ r.event <= n + 1
    <2>1. PICK n \in 0..Len(log) : Upto(n) /\ n \in Nat /\ r.event = n + 1
      BY <1>3, <1>4, <1>8, NextEvent
    <2>2. Target(h) = Effect(n + 1)
      BY <1>7, <1>8, <2>1
    <2>3. Premium' <=> Standing(n + 1)
      BY <1>6, <2>1, <2>2, StandingNext
    <2>. QED
      BY <1>4, <2>1, <2>3 DEF Upto
  <1>. QED
    BY <1>1, <1>4, <1>7, <1>8, OrderlyMoves DEF Answered

\* The second write.
LEMMA WriteTierOrderly ==
    ASSUME IInv, IInv', Orderly, NEW h \in Handlers, WriteTier(h)
    PROVE  Orderly'
  <1>1. PICK next \in {"idle", "record"} :
           /\ Proceed(h, "tier", next, req[h])
           /\ tier' = Target(h)
           /\ UNCHANGED <<sub, recorded, customers, sessions, stripe, log, acked>>
    BY DEF WriteTier, Await, remote
  <1>3. PICK r : r = IF next = "idle" THEN NoRequest ELSE req[h]
    OBVIOUS
  <1>4. /\ at[h] = "tier" /\ Moved(h, next) /\ UNCHANGED <<configured, tagged, alone, inOrder>>
        /\ req' = [req EXCEPT ![h] = r] /\ Answered /\ OneByOne /\ Told /\ Len(log) \in Nat
        /\ req[h].event \in 0..Len(log) /\ (next # "idle" => r = req[h])
    BY <1>1, <1>3, Went DEF Steps
  <1>5. /\ \A e : Effect(e)' = Effect(e)
        /\ Premium' = Premium /\ \A c \in Customers : Used(c)' = Used(c)
    BY <1>1 DEF Effect, Premium, Used
  <1>7. ASSUME alone, configured
        PROVE  /\ next # "idle" => HalfWay(next, r.event)'
               /\ Agrees'
               /\ \A c \in Customers : Used(c)' => sub'.customer = c
               /\ next # "idle" => Payee(next, r.customer)'
    <2>1. /\ req[h].event # 0 /\ req[h].event \notin recorded
          /\ Effect(req[h].event) = "premium" <=> Premium
      BY <1>4, <1>7, Now DEF HalfWay
    <2>2. tier' = Effect(req[h].event) /\ tier' \in Plans
      BY <1>1, <2>1 DEF Target, IInv, TypeOK
    <2>3. tier' = "premium" <=> sub.plan = "premium"
      BY <2>1, <2>2 DEF Premium
    <2>4. sub.plan = "premium" => sub.status = "active"
      BY DEF IInv, TierBehind
    <2>5. Agrees'
      BY <1>1, <2>2, <2>3, <2>4 DEF Agrees, EffectivePlan, Plans
    <2>6. next # "idle" => HalfWay(next, r.event)' /\ Payee(next, r.customer)'
      BY <1>1, <1>4, <2>1, <2>5 DEF HalfWay, Payee
    <2>. QED
      BY <1>1, <1>5, <1>7, <2>5, <2>6, Now
  <1>8. ASSUME alone, configured, inOrder
        PROVE  \E n \in 0..Len(log) :
                   /\ acked = 1..n /\ recorded \subseteq 1..(n + 1)
                   /\ \/ Premium <=> Standing(n)
                      \/ n < Len(log) /\ (Premium <=> Standing(n + 1))
                   /\ n + 1 \in recorded => (Premium <=> Standing(n + 1))
                   /\ req[h].event <= n + 1
                   /\ Premium <=> Standing(n + 1)
    <2>1. PICK n \in 0..Len(log) : Upto(n) /\ n \in Nat /\ req[h].event = n + 1
      BY <1>4, <1>8, NextEvent
    <2>2. Premium <=> Standing(n + 1)
      BY <1>4, <2>1 DEF Upto, Late
    <2>. QED
      BY <2>1, <2>2 DEF Upto
  <1>9. next # "answer"
    BY <1>1
  <1>. QED
    BY <1>1, <1>4, <1>5, <1>7, <1>8, <1>9, OrderlyMoves DEF Answered

\* The event is recorded: all its statements are done.
LEMMA RecordOrderly ==
    ASSUME IInv, IInv', Orderly, NEW h \in Handlers, Record(h)
    PROVE  Orderly'
  <1>1. PICK next \in {"idle", "answer"} : Proceed(h, "record", next, req[h])
    BY DEF Record, Await
  <1>2. /\ recorded' = recorded \cup {req[h].event}
        /\ UNCHANGED <<sub, tier, customers, sessions, stripe, log, acked>>
    BY DEF Record, remote
  <1>3. PICK r : r = IF next = "idle" THEN NoRequest ELSE req[h]
    OBVIOUS
  <1>4. /\ at[h] = "record" /\ Moved(h, next) /\ UNCHANGED <<configured, tagged, alone, inOrder>>
        /\ req' = [req EXCEPT ![h] = r] /\ Answered /\ OneByOne /\ Told /\ Len(log) \in Nat
        /\ req[h].event \in 1..Len(log) /\ (next # "idle" => r = req[h])
    BY <1>1, <1>3, Went DEF Steps, Sound
  <1>5. /\ \A e : Effect(e)' = Effect(e)
        /\ Premium' = Premium /\ Agrees' = Agrees /\ \A c \in Customers : Used(c)' = Used(c)
    BY <1>2 DEF Effect, Premium, Agrees, EffectivePlan, Used
  <1>7. ASSUME alone, configured
        PROVE  /\ next # "idle" => HalfWay(next, r.event)'
               /\ Agrees' \/ Pending' # {}
               /\ \A c \in Customers : Used(c)' => sub'.customer = c
               /\ next # "idle" => Payee(next, r.customer)'
    <2>1. Agrees \/ Effect(req[h].event) = "none"
      BY <1>4, <1>7, Now DEF HalfWay
    <2>2. Effect(req[h].event) = "none" => Pending' = Pending
      BY <1>2, <1>5 DEF Pending
    <2>3. Agrees' \/ Pending' # {}
      BY <1>5, <1>7, <2>1, <2>2, Now
    <2>4. next # "idle" => HalfWay(next, r.event)' /\ Payee(next, r.customer)'
      BY <1>1 DEF HalfWay, Payee
    <2>. QED
      BY <1>2, <1>5, <1>7, <2>3, <2>4, Now
  <1>8. ASSUME alone, configured, inOrder
        PROVE  \E n \in 0..Len(log) :
                   /\ acked = 1..n /\ recorded' \subseteq 1..(n + 1)
                   /\ \/ Premium <=> Standing(n)
                      \/ n < Len(log) /\ (Premium <=> Standing(n + 1))
                   /\ req[h].event <= n + 1
                   /\ Premium <=> Standing(n + 1)
    <2>1. PICK n \in 0..Len(log) : Upto(n) /\ n \in Nat /\ req[h].event = n + 1
      BY <1>4, <1>8, NextEvent
    <2>2. Premium <=> Standing(n + 1)
      BY <1>4, <2>1 DEF Upto, Late
    <2>3. acked = 1..n /\ recorded' \subseteq 1..(n + 1)
      <3>1. acked = 1..n /\ recorded \subseteq 1..(n + 1)
        BY <2>1 DEF Upto
      <3>2. n + 1 \in 1..(n + 1)
        BY <2>1
      <3>. QED
        BY <1>2, <2>1, <3>1, <3>2
    <2>4. n < Len(log) /\ req[h].event <= n + 1
      BY <1>4, <2>1
    <2>. QED
      BY <2>2, <2>3, <2>4
  <1>9. next = "answer" => r.event \in recorded'
    BY <1>2, <1>4
  <1>. QED
    BY <1>1, <1>2, <1>4, <1>5, <1>7, <1>8, <1>9, OrderlyMoves DEF Answered

\* The event is answered: it was the next one, or one that was sent once more.
LEMMA AnswerOrderly ==
    ASSUME IInv, IInv', Orderly, NEW h \in Handlers, Answer(h)
    PROVE  Orderly'
  <1>1. /\ Proceed(h, "answer", "idle", req[h]) /\ acked' = acked \cup {req[h].event}
        /\ UNCHANGED <<sub, tier, recorded, customers, sessions, stripe, log>>
    BY DEF Answer, Await, db, remote
  <1>3. PICK r : r = NoRequest
    OBVIOUS
  <1>4. /\ at[h] = "answer" /\ Moved(h, "idle") /\ UNCHANGED <<configured, tagged, alone, inOrder>>
        /\ req' = [req EXCEPT ![h] = r] /\ Answered /\ OneByOne /\ Told /\ Len(log) \in Nat
        /\ req[h].event \in 1..Len(log) /\ req[h].event \in recorded
    BY <1>1, <1>3, Went DEF Steps, Sound, Answered
  <1>5. /\ Premium' = Premium /\ Agrees' = Agrees /\ Pending' = Pending
        /\ \A c \in Customers : Used(c)' = Used(c)
    BY <1>1 DEF Premium, Agrees, EffectivePlan, Pending, Effect, Used
  <1>7. ASSUME alone, configured
        PROVE  /\ Agrees' \/ Pending' # {}
               /\ \A c \in Customers : Used(c)' => sub'.customer = c
    BY <1>1, <1>5, <1>7, Now
  <1>8. ASSUME alone, configured, inOrder
        PROVE  \E n \in 0..Len(log) :
                   /\ acked' = 1..n /\ recorded \subseteq 1..(n + 1)
                   /\ \/ Premium <=> Standing(n)
                      \/ n < Len(log) /\ (Premium <=> Standing(n + 1))
                   /\ n + 1 \in recorded => (Premium <=> Standing(n + 1))
    <2>1. PICK n \in 0..Len(log) :
             Upto(n) /\ n \in Nat /\ req[h].event <= n + 1
      BY <1>4, <1>8, NextEvent
    <2>2. CASE req[h].event = n + 1
      <3>1. acked' = 1..(n + 1) /\ n + 1 \in 0..Len(log)
        BY <1>1, <1>4, <2>1, <2>2 DEF Upto
      <3>2. Premium <=> Standing(n + 1)
        BY <1>4, <2>1, <2>2 DEF Upto
      <3>3. recorded \subseteq 1..((n + 1) + 1) /\ (n + 1) + 1 \notin recorded
        BY <2>1 DEF Upto
      <3>. QED
        BY <3>1, <3>2, <3>3
    <2>3. CASE req[h].event # n + 1
      <3>1. acked' = acked
        BY <1>1, <1>4, <2>1, <2>3 DEF Upto
      <3>. QED
        BY <2>1, <3>1 DEF Upto
    <2>. QED
      BY <2>2, <2>3
  <1>9. acked' \subseteq recorded'
    BY <1>1, <1>4 DEF Answered
  <1>. QED
    BY <1>1, <1>4, <1>5, <1>7, <1>8, <1>9, OrderlyMoves DEF Answered

\* A step that leaves plan, tier and events as they are.
LEMMA Unmoved ==
    ASSUME IInv, IInv', Orderly, NEW h \in Handlers, NEW next, NEW r, Moved(h, next),
           req' = [req EXCEPT ![h] = r],
           UNCHANGED <<configured, tagged, tier, recorded, log, acked, stripe>>,
           Premium' = Premium, Agrees' = Agrees, inOrder' => inOrder, next # "answer",
           configured => next \notin {"sub", "tier", "record"},
           (alone' /\ alone /\ configured) =>
               /\ \A c \in Customers : Used(c)' => sub'.customer = c
               /\ next # "idle" => Payee(next, r.customer)',
           (alone' /\ alone /\ configured /\ inOrder' /\ next # "idle") =>
               \A n \in 0..Len(log) : Upto(n) => r.event <= n + 1
    PROVE  Orderly'
  <1>1. Answered /\ OneByOne /\ Told
    BY DEF Orderly
  <1>2. alone' => alone
    BY DEF Moved
  <1>3. Pending' = Pending
    BY DEF Pending, Effect
  <1>4. ASSUME alone', configured
        PROVE  /\ next # "idle" => HalfWay(next, r.event)'
               /\ Agrees' \/ Pending' # {}
    BY <1>2, <1>3, <1>4, Now DEF HalfWay
  <1>5. ASSUME alone', configured, inOrder'
        PROVE  \E n \in 0..Len(log) :
                   /\ acked = 1..n /\ recorded \subseteq 1..(n + 1)
                   /\ \/ Premium <=> Standing(n)
                      \/ n < Len(log) /\ (Premium <=> Standing(n + 1))
                   /\ n + 1 \in recorded => (Premium <=> Standing(n + 1))
                   /\ next # "idle" => r.event <= n + 1
    <2>1. PICK n \in 0..Len(log) : Upto(n)
      BY <1>2, <1>5 DEF Orderly, InStep
    <2>. QED
      BY <1>2, <1>5, <2>1 DEF Upto
  <1>. QED
    BY <1>1, <1>2, <1>4, <1>5, OrderlyMoves DEF Answered

LEMMA AbortOrderly ==
    ASSUME IInv, IInv', Orderly, NEW h \in Handlers, Abort(h)
    PROVE  Orderly'
  <1>1. PICK r : r = NoRequest
    OBVIOUS
  <1>2. /\ Moved(h, "idle") /\ req' = [req EXCEPT ![h] = r]
        /\ UNCHANGED <<configured, tagged, sub, tier, recorded, sessions, log, acked, stripe, inOrder>>
    BY <1>1 DEF Abort, Moved, db, remote
  <1>3. Premium' = Premium /\ Agrees' = Agrees /\ \A c \in Customers : Used(c)' = Used(c)
    BY <1>2 DEF Premium, Agrees, EffectivePlan, Used
  <1>4. ASSUME alone, configured PROVE \A c \in Customers : Used(c)' => sub'.customer = c
    BY <1>2, <1>3, <1>4, Now
  <1>. QED
    BY <1>2, <1>3, <1>4, Unmoved

\* A delivery or a checkout begins.
LEMMA BeginOrderly ==
    ASSUME IInv, IInv', Orderly, NEW h \in Handlers, NEW e, NEW first, Begin(h, e, first),
           first \in {"check", "read", "sub"}, configured => first # "sub",
           inOrder' => inOrder,
           inOrder' => \A n \in 0..Len(log) : acked = 1..n => e <= n + 1
    PROVE  Orderly'
  <1>1. PICK r : r = [event |-> e, customer |-> 0]
    OBVIOUS
  <1>2. /\ Moved(h, first) /\ req' = [req EXCEPT ![h] = r] /\ r.event = e
        /\ UNCHANGED <<configured, tagged, sub, tier, recorded, sessions, log, acked, stripe>>
    BY <1>1 DEF Begin, Moved, db, remote
  <1>3. Premium' = Premium /\ Agrees' = Agrees /\ \A c \in Customers : Used(c)' = Used(c)
    BY <1>2 DEF Premium, Agrees, EffectivePlan, Used
  <1>4. ASSUME alone, configured
        PROVE  /\ \A c \in Customers : Used(c)' => sub'.customer = c
               /\ Payee(first, r.customer)'
    BY <1>2, <1>3, <1>4, Now DEF Payee
  <1>5. \A n \in 0..Len(log) : Upto(n) => acked = 1..n
    BY DEF Upto
  <1>. QED
    BY <1>2, <1>3, <1>4, <1>5, Unmoved

LEMMA CheckoutOrderly ==
    ASSUME IInv, IInv', Orderly, NEW h \in Handlers, CheckoutStep(h)
    PROVE  Orderly'
  <1>0. req[h] \in Request /\ sub \in Row \cup {NoRow}
    BY DEF IInv, TypeOK
  <1>1. ASSUME NEW here \in Steps \ {"idle"}, NEW next, NEW r, Proceed(h, here, next, r),
               r.event = req[h].event, alone, configured, inOrder
        PROVE  \A n \in 0..Len(log) : Upto(n) => r.event <= n + 1
    BY <1>1 DEF Proceed, Upto, Late
  <1>2. CASE ReadSub(h)
    <2>1. PICK next, r :
             /\ next \in {"session", "customer"} /\ Proceed(h, "read", next, r)
             /\ r = [req[h] EXCEPT !.customer = sub.customer]
             /\ next = "customer" => sub.customer = 0
      BY <1>2 DEF ReadSub
    <2>2. r.event = req[h].event /\ r.customer = sub.customer
      BY <1>0, <2>1 DEF Request
    <2>3. UNCHANGED <<sub, tier, recorded, sessions, log, acked, stripe>>
      BY <1>2 DEF ReadSub, db, remote
    <2>4. /\ Moved(h, next) /\ req' = [req EXCEPT ![h] = r]
          /\ UNCHANGED <<configured, tagged, alone, inOrder>>
      <3>1. "read" \in Steps \ {"idle"} /\ next # "idle"
        BY <2>1 DEF Steps
      <3>. QED
        BY <2>1, <3>1, Went
    <2>5. Premium' = Premium /\ Agrees' = Agrees /\ \A c \in Customers : Used(c)' = Used(c)
      BY <2>3 DEF Premium, Agrees, EffectivePlan, Used
    <2>6. ASSUME alone, configured
          PROVE  /\ \A c \in Customers : Used(c)' => sub'.customer = c
                 /\ Payee(next, r.customer)'
      BY <2>1, <2>2, <2>3, <2>5, <2>6, Now DEF Payee
    <2>7. "read" \in Steps \ {"idle"}
      BY DEF Steps
    <2>. QED
      BY <1>1, <2>1, <2>2, <2>3, <2>4, <2>5, <2>6, <2>7, Unmoved
  <1>3. CASE CreateCustomer(h)
    <2>1. PICK r : /\ Proceed(h, "customer", "save", r)
                   /\ r = [req[h] EXCEPT !.customer = customers + 1]
      BY <1>3 DEF CreateCustomer
    <2>2. r.event = req[h].event
      BY <1>0, <2>1 DEF Request
    <2>3. UNCHANGED <<sub, tier, recorded, sessions, log, acked, stripe>>
      BY <1>3 DEF CreateCustomer, db
    <2>4. /\ Moved(h, "save") /\ req' = [req EXCEPT ![h] = r]
          /\ UNCHANGED <<configured, tagged, alone, inOrder>> /\ at[h] = "customer"
      BY <2>1, Went DEF Steps
    <2>5. Premium' = Premium /\ Agrees' = Agrees /\ \A c \in Customers : Used(c)' = Used(c)
      BY <2>3 DEF Premium, Agrees, EffectivePlan, Used
    <2>6. ASSUME alone, configured
          PROVE  /\ \A c \in Customers : Used(c)' => sub'.customer = c
                 /\ Payee("save", r.customer)'
      BY <2>3, <2>4, <2>5, <2>6, Now DEF Payee
    <2>7. "customer" \in Steps \ {"idle"}
      BY DEF Steps
    <2>. QED
      BY <1>1, <2>1, <2>2, <2>3, <2>4, <2>5, <2>6, <2>7, Unmoved
  <1>4. CASE SaveCustomer(h)
    <2>1. PICK r : Proceed(h, "save", "session", r) /\ r = req[h]
      BY <1>4 DEF SaveCustomer, Await
    <2>3. UNCHANGED <<tier, recorded, sessions, log, acked, stripe>>
      BY <1>4 DEF SaveCustomer, remote
    <2>4. /\ Moved(h, "session") /\ req' = [req EXCEPT ![h] = r]
          /\ UNCHANGED <<configured, tagged, alone, inOrder>> /\ at[h] = "save"
      BY <2>1, Went DEF Steps
    <2>5. sub'.customer = r.customer /\ Premium' = Premium /\ Agrees' = Agrees
      <3>1. CASE sub = NoRow
        <4>1. sub' = [plan |-> "free", status |-> "active", customer |-> r.customer]
          BY <1>4, <2>1, <3>1 DEF SaveCustomer
        <4>. QED
          BY <2>3, <3>1, <4>1 DEF Premium, Agrees, EffectivePlan, NoRow
      <3>2. CASE sub # NoRow
        <4>1. sub' = [sub EXCEPT !.customer = r.customer]
          BY <1>4, <2>1, <3>2 DEF SaveCustomer
        <4>2. sub'.plan = sub.plan /\ sub'.status = sub.status /\ sub'.customer = r.customer
          BY <1>0, <3>2, <4>1 DEF Row
        <4>. QED
          BY <2>3, <4>2 DEF Premium, Agrees, EffectivePlan
      <3>. QED
        BY <3>1, <3>2
    <2>6. ASSUME alone, configured
          PROVE  /\ \A c \in Customers : Used(c)' => sub'.customer = c
                 /\ Payee("session", r.customer)'
      <3>1. sub.customer = 0
        BY <2>4, <2>6, Now DEF Payee
      <3>2. \A c \in Customers : Used(c)' = Used(c) /\ c # 0
        BY <2>3 DEF Used, Customers
      <3>. QED
        BY <2>5, <2>6, <3>1, <3>2, Now DEF Payee
    <2>7. "save" \in Steps \ {"idle"}
      BY DEF Steps
    <2>. QED
      BY <1>1, <2>1, <2>3, <2>4, <2>5, <2>6, <2>7, Unmoved
  <1>5. CASE OpenSession(h)
    <2>1. Proceed(h, "session", "idle", req[h])
      BY <1>5 DEF OpenSession, Await
    <2>2. PICK r : r = NoRequest
      OBVIOUS
    <2>3. /\ UNCHANGED <<sub, tier, recorded, log, acked, stripe>>
          /\ sessions' = sessions \cup {req[h].customer}
      BY <1>5 DEF OpenSession, db
    <2>4. /\ Moved(h, "idle") /\ req' = [req EXCEPT ![h] = r]
          /\ UNCHANGED <<configured, tagged, alone, inOrder>> /\ at[h] = "session"
      BY <2>1, <2>2, Went DEF Steps
    <2>5. Premium' = Premium /\ Agrees' = Agrees
      BY <2>3 DEF Premium, Agrees, EffectivePlan
    <2>6. ASSUME alone, configured PROVE \A c \in Customers : Used(c)' => sub'.customer = c
      <3>1. sub.customer = req[h].customer
        BY <2>4, <2>6, Now DEF Payee
      <3>2. \A c \in Customers : Used(c)' => Used(c) \/ c = req[h].customer
        BY <2>3 DEF Used
      <3>. QED
        BY <2>3, <2>6, <3>1, <3>2, Now
    <2>. QED
      BY <2>3, <2>4, <2>5, <2>6, Unmoved
  <1>. QED
    BY <1>2, <1>3, <1>4, <1>5 DEF CheckoutStep

\* The customer does something at Stripe: an event more, and nobody else has been there.
LEMMA StripeOrderly ==
    ASSUME IInv, IInv', Orderly, StripeStep
    PROVE  Orderly'
  <1>1. PICK c \in Customers : Pay(c) \/ Renew(c) \/ Notice(c) \/ Lapse(c) \/ Cancel(c)
    BY DEF StripeStep
  <1>2. PICK state \in {"active", "unpaid", "ended"}, k \in Kinds :
           /\ Happens(c, state, k) /\ sessions' \subseteq sessions /\ Used(c)
           /\ k \in {"completed", "active"} => state = "active"
           /\ k = "ended" => state # "active"
           /\ k = "other" => stripe[c] = "active" /\ state = "active"
    BY <1>1 DEF Pay, Renew, Notice, Lapse, Cancel, Kinds, Used
  <1>3. /\ log' = Append(log, [kind |-> k, customer |-> c])
        /\ stripe' = [stripe EXCEPT ![c] = state]
        /\ UNCHANGED <<configured, tagged, sub, tier, recorded, acked, at, req, alone, inOrder>>
    BY <1>2 DEF Happens, db
  <1>0. PICK l \in Nat, m \in Nat : l = Len(log) /\ m = l + 1
    BY DEF IInv, TypeOK
  <1>4. /\ Len(log)' = m /\ log'[m] = [kind |-> k, customer |-> c]
        /\ Len(log) \in Nat /\ m = Len(log) + 1
    BY <1>0, <1>3 DEF IInv, TypeOK
  <1>5. /\ \A e \in 1..Len(log) : log'[e] = log[e] /\ Effect(e)' = Effect(e)
        /\ \A n \in 0..Len(log) : Standing(n)' = Standing(n)
    BY <1>3, LogGrows DEF Grows
  <1>6. OneByOne' /\ Answered'
    BY <1>3 DEF Orderly, OneByOne, Open, Answered
  <1>7. Agrees' = Agrees /\ Premium' = Premium
    BY <1>3 DEF Agrees, EffectivePlan, Premium
  <1>8. Caught'
    <2>1. SUFFICES ASSUME alone, configured
                   PROVE  /\ \A h \in Handlers : HalfWay(at[h], req[h].event)'
                          /\ Agrees' \/ Pending' # {}
      BY <1>3 DEF Caught
    <2>2. Pending \subseteq Pending'
      BY <1>3, <1>4, <1>5 DEF Pending
    <2>3. ASSUME NEW h \in Handlers PROVE HalfWay(at[h], req[h].event)'
      <3>1. HalfWay(at[h], req[h].event) /\ req[h].event \in 0..Len(log)
        BY <2>1, Now DEF IInv, RequestsOK, Sound
      <3>2. req[h].event # 0 => Effect(req[h].event)' = Effect(req[h].event)
        <4>1. SUFFICES ASSUME req[h].event # 0 PROVE Effect(req[h].event)' = Effect(req[h].event)
          OBVIOUS
        <4>2. PICK e \in 1..Len(log) : e = req[h].event
          BY <1>4, <3>1, <4>1
        <4>3. Effect(e)' = Effect(e) /\ req'[h].event = e
          BY <1>3, <1>5, <4>2
        <4>. QED
          BY <4>2, <4>3 DEF Effect
      <3>. QED
        BY <1>3, <1>7, <3>1, <3>2 DEF HalfWay
    <2>. QED
      BY <1>7, <2>1, <2>2, <2>3 DEF Orderly, Caught
  <1>9. InStep'
    <2>1. SUFFICES ASSUME alone, configured, inOrder
                   PROVE  \E n \in 0..Len(log)' : Upto(n)'
      BY <1>3 DEF InStep
    <2>2. PICK n \in 0..Len(log) : Upto(n)
      BY <2>1 DEF Orderly, InStep
    <2>3. n \in 0..Len(log)' /\ Standing(n)' = Standing(n)
      BY <1>4, <1>5
    <2>4. CASE n < Len(log)
      <3>1. n + 1 \in 0..Len(log) /\ Standing(n + 1)' = Standing(n + 1)
        BY <1>4, <1>5, <2>4
      <3>2. \A h \in Handlers : Late(n, at[h], req[h].event)'
        BY <1>3, <1>7, <2>2, <3>1 DEF Upto, Late
      <3>. QED
        BY <1>3, <1>4, <1>7, <2>2, <2>3, <2>4, <3>1, <3>2 DEF Upto
    <2>5. CASE n = Len(log)
      <3>1. n + 1 \notin recorded
        BY <1>4, <2>5 DEF IInv, TypeOK
      <3>2. Premium <=> Standing(n)
        BY <1>4, <2>2, <2>5 DEF Upto
      <3>3. ASSUME NEW h \in Handlers
            PROVE  Late(n, at[h], req[h].event)'
        <4>1. req[h].event \in 0..Len(log)
          BY DEF IInv, RequestsOK, Sound
        <4>2. req[h].event <= n
          BY <1>4, <2>5, <4>1
        <4>3. at[h] \notin {"sub", "tier", "record"}
          <5>1. SUFFICES ASSUME at[h] \in {"sub", "tier", "record"} PROVE FALSE
            OBVIOUS
          <5>2. req[h].event # 0 /\ req[h].event \notin recorded
            BY <2>1, <5>1, Now DEF HalfWay
          <5>3. req[h].event \in 1..n /\ acked = 1..n
            BY <1>4, <2>2, <2>5, <4>1, <5>2 DEF Upto
          <5>. QED
            BY <5>2, <5>3 DEF Orderly, Answered
        <4>. QED
          BY <1>3, <2>2, <4>3 DEF Upto, Late
      <3>. QED
        BY <1>3, <1>4, <1>7, <2>2, <2>3, <3>1, <3>2, <3>3 DEF Upto
    <2>. QED
      BY <1>4, <2>4, <2>5
  <1>10. OneCustomer'
    <2>1. SUFFICES ASSUME alone, configured
                   PROVE  /\ \A d \in Customers : Used(d)' => sub'.customer = d
                          /\ \A h \in Handlers : Payee(at[h], req[h].customer)'
      BY <1>3 DEF OneCustomer
    <2>2. ASSUME NEW d \in Customers, Used(d)', d # c PROVE Used(d)
      <3>1. CASE d \in sessions' \/ stripe'[d] # "none"
        BY <1>2, <1>3, <2>2, <3>1 DEF Used, IInv, TypeOK
      <3>2. ASSUME NEW e \in 1..Len(log)', log'[e].customer = d PROVE Used(d)
        <4>1. e # m
          BY <1>4, <2>2, <3>2
        <4>2. e \in 1..Len(log)
          BY <1>4, <4>1
        <4>. QED
          BY <1>5, <3>2, <4>2 DEF Used
      <3>. QED
        BY <2>2, <3>1, <3>2 DEF Used
    <2>3. \A h \in Handlers : Payee(at[h], req[h].customer)'
      BY <1>3, <2>1, Now DEF Payee
    <2>. QED
      BY <1>2, <1>3, <2>1, <2>2, <2>3 DEF Orderly, OneCustomer
  <1>11. Told'
    <2>1. SUFFICES ASSUME tagged, alone, configured
                   PROVE  Active' # {} <=> Standing(m)'
      BY <1>3, <1>4 DEF Told
    <2>2. Active # {} <=> Standing(l)'
      <3>1. l \in 0..Len(log) /\ (Active # {} <=> Standing(l))
        BY <1>0, <2>1 DEF Orderly, Told
      <3>. QED
        BY <1>5, <3>1
    <2>0. tagged'
      BY <1>3, <2>1
    <2>3. /\ k \in {"completed", "active"} => Effect(m)' = "premium"
          /\ k = "ended" => Effect(m)' = "free"
          /\ k = "other" => Effect(m)' = "none"
      <3>1. log'[m].kind = k
        BY <1>4
      <3>. QED
        BY <2>0, <3>1 DEF Effect
    <2>4. Standing(m)' <=> \/ Effect(m)' = "premium"
                           \/ Standing(l)' /\ Effect(m)' # "free"
      <3>1. \A n \in Nat : Standing(n + 1)' <=> \/ Effect(n + 1)' = "premium"
                                                \/ Standing(n)' /\ Effect(n + 1)' # "free"
        BY RecurrenceThen DEF Recurrence
      <3>. QED
        BY <1>0, <3>1
    <2>5. \A d \in Active : d = c
      <3>1. \A d \in Active : Used(d) /\ d \in Customers
        BY DEF Active, Used
      <3>. QED
        BY <1>2, <2>1, <3>1 DEF Orderly, OneCustomer
    <2>6. Active' = IF state = "active" THEN {c} ELSE {}
      BY <1>3, <2>5 DEF Active, IInv, TypeOK
    <2>7. CASE k \in {"completed", "active"}
      BY <1>2, <2>3, <2>4, <2>6, <2>7
    <2>8. CASE k = "ended"
      BY <1>2, <2>3, <2>4, <2>6, <2>8
    <2>9. CASE k = "other"
      BY <1>2, <2>2, <2>3, <2>4, <2>6, <2>9 DEF Active
    <2>. QED
      BY <2>7, <2>8, <2>9 DEF Kinds
  <1>. QED
    BY <1>6, <1>8, <1>9, <1>10, <1>11 DEF Orderly

LEMMA OrderlyStays ==
    ASSUME IInv, IInv', Orderly, [Next]_vars
    PROVE  Orderly'
  <1>1. CASE UNCHANGED vars
    <2>1. /\ \A n : Standing(n)' = Standing(n)
          /\ \A e : Effect(e)' = Effect(e)
      BY <1>1 DEF vars, Standing, Effect
    <2>2. OneByOne' /\ Answered'
      BY <1>1 DEF vars, Orderly, OneByOne, Open, Answered
    <2>3. Premium' = Premium /\ Agrees' = Agrees /\ Pending' = Pending
      BY <1>1, <2>1 DEF vars, Premium, Agrees, EffectivePlan, Pending
    <2>4. Caught'
      BY <1>1, <2>3 DEF vars, Orderly, Caught, HalfWay, Effect
    <2>5. InStep'
      BY <1>1, <2>1, <2>3 DEF vars, Orderly, InStep, Upto, Late
    <2>6. OneCustomer' /\ Told'
      BY <1>1, <2>1 DEF vars, Orderly, OneCustomer, Used, Payee, Told, Active
    <2>. QED
      BY <2>2, <2>4, <2>5, <2>6 DEF Orderly
  <1>2. CASE StripeStep
    BY <1>2, StripeOrderly
  <1>3. ASSUME NEW h \in Handlers, NEW e \in 1..Len(log), Deliver(h, e) PROVE Orderly'
    <2>1. Begin(h, e, "check") /\ (inOrder' => inOrder /\ 1..(e - 1) \subseteq acked)
      BY <1>3 DEF Deliver
    <2>2. ASSUME inOrder', NEW n \in 0..Len(log), acked = 1..n PROVE e <= n + 1
      <3>1. Len(log) \in Nat /\ e \in Nat /\ n \in Nat
        BY DEF IInv, TypeOK
      <3>2. SUFFICES ASSUME e > n + 1 PROVE FALSE
        BY <3>1
      <3>3. n + 1 \in 1..(e - 1)
        BY <3>1, <3>2
      <3>4. n + 1 \in 1..n
        BY <2>1, <2>2, <3>3
      <3>. QED
        BY <3>1, <3>4
    <2>. QED
      BY <2>1, <2>2, BeginOrderly
  <1>4. ASSUME NEW h \in Handlers, CheckoutBegins(h) PROVE Orderly'
    <2>1. PICK first \in {"read", "sub"} : Begin(h, 0, first) /\ (configured => first # "sub")
      BY <1>4 DEF CheckoutBegins
    <2>2. inOrder' = inOrder /\ \A n \in 0..Len(log) : 0 <= n + 1
      BY <1>4 DEF CheckoutBegins, IInv, TypeOK
    <2>. QED
      BY <2>1, <2>2, BeginOrderly
  <1>5. ASSUME NEW h \in Handlers, Abort(h) \/ EventStep(h) \/ CheckoutStep(h) PROVE Orderly'
    BY <1>5, AbortOrderly, CheckOrderly, WriteSubOrderly, WriteTierOrderly, RecordOrderly,
       AnswerOrderly, CheckoutOrderly DEF EventStep
  <1>. QED
    BY <1>1, <1>2, <1>3, <1>4, <1>5 DEF Next

LEMMA OrderlyInductive == Spec => [](IInv /\ Orderly)
  <1>1. Init => Orderly
    <2>. SUFFICES ASSUME Init PROVE Orderly
      OBVIOUS
    <2>1. /\ sub = NoRow /\ tier = "free" /\ log = <<>> /\ Len(log) = 0 /\ acked = {}
          /\ recorded = {} /\ sessions = {} /\ \A c \in Customers : stripe[c] = "none"
          /\ \A h \in Handlers : at[h] = "idle"
      BY DEF Init
    <2>2. OneByOne /\ Answered
      BY <2>1 DEF OneByOne, Open, Answered
    <2>3. Caught
      BY <2>1 DEF Caught, HalfWay, Agrees, EffectivePlan, NoRow
    <2>4. ~Standing(0) /\ ~Premium
      BY <2>1 DEF Standing, Premium, NoRow
    <2>5. Upto(0)
      BY <2>1, <2>4 DEF Upto, Late
    <2>6. InStep
      BY <2>1, <2>5 DEF InStep
    <2>7. OneCustomer
      BY <2>1 DEF OneCustomer, Used, Payee
    <2>8. Told
      BY <2>1, <2>4 DEF Told, Active
    <2>. QED
      BY <2>2, <2>3, <2>6, <2>7, <2>8 DEF Orderly
  <1>2. IInv /\ IInv' /\ Orderly /\ [Next]_vars => Orderly'
    BY OrderlyStays
  <1>. QED
    BY Inductive, <1>1, <1>2, PTL DEF Spec

\* Requests one after the other: when every event was answered, the tier that
\* linkWallet reads is the effective plan, though events come in any order and more
\* than once and a handler may stop between the two writes.  The tier may be wrong
\* only as long as an event is not recorded, and Stripe sends that one again.
THEOREM TierFollows == Spec => []TierAgrees
  <1>1. Orderly => TierAgrees
    <2>. SUFFICES ASSUME Orderly, configured, Quiet, alone PROVE tier = EffectivePlan
      BY DEF TierAgrees
    <2>1. Pending = {}
      BY DEF Pending, Orderly, Answered, Quiet
    <2>. QED
      BY <2>1 DEF Orderly, Caught, Agrees
  <1>. QED
    BY OrderlyInductive, <1>1, PTL

\* Events in order: when all are answered the plan is what they make of it, whether or
\* not subscriptions carry the user's id.
LEMMA AllApplied ==
    ASSUME IInv, Orderly, configured, Quiet, alone, inOrder
    PROVE  EffectivePlan = "premium" <=> Standing(Len(log))
  <1>1. Len(log) \in Nat
    BY DEF IInv, TypeOK
  <1>2. PICK n \in 0..Len(log) : Upto(n)
    BY DEF Orderly, InStep
  <1>3. n = Len(log)
    BY <1>1, <1>2 DEF Upto, Quiet
  <1>4. Premium <=> Standing(Len(log))
    BY <1>1, <1>2, <1>3 DEF Upto
  <1>. QED
    BY <1>4, RowDecides DEF SubscriptionRules, Premium

\* Events in order and one after the other, however often deliveries fail half way and
\* are repeated: the user is premium exactly while a subscription is paid at Stripe, if
\* subscriptions carry the user's id.  Those of createCheckoutSession do not: then the
\* user is premium if and only if a checkout was ever completed, and no end of a
\* subscription changes that.
THEOREM PlanIsThatOfPayments == Spec => []PlanFollowsPayments
  <1>1. IInv /\ Orderly => PlanFollowsPayments
    <2>. SUFFICES ASSUME IInv, Orderly, configured, Quiet, alone, inOrder
                  PROVE  EffectivePlan = "premium" <=>
                             IF tagged THEN Active # {}
                             ELSE \E e \in 1..Len(log) : log[e].kind = "completed"
      BY DEF PlanFollowsPayments
    <2>1. EffectivePlan = "premium" <=> Standing(Len(log))
      BY AllApplied
    <2>2. CASE tagged
      BY <2>1, <2>2 DEF Orderly, Told
    <2>3. CASE ~tagged
      <3>1. \A e : (Effect(e) = "premium" <=> log[e].kind = "completed") /\ Effect(e) # "free"
        BY <2>3 DEF Effect
      <3>. QED
        BY <2>1, <2>3, <3>1 DEF Standing
    <2>. QED
      BY <2>2, <2>3
  <1>. QED
    BY OrderlyInductive, <1>1, PTL

=============================================================================
