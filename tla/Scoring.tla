-------------------------------- MODULE Scoring --------------------------------
(***************************************************************************)
(* What the worker computes from the classified facts of a job: the        *)
(* scoring inputs, the four dimensions, the reputation index, the badges   *)
(* earned, the trust flags and the DAO contributions.  A fact of this      *)
(* module stands for fact.m facts that differ in their transaction only;   *)
(* with peer "many" also in their counterparty.  Scores are exact          *)
(* fractions, rounded half up once, as Math.round does.                    *)
(***************************************************************************)
EXTENDS Integers, Sequences, FiniteSets, Functions

Smaller(a, b) == IF a < b THEN a ELSE b
Larger(a, b) == IF a < b THEN b ELSE a

\* The sum of a sequence of numbers.
Sum(s) ==
    LET upTo[n \in 0..Len(s)] == IF n = 0 THEN 0 ELSE upTo[n - 1] + s[n]
    IN  upTo[Len(s)]

\* Facts of sequence s that satisfy Test, each counted m times.
Count(s, Test(_)) == Sum([i \in 1..Len(s) |-> IF Test(s[i]) THEN s[i].m ELSE 0])
Total(s) == Sum([i \in 1..Len(s) |-> s[i].m])
Having(s, Test(_)) == {f \in Range(s) : Test(f)}
----------------------------------------------------------------------------
(* buildScoringInputs *)

Incoming(f) == f.dir \in {"in", "self"}
Outgoing(f) == f.dir \in {"out", "self"}
Paid_Votes(f) == f.category \in {"transfer", "protocol_interaction", "governance"}
Paid(f) == f.category \in {"transfer", "protocol_interaction"}

Counterparties(s) ==
    Count(s, LAMBDA f : Paid(f) /\ f.dir # "self" /\ f.peer = "many")
      + Cardinality({f.peer : f \in Having(s, LAMBDA f : Paid(f) /\ f.dir # "self")} \ {"many"})

\* The counterparty of an outgoing payment is in the set before it is looked up
\* there, so that every one of them makes a wash pair.
WashPairs(s) == Count(s, LAMBDA f : Paid(f) /\ f.dir = "out")

\* days is the age of the wallet, counted from linkedAt.
Inputs(s, days) ==
    [days        |-> Larger(1, days),
     months      |-> Smaller(36, Larger(1, days) \div 30),
     votes       |-> Count(s, LAMBDA f : f.category = "governance"),
     voted       |-> Cardinality({f.entry : f \in Having(s, LAMBDA f : f.category = "governance")}
                                    \ {"none"}),
     daoPayments |-> Count(s, LAMBDA f : f.category = "dao_contribution"),
     grants      |-> Count(s, LAMBDA f : f.category = "grant"),
     received    |-> Count(s, LAMBDA f : Paid(f) /\ Incoming(f)),
     sent        |-> Count(s, LAMBDA f : Paid(f) /\ Outgoing(f)),
     peers       |-> Counterparties(s),
     wash        |-> WashPairs(s),
     protocols   |-> Cardinality({f.entry : f \in Range(s)} \ {"none"}),
     recent      |-> Count(s, LAMBDA f : f.entry # "none" /\ f.recent),
     total       |-> Total(s)]
----------------------------------------------------------------------------
(* The dimensions and the index, with the weights of config/scoring/v1.yaml *)

Round(num, den) == (2 * num + den) \div (2 * den)

\* 40 for a vote in 20 transactions, 35 for 5 protocols, 25 for 24 months, and the
\* capped balance weight; den = 600 * Larger(20, total).
Governance(i) ==
    LET n == Larger(20, i.total)
        rate == IF i.total = 0 THEN 0 ELSE 600 * Smaller(40 * n, 800 * i.votes)
        balance == IF i.votes > 0 THEN 120 ELSE 48
    IN  Smaller(100, Round(rate + n * (4200 * Smaller(5, i.voted) + 625 * Smaller(24, i.months) + balance),
                           600 * n))

\* 45 for 20 DAO payments, 35 for 10 grants, 20 for 36 months.
Contribution(i) ==
    Smaller(100, Round(81 * Smaller(20, i.daoPayments) + 126 * Smaller(10, i.grants)
                         + 20 * Smaller(36, i.months), 36))

\* 50 for the share of incoming payments, 30 for 15 counterparties, 20 less wash pairs.
PaymentReliability(i) ==
    LET all == i.received + i.sent
        fixed == 2 * Smaller(15, i.peers)
    IN  IF all = 0 THEN fixed + 20
        ELSE Smaller(100, Round(50 * i.received + 20 * Larger(0, all - i.wash) + fixed * all, all))

\* 70 for 8 protocols, 30 for 30 recent interactions.
ProtocolParticipation(i) ==
    Smaller(100, Round(35 * Smaller(8, i.protocols) + 4 * Smaller(30, i.recent), 4))

\* Per cent of the index; loadScoringConfig refuses a file whose weights do not sum to 1.
Weights == [governance |-> 25, contribution |-> 30, payment |-> 25, participation |-> 20]

Score(i) ==
    LET g == Governance(i)
        c == Contribution(i)
        p == PaymentReliability(i)
        q == ProtocolParticipation(i)
    IN  [governance |-> g, contribution |-> c, payment |-> p, participation |-> q,
         index |-> Larger(0, Smaller(100, Round(Weights.governance * g + Weights.contribution * c
                            + Weights.payment * p + Weights.participation * q, 100)))]
----------------------------------------------------------------------------
(* BadgeEvaluator.evaluate, with the catalog of config/badges/v1.yaml *)

Rule(code, index, least) == [code |-> code, index |-> index, least |-> least]

Catalog == <<
    Rule("active-voter", 40, [votes |-> 5]),
    Rule("governance-leader", 60, [votes |-> 20]),
    Rule("dao-contributor", 45, [daoPayments |-> 3]),
    Rule("grant-recipient", 35, [grants |-> 2]),
    Rule("protocol-explorer", 40, [protocols |-> 4]),
    Rule("multi-protocol", 55, [protocols |-> 6]),
    Rule("reliable-payer", 50, [payment |-> 60]),
    Rule("trusted-counterparty", 45, [peers |-> 8]),
    Rule("long-tenure", 40, [months |-> 12]),
    Rule("established-wallet", 50, [days |-> 365]),
    Rule("reputation-elite", 85, <<>>),
    Rule("balanced-builder", 70, [governance |-> 50, contribution |-> 50])>>

Codes == {Catalog[n].code : n \in DOMAIN Catalog}

\* Every minimum that the rule names, of an input or of a dimension, is reached.
MeetsCriteria(rule, i, result) ==
    /\ result.index >= rule.index
    /\ \A k \in DOMAIN rule.least :
          (IF k \in DOMAIN result THEN result[k] ELSE i[k]) >= rule.least[k]

Earned(i) ==
    LET result == Score(i)
    IN  {Catalog[n].code : n \in {m \in DOMAIN Catalog : MeetsCriteria(Catalog[m], i, result)}}
----------------------------------------------------------------------------
(* RiskEngine.evaluate, without the labels, whose codes are no part of an address *)

Flags(s) ==
    LET self == IF Count(s, LAMBDA f : f.dir = "self") > 5 THEN {"high_self_transfer"} ELSE {}
        transfers == Count(s, LAMBDA f : f.category = "transfer")
        wash == IF Total(s) > 20 /\ 10 * transfers > 8 * Total(s) THEN {"wash_pattern"} ELSE {}
        all == self \cup wash
    IN  IF all = {} THEN {"clean_history"} ELSE all
----------------------------------------------------------------------------
(* DaoAggregatorService.aggregate, for one DAO *)

\* BigInt of a decimal fraction throws, whatever the direction.
Unreadable(s) == \E f \in Range(s) : f.value = "fraction"

FromDao_BothWays(f, treasuries) == f.peer = "dao" /\ "dao" \in treasuries /\ f.value = "whole"

\* Which incoming payments are the DAO's, with the treasuries that were loaded: its
\* own, or the first DAO of the chain for a known router.
FromDao(f, treasuries) ==
    /\ Incoming(f) /\ f.value = "whole"
    /\ \/ f.peer = "dao" /\ "dao" \in treasuries
       \/ f.category = "dao_contribution" /\ f.entry \in treasuries
       \/ f.peer = "router" /\ "dao" \in treasuries

\* paymentCount and confidence of its row; no row without a payment.
DaoRow(s, treasuries) ==
    LET mine == Having(s, LAMBDA f : FromDao(f, treasuries))
    IN  [payments |-> Count(s, LAMBDA f : FromDao(f, treasuries)),
         confidence |-> CASE mine = {} -> "none"
                          [] \E f \in mine : f.peer # "router" -> "direct_treasury"
                          [] OTHER -> "router_inferred"]
==============================================================================
