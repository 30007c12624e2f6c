--------------------------- MODULE FeatureVectors ---------------------------
(***************************************************************************)
(* compute_features as it is computed (data/features.py), from the sorted  *)
(* columns of one customer's transactions by slices between two positions, *)
(* and the rules on the feature vector (data/rules.py), against the        *)
(* definitions by sets of Rules.  Transactions are loaded in any order.    *)
(*                                                                         *)
(* Units as in Rules; a share or ratio is a pair, numerator and            *)
(* denominator.  Mean, deviation, age and the customer's own attributes    *)
(* are left out.                                                           *)
(***************************************************************************)
EXTENDS Rules, Sequences

CONSTANTS
    Loadable,    \* transactions that may be loaded
    Histories,   \* sets of transactions that are there already
    AsOfs,       \* days features are computed for
    Starts       \* days from which behaviour is known: hist_start

ASSUME FeatureAssumption ==
    /\ AsOfs \subseteq Int /\ Starts \subseteq Int
    /\ \A history \in Histories : IsFiniteSet(history)
    /\ \A t \in Loadable \cup UNION Histories : t.day \in Int /\ t.amount \in Int

VARIABLES
    ledger,   \* the customer's transactions
    asOf,
    start

featureVars == <<ledger, asOf, start>>
-----------------------------------------------------------------------------
(* np.searchsorted, side = "left" and "right".                             *)
Left(arr, day) == Cardinality({i \in 1..Len(arr) : arr[i].day < day})
Right(arr, day) == Cardinality({i \in 1..Len(arr) : arr[i].day <= day})

Inserted(t, arr) ==
    LET n == Right(arr, t.day)
    IN  Append(SubSeq(arr, 1, n), t) \o SubSeq(arr, n + 1, Len(arr))

(* CustomerArrays.from_frame: the columns, sorted by time.                 *)
Arrays(ts) == FoldSet(Inserted, <<>>, ts)

(* Mutation: a window open at its beginning.                               *)
BeginOpen(arr, days) == Right(arr, asOf - days)

End(arr) == Right(arr, asOf)
Begin(arr, days) == Left(arr, asOf - days)

Slice(arr, from, to) == {arr[i] : i \in (from + 1)..to}

SumOf(ts) == MapThenSumSet(LAMBDA t : t.amount, ts)

(* Days on which at least EUR 1,000 came in and four fifths of it left on  *)
(* the same day or the next.                                               *)
RapidDays(w) ==
    LET on(ts, d) == SumOf({t \in ts : t.day = d})
        out == {t \in w : ~ t.in}
    IN  {d \in {t.day : t \in w \ out} :
           LET v == on(w \ out, d)
           IN  v >= 100000 /\ 5 * (on(out, d) + on(out, d + 1)) >= 4 * v}

PriorCount(arr, from) == Begin(arr, 30) - Left(arr, from)

Velocity(arr) ==
    LET prior == asOf - 30 - start
        span == IF prior < 90 THEN prior ELSE 90
        from == IF asOf - 120 > start THEN asOf - 120 ELSE start
    IN  IF prior < 30 THEN <<1, 1>>
        ELSE <<(End(arr) - Begin(arr, 30)) * span, 30 * PriorCount(arr, from) + span>>

Previous(arr) == IF Begin(arr, 30) > 0 THEN arr[Begin(arr, 30)].day ELSE start

Gap(arr) ==
    IF End(arr) > Begin(arr, 30)
    THEN arr[Begin(arr, 30) + 1].day - (IF Previous(arr) > start THEN Previous(arr) ELSE start)
    ELSE 30

PartnersOf(ts) == {t.partner : t \in ts}

(* The vector, from the transactions of the last 30 and 7 days.            *)
Vector(w, w7, count, count7, velocity, gap) ==
    LET in == Incoming(w)
        cash == CashDeposits(w)
        tin7 == SumOf(Incoming(w7))
        tout7 == SumOf(w7 \ Incoming(w7))
    IN  [txn_count_7d                    |-> count7,
         txn_count_30d                   |-> count,
         total_in_7d                     |-> tin7,
         total_in_30d                    |-> SumOf(in),
         total_out_30d                   |-> SumOf(w \ in),
         pass_through_ratio_7d           |-> IF tin7 > 0 THEN <<IF tout7 < tin7 THEN tout7 ELSE tin7, tin7>>
                                             ELSE <<0, 1>>,
         rapid_in_out_days_30d           |-> Cardinality(RapidDays(w)),
         cash_in_amount_30d              |-> SumOf(cash),
         cash_deposit_count_30d          |-> Cardinality(cash),
         near_threshold_cash_count_30d   |-> Cardinality(JustBelow(cash)),
         unique_cash_branches_30d        |-> Cardinality(PartnersOf(cash)),
         unique_counterparties_in_30d    |-> Cardinality(PartnersOf(in)),
         unique_counterparties_out_30d   |-> Cardinality(PartnersOf(w \ in)),
         high_risk_country_amount_30d    |-> SumOf(HighRisk(w)),
         high_risk_country_txn_count_30d |-> Cardinality(HighRisk(w)),
         intl_wire_out_amount_30d        |-> SumOf({t \in w \ in : t.channel = "intl_wire"}),
         velocity_ratio_30d              |-> velocity,
         dormancy_gap_days               |-> gap]

Features(ts) ==
    LET arr == Arrays(ts)
        slice(days) == Slice(arr, Begin(arr, days), End(arr))
        count(days) == End(arr) - Begin(arr, days)
    IN  Vector(slice(30), slice(7), count(30), count(7), Velocity(arr), Gap(arr))

AtLeast(ratio, num, den) == ratio[1] * den >= num * ratio[2]

(* RULES: the conditions, on the vector.                                   *)
Fires(rule, f, sme) ==
    \/ rule = "R01" /\ f.near_threshold_cash_count_30d >= 2
    \/ rule = "R02" /\ f.total_in_7d >= 500000 /\ AtLeast(f.pass_through_ratio_7d, 4, 5)
    \/ rule = "R03" /\ f.high_risk_country_amount_30d >= 100000
    \/ rule = "R04" /\ AtLeast(f.velocity_ratio_30d, 3, 1) /\ f.txn_count_30d >= 25
    \/ rule = "R05" /\ f.cash_in_amount_30d >= (IF sme THEN 6000000 ELSE 1500000)
    \/ rule = "R06" /\ f.dormancy_gap_days >= 60 /\ f.total_in_30d >= 500000
-----------------------------------------------------------------------------
FeatureInit == ledger \in Histories /\ asOf \in AsOfs /\ start \in Starts

(* A transaction is loaded, late or in time.                               *)
Load(t) ==
    /\ t \notin ledger
    /\ ledger' = ledger \cup {t}
    /\ UNCHANGED <<asOf, start>>

FeatureNext == \E t \in Loadable : Load(t)

FeatureSpec == FeatureInit /\ [][FeatureNext]_featureVars
-----------------------------------------------------------------------------
(* The rules on the vector fire exactly when the definitions that the      *)
(* monitoring scan is modelled with do, at every edge of every window, and *)
(* "features only use transactions with ts <= as_of": a later one,         *)
(* whenever it was loaded, changes no feature (compute_features, evaluate). *)
FeaturesExact ==
    LET f == Features(ledger)
    IN  /\ \A sme \in BOOLEAN :
              {rule \in RuleCodes : Fires(rule, f, sme)} = Evaluate(ledger, asOf, start, sme)
        /\ f = Features({t \in ledger : t.day <= asOf})
=============================================================================
