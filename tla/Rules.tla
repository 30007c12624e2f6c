------------------------------- MODULE Rules -------------------------------
(***************************************************************************)
(* The monitoring rules of data/rules.py over the features they use        *)
(* (data/features.py: compute_features).  Time is in days and money in     *)
(* cents, both whole numbers; a ratio is compared by multiplying out.      *)
(***************************************************************************)
EXTENDS Integers, FiniteSets, FiniteSetsExt

Channels == {"sepa", "cash_deposit", "intl_wire"}

(* What a transaction tells the rules.                                     *)
Movement(ids) ==
    [id : ids, day : Nat, amount : Nat, in : BOOLEAN, channel : Channels, highRisk : BOOLEAN]

RuleCodes == {"R01", "R02", "R03", "R04", "R05", "R06"}

(* Both ends of a window are inside it, and nothing after asOf is.         *)
Window(ts, asOf, days) == {t \in ts : asOf - days <= t.day /\ t.day <= asOf}

Amount(ts) == MapThenSumSet(LAMBDA t : t.amount, ts)

Incoming(ts) == {t \in ts : t.in}

CashDeposits(ts) == {t \in Incoming(ts) : t.channel = "cash_deposit"}

JustBelow(ts) == {t \in ts : t.amount \in 750000..999999}

HighRisk(ts) == {t \in ts : t.highRisk}

(* history: the day from which the customer's behaviour is known.          *)
DormancyGap(ts, asOf, history) ==
    LET window == Window(ts, asOf, 30)
        first == CHOOSE t \in window : \A x \in window : t.day <= x.day
        before == {t.day : t \in {x \in ts : x.day < asOf - 30}}
    IN  IF window = {} THEN 30 ELSE first.day - Max(before \cup {history})

(* The 90 days before the window, as far as they are known.                *)
Before(ts, asOf, history) ==
    {t \in ts : t.day < asOf - 30 /\ t.day >= asOf - 120 /\ t.day >= history}

(* Three times the monthly average, plus one, of up to 90 days before the  *)
(* window; not defined, so never a spike, without 30 days of history.      *)
VelocitySpike(ts, asOf, history) ==
    LET prior == asOf - 30 - history
        span == IF prior < 90 THEN prior ELSE 90
        count == Cardinality(Window(ts, asOf, 30))
    IN  /\ prior >= 30
        /\ count * span >= 3 * (30 * Cardinality(Before(ts, asOf, history)) + span)
        /\ count >= 25

Condition(rule, ts, asOf, history, sme) ==
    LET window == Window(ts, asOf, 30)
        week == Window(ts, asOf, 7)
        moved == Amount(Incoming(week))
    IN  \/ /\ rule = "R01"
           /\ Cardinality(JustBelow(CashDeposits(window))) >= 2
        \/ /\ rule = "R02"
           /\ moved >= 500000
           /\ 5 * Amount(week \ Incoming(week)) >= 4 * moved
        \/ /\ rule = "R03"
           /\ Amount(HighRisk(window)) >= 100000
        \/ /\ rule = "R04"
           /\ VelocitySpike(ts, asOf, history)
        \/ /\ rule = "R05"
           /\ Amount(CashDeposits(window)) >= (IF sme THEN 6000000 ELSE 1500000)
        \/ /\ rule = "R06"
           /\ DormancyGap(ts, asOf, history) >= 60
           /\ Amount(Incoming(window)) >= 500000

(* data/rules.py: evaluate                                                 *)
Evaluate(ts, asOf, history, sme) == {rule \in RuleCodes : Condition(rule, ts, asOf, history, sme)}
=============================================================================
