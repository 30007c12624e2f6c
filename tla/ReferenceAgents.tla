-------------------------- MODULE ReferenceAgents --------------------------
(***************************************************************************)
(* The deterministic agents that answer instead of the language models     *)
(* when llm_provider is "deterministic" (ai/simulators.py, with            *)
(* DeterministicProvider), in the pipeline every model runs in: each       *)
(* action of AgentPipeline with the answer the simulator gives, the tools  *)
(* with what they return for one case, and the verifier's recomputation of *)
(* every number.                                                           *)
(*                                                                         *)
(* Simplifications: amounts and features are whole numbers, rates per      *)
(* cent; the key findings of a decision cite all that its findings cite;   *)
(* the lists of guidance and citations are not cut; the narrative, which   *)
(* names only identifiers, holds no personal data.                         *)
(***************************************************************************)
EXTENDS AgentPipeline, Sequences, FiniteSetsExt

CONSTANTS
    Ledger,       \* the customer's transactions in the 60 days before the alert
    PriorAlerts,  \* of the customer
    Relevance,    \* [Chunks -> what simulate_policy makes of their section]
    Dossiers,     \* what else a case may be: its alert, customer and model
    MaxListed,    \* limit of a get_transactions call
    MaxEvidence   \* evidence refs a finding may have

FeatureMetrics ==
    {"total_in_7d", "pass_through_ratio_7d", "unique_cash_branches_30d",
     "unique_counterparties_in_30d", "turnover_vs_expected_30d",
     "high_risk_country_amount_30d", "dormancy_gap_days", "crypto_out_amount_30d"}

Rules == {"R01_STRUCTURING", "R02_RAPID_MOVEMENT", "R03_HIGH_RISK_JURISDICTION",
          "R04_VELOCITY_SPIKE", "R05_LARGE_CASH", "R06_DORMANT_REACTIVATION"}

VARIABLES
    dossier,   \* rule, features, threshold of the production model, high KYC rating
    triage,    \* [types, enhanced]: the answer of the triage agent
    notes      \* the findings, each with its direction, evidence and claims

refVars == <<pipelineVars, dossier, triage, notes>>
-----------------------------------------------------------------------------
(* tools.py: what the calls of the plan return                             *)

Largest(S, n) == {t \in S : Cardinality({u \in S : u.amount > t.amount}) < n}

Listings == {"recent", "cash60", "out60"}

Matching(c) ==
    {t \in Ledger : CASE c = "recent" -> t.days <= 30
                      [] c = "cash60" -> t.channel = "cash_deposit"
                      [] c = "out60"  -> t.out /\ t.amount >= 500}

Listed(c) == Largest(Matching(c), MaxListed)

Partners(S) == {<<"CP", t.partner>> : t \in S}

Returned(c) ==
    CASE c = "features"       -> {<<"FEATURE", m>> : m \in FeatureMetrics} \cup {<<"ALERT", "this">>}
      [] c = "profile"        -> {<<"PROFILE", "customer">>}
      [] c = "counterparties" -> Partners(Matching("recent"))
      [] c = "prior"          -> {<<"ALERT", a>> : a \in PriorAlerts}
      [] OTHER                -> {<<"TX", t.id>> : t \in Listed(c)} \cup Partners(Listed(c))

ASSUME ReferenceAssumption ==
    /\ Calls = {"features", "profile", "counterparties", "prior"} \cup Listings
    /\ Discloses = [c \in Calls |-> Returned(c)]
    /\ Suspicious = {<<"TX", t.id>> : t \in {t \in Ledger : t.flagged}}
    /\ IsFiniteSet(Ledger) /\ \A t \in Ledger : t.amount \in Nat
    /\ \A t, u \in Ledger : t.id = u.id \/ t.amount = u.amount => t = u
    /\ MaxEvidence \in Nat \ {0}
    /\ \A d \in Dossiers :
          d.features \in [FeatureMetrics -> Int] /\ d.rule \in Rules /\ d.threshold \in Nat

(* The transactions the history of the investigation shows.                *)
Seen == UNION {Listed(c) : c \in asked \cap Listings}
-----------------------------------------------------------------------------
(* simulate_triage                                                         *)

Typologies ==
    LET f == dossier.features
        of(rule) ==
          CASE rule = "R01_STRUCTURING" -> "STRUCTURING"
            [] rule = "R03_HIGH_RISK_JURISDICTION" -> "HIGH_RISK_JURISDICTION"
            [] rule = "R06_DORMANT_REACTIVATION" -> "DORMANT_REACTIVATION"
            [] rule = "R05_LARGE_CASH" -> IF case.sme THEN "FUNNEL_ACCOUNT" ELSE "STRUCTURING"
            [] OTHER -> IF f["crypto_out_amount_30d"] > 0 \/ f["unique_counterparties_in_30d"] >= 10
                        THEN "MONEY_MULE" ELSE "UNUSUAL_VOLUME"
    IN  {of(dossier.rule)}
        \cup (IF f["high_risk_country_amount_30d"] > 0 THEN {"HIGH_RISK_JURISDICTION"} ELSE {})

Enhanced == case.risk >= 400 \/ dossier.kycHigh \/ case.anomaly >= 950

SimTriage ==
    /\ Triage
    /\ triage' = [types |-> Typologies, enhanced |-> Enhanced]
    /\ UNCHANGED <<dossier, notes>>
-----------------------------------------------------------------------------
(* simulate_investigation                                                  *)

Plan ==
    <<"features", "profile", "recent", "counterparties", "prior">>
    \o (IF triage.enhanced /\ triage.types \cap {"STRUCTURING", "FUNNEL_ACCOUNT"} # {}
        THEN <<"cash60">> ELSE <<>>)
    \o (IF triage.enhanced /\ triage.types \ {"STRUCTURING", "FUNNEL_ACCOUNT"} # {}
        THEN <<"out60">> ELSE <<>>)

(* The first call of the plan that is not in the history, budget left.     *)
Pending == {i \in 1..Len(Plan) : Plan[i] \notin asked /\ Cardinality(asked) < MaxToolSteps}

SimCall ==
    /\ Pending # {}
    /\ CallTool(Plan[Min(Pending)])
    /\ UNCHANGED <<dossier, triage, notes>>

Total(S) == MapThenSumSet(LAMBDA t : t.amount, S)

TxRefs(S) == {<<"TX", t.id>> : t \in Largest(S, MaxEvidence)}

Claim(m, v) == [metric |-> m, value |-> v]

FeatureClaims(M) == {Claim(m, dossier.features[m]) : m \in M}

FeatureRefs(M) == {<<"FEATURE", m>> : m \in M}

Note(direction, refs, claims) == [direction |-> direction, refs |-> refs, claims |-> claims]

When(holds, note) == IF holds THEN {note} ELSE {}

WhenAbove(m, limit, aggravating) ==
    When(dossier.features[m] >= limit,
         Note(IF aggravating THEN "aggravating" ELSE "neutral", FeatureRefs({m}), FeatureClaims({m})))

(* Mutation: the totals are those of all matching transactions, cited or   *)
(* not.                                                                    *)
CitedAll(S) == S

(* Claims are computed over exactly the transactions cited.                *)
Cited(S) == Largest(S, MaxEvidence)

NearThreshold == {t \in Seen : t.channel = "cash_deposit" /\ t.amount \in 7500..9999}

Exits == {t \in Seen : t.out /\ t.channel \in {"crypto_exchange", "intl_wire"}}

CashNote ==
    LET near == Cited(NearThreshold)
        partners == {t.partner : t \in near}
    IN  When(Cardinality(near) >= 2,
             Note(IF Cardinality(partners) > 1 \/ Cardinality(near) >= 4
                  THEN "aggravating" ELSE "neutral",
                  TxRefs(NearThreshold),
                  {Claim("sum_amount_eur_of_refs", Total(near)),
                   Claim("count_of_refs", Cardinality(near))}))

ExitsNote ==
    LET exits == Cited(Exits)
        regular == (\A t \in exits : t.amount <= 2500) /\ Cardinality(exits) <= 3
        risky == (\E t \in exits : t.risky) /\ Total(exits) > 5000
    IN  When(exits # {},
             Note(IF regular /\ ~ risky THEN "neutral" ELSE "aggravating",
                  TxRefs(Exits),
                  {Claim("sum_amount_eur_of_refs", Total(exits))}))

TurnoverNote ==
    LET ratio == dossier.features["turnover_vs_expected_30d"]
    IN  When("profile" \in asked,
             Note(IF ratio >= 250 THEN "aggravating"
                  ELSE IF ratio <= 130 THEN "mitigating" ELSE "neutral",
                  {<<"PROFILE", "customer">>} \cup FeatureRefs({"turnover_vs_expected_30d"}),
                  FeatureClaims({"turnover_vs_expected_30d"})))

PayrollNote ==
    LET payees == {t \in Matching("recent") : t.out /\ t.channel = "sepa"}
    IN  When("counterparties" \in asked /\ case.sme /\ payees # {} /\ Exits = {},
             Note("mitigating", Partners(payees), {}))

FeatureNotes ==
    LET f == dossier.features
        pass == {"pass_through_ratio_7d", "total_in_7d"}
    IN  When(f["total_in_7d"] >= 5000,
             Note(IF f["pass_through_ratio_7d"] >= 80 /\ f["unique_counterparties_in_30d"] >= 8
                  THEN "aggravating" ELSE "neutral", FeatureRefs(pass), FeatureClaims(pass)))
        \cup WhenAbove("unique_cash_branches_30d", 4, TRUE)
        \cup WhenAbove("unique_counterparties_in_30d", 12, TRUE)
        \cup WhenAbove("high_risk_country_amount_30d", 1, f["high_risk_country_amount_30d"] > 5000)
        \cup WhenAbove("dormancy_gap_days", 60, TRUE)

HistoryNotes ==
    LET injected == {t \in Seen : t.flagged}
    IN  When("prior" \in asked /\ PriorAlerts # {},
             Note("neutral", {<<"ALERT", a>> : a \in PriorAlerts}, {}))
        \cup When(injected # {}, Note("aggravating", TxRefs(injected), {}))

AllNotes ==
    CashNote \cup ExitsNote \cup TurnoverNote \cup PayrollNote \cup HistoryNotes
    \cup IF "features" \in asked THEN FeatureNotes ELSE {}

SimNotes ==
    IF AllNotes = {} /\ "features" \in asked
    THEN {Note("mitigating", {<<"ALERT", "this">>}, {})} ELSE AllNotes

Aggravating(N) == {n \in N : n.direction = "aggravating"}
-----------------------------------------------------------------------------
(* verifier._claim_ok, from the system's own data                          *)

Within(a, b, unit) == 100 * (a - b) <= unit /\ 100 * (b - a) <= unit

Max2(a, b) == IF a >= b THEN a ELSE b

ClaimOk(c, refs) ==
    LET cited == {t \in Seen : <<"TX", t.id>> \in refs}
        actual == dossier.features[c.metric]
    IN  CASE c.metric = "sum_amount_eur_of_refs" ->
               cited # {} /\ Within(Total(cited), c.value, Max2(100, c.value))
          [] c.metric = "count_of_refs" -> c.value = Cardinality({r \in refs : r[1] = "TX"})
          [] c.metric \in FeatureMetrics -> Within(actual, c.value, Max2(1, actual))

(* The findings as AgentPipeline has them.                                 *)
Summary(N) ==
    [refs        |-> UNION {n.refs : n \in N},
     numbers     |-> \A n \in N : \A c \in n.claims : ClaimOk(c, n.refs),
     aggravating |-> IF Cardinality(Aggravating(N)) >= 2 THEN 2 ELSE Cardinality(Aggravating(N))]

(* No findings at all end the investigation with AgentLoopError.           *)
SimFinish ==
    /\ stage = "investigation" /\ Pending = {}
    /\ SimNotes # {}
    /\ FinishInvestigation(Summary(SimNotes))
    /\ notes' = SimNotes
    /\ UNCHANGED <<dossier, triage>>
-----------------------------------------------------------------------------
(* simulate_policy and simulate_decision                                   *)

SimPolicy(found) ==
    /\ MapPolicy(found, [guidance |-> {k \in found : Relevance[k] # "unused"}])
    /\ UNCHANGED <<dossier, triage, notes>>

(* "or 0.2": also a threshold of zero.                                     *)
Threshold == IF dossier.threshold = 0 THEN 200 ELSE dossier.threshold

SimAction ==
    IF case.risk >= 600 /\ findings.aggravating >= 2
    THEN IF "MONEY_MULE" \in triage.types /\ dossier.features["crypto_out_amount_30d"] >= 5000
            /\ case.risk >= 850
         THEN "RESTRICT_ACCOUNT" ELSE "ESCALATE_STR"
    ELSE IF case.risk >= Threshold \/ findings.aggravating >= 1
         THEN "ENHANCED_MONITORING" ELSE "CLOSE_FALSE_POSITIVE"

SimDecision ==
    LET wanted == IF SimAction = "CLOSE_FALSE_POSITIVE" THEN "supports_legitimate"
                  ELSE "supports_suspicion"
    IN  [action |-> SimAction, refs |-> findings.refs,
         citations |-> {k \in policy.guidance : Relevance[k] \in {wanted, "procedural"}},
         pii |-> FALSE]

(* A repair asks for the same decision again, and gets it.                 *)
SimDecide ==
    /\ Decide(SimDecision)
    /\ UNCHANGED <<dossier, triage, notes>>
-----------------------------------------------------------------------------
ReferenceInit ==
    /\ PipelineInit
    /\ dossier \in Dossiers
    /\ triage = [types |-> {}, enhanced |-> FALSE]
    /\ notes = {}

ReferenceNext ==
    \/ SimTriage \/ SimCall \/ SimFinish \/ SimDecide
    \/ \E found \in SUBSET Chunks : SimPolicy(found)

(* The thread that executes goes on.                                       *)
ReferenceSpec == ReferenceInit /\ [][ReferenceNext]_refVars /\ WF_refVars(ReferenceNext)
-----------------------------------------------------------------------------
(* Every answer fits the schema it is parsed with: findings within their   *)
(* number and their evidence, no more hypotheses than allowed              *)
(* (simulate_triage, simulate_investigation, schemas.py).                  *)
AnswersFit ==
    /\ Cardinality(triage.types) <= 3
    /\ Cardinality(notes) <= 12
    /\ \A n \in notes : /\ n.refs # {}
                        /\ Cardinality({r \in n.refs : r[1] = "TX"}) <= MaxEvidence
                        /\ Cardinality(n.claims) <= 5

(* A closure at a risk that is below the threshold in production and too   *)
(* high for the verifier.  It takes a threshold above 0.5, such as the     *)
(* 0.7338 of docs/evaluation.md:39.                                        *)
ClosesAtRisk == SimAction = "CLOSE_FALSE_POSITIVE" /\ case.risk >= 500

(* Nothing the reference agents end with is refused by the verifier for    *)
(* any other reason, so that the first attempt passes: no call of the plan *)
(* is refused, repeated or over budget, the answers fit their schema, and  *)
(* every number is recomputed from exactly what is cited.  A closure at    *)
(* risk is proposed again at every attempt and left to a human.            *)
AcceptedUnlessAtRisk ==
    /\ AnswersFit
    /\ attempt > 0 => ClosesAtRisk
    /\ outcome # None =>
          /\ outcome.kind = "recommended"
          /\ outcome.verified <=> ~ ClosesAtRisk
          /\ ~ outcome.verified => attempt = DecisionRetries /\ ~ outcome.automatic

(* Every execution of the reference agents ends so, with a recommendation: *)
(* findings are never empty (simulators.py, with DeterministicProvider).   *)
ReferenceRecommends == stage = "investigation" ~> outcome # None /\ AcceptedUnlessAtRisk

(* simulators.py:4-5: the reference agents "must satisfy the same output   *)
(* schemas and verifier".  Where a closure is at risk they do not.         *)
SatisfiesVerifier == outcome # None => outcome.kind = "recommended" /\ outcome.verified
=============================================================================
