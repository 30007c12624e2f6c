--------------------------- MODULE MCComputations ---------------------------
(* What is computed without concurrency: the policy's rulings, the chunks  *)
(* of a document, the features of a customer and the answers of the        *)
(* reference agents, over small inputs on both sides of every limit.  The  *)
(* components share no variable, so that each is explored with the others  *)
(* at one state.                                                           *)
EXTENDS PolicySafety, Chunking, FeatureVectors, ReferenceAgents

CONSTANTS procedure, redFlags, closure

VARIABLE part

(* Policy: every value it compares with a limit, on both sides of it.      *)
MCTenants == {"emerald", "liffey", "other"}
MCRisks == {NoScore, 0, 49, 50}
MCAnomalies == {NoScore, 899, 900}
MCShares == {299, 300}

(* Chunking: two headings, which may come again, and lines of one word, of *)
(* a few and of more than a window.                                        *)
MCLines ==
    {[kind |-> "heading", name |-> name] : name \in {"Red flags", "Approval"}}
    \cup {[kind |-> "blank"]}
    \cup {[kind |-> "text", words |-> n] : n \in {1, 3, 9}}

(* Features for day 150: transactions on both sides of the beginning of    *)
(* the week (143), of the month (120), of the prior 90 days (30) and of    *)
(* the known behaviour, and one of the day after.                          *)
Loaded(id, day, amount, in, channel, partner, highRisk) ==
    [id |-> id, day |-> day, amount |-> amount, in |-> in, channel |-> channel,
     partner |-> partner, highRisk |-> highRisk]

MCLoadable ==
    {Loaded(1, 119, 750000, TRUE, "cash_deposit", "b1", FALSE),
     Loaded(2, 120, 999999, TRUE, "cash_deposit", "b2", FALSE),
     Loaded(3, 143, 500000, TRUE, "cash_deposit", "b1", FALSE),
     Loaded(4, 142, 400000, FALSE, "intl_wire", "c1", TRUE),
     Loaded(5, 150, 400000, FALSE, "sepa", "c2", FALSE),
     Loaded(6, 151, 800000, TRUE, "cash_deposit", "b1", TRUE),
     Loaded(7, 60, 100, FALSE, "sepa", "c2", FALSE),
     Loaded(8, 29, 100, FALSE, "sepa", "c2", FALSE)}

(* Payments of one euro, so many on a day.                                 *)
Small(n, day) == {Loaded(1000 * day + i, day, 100, FALSE, "sepa", "c2", FALSE) : i \in 1..n}

MCHistories == {{}, Small(24, 130), Small(24, 130) \cup Small(7, 90), Small(25, 121) \cup Small(22, 30)}

(* Reference agents: three cash deposits below EUR 10,000, one of them     *)
(* only in the 60-day listing; a small and a large exit; two payments to   *)
(* suppliers, one with a suspicious reference.                             *)
Tx(id, days, amount, channel, out, partner, risky, flag) ==
    [id |-> id, days |-> days, amount |-> amount, channel |-> channel, out |-> out,
     partner |-> partner, risky |-> risky, flagged |-> flag]

MCLedger ==
    {Tx(1, 10, 7500, "cash_deposit", FALSE, "b1", FALSE, FALSE),
     Tx(2, 20, 9999, "cash_deposit", FALSE, "b1", FALSE, FALSE),
     Tx(3, 50, 8000, "cash_deposit", FALSE, "b1", FALSE, FALSE),
     Tx(4, 50, 2500, "intl_wire", TRUE, "c1", TRUE, FALSE),
     Tx(5, 55, 5001, "crypto_exchange", TRUE, "c2", FALSE, FALSE),
     Tx(6, 55, 900, "sepa", TRUE, "c3", FALSE, TRUE),
     Tx(7, 5, 400, "sepa", TRUE, "c4", FALSE, FALSE)}

MCCalls == {"features", "profile", "counterparties", "prior", "recent", "cash60", "out60"}
MCDiscloses == [c \in MCCalls |-> Returned(c)]
MCSuspicious == {<<"TX", t.id>> : t \in {t \in Ledger : t.flagged}}
MCRefs == UNION {Returned(c) : c \in MCCalls}
MCChunks == {procedure, redFlags, closure}
MCRelevance == [k \in MCChunks |-> CASE k = procedure -> "procedural"
                                     [] k = redFlags -> "supports_suspicion"
                                     [] OTHER -> "supports_legitimate"]
MCLevel == [k \in MCChunks |-> IF k = redFlags THEN 2 ELSE 1]

Quiet == [m \in FeatureMetrics |-> IF m = "turnover_vs_expected_30d" THEN 130 ELSE 0]
Mule == [Quiet EXCEPT !["total_in_7d"] = 5000, !["pass_through_ratio_7d"] = 80,
                      !["unique_counterparties_in_30d"] = 12, !["crypto_out_amount_30d"] = 5000,
                      !["turnover_vs_expected_30d"] = 250]
Abroad == [Quiet EXCEPT !["high_risk_country_amount_30d"] = 5000, !["dormancy_gap_days"] = 60,
                        !["unique_cash_branches_30d"] = 4]

(* Thresholds on both sides of the verifier's limit for closures, 734 the  *)
(* one of docs/evaluation.md, and none.                                    *)
MCDossiers ==
    [rule : Rules, features : {Quiet, Mule, Abroad}, threshold : {0, 120, 500, 734},
     kycHigh : BOOLEAN]

Case(risk, anomaly, sme) ==
    [tenant |-> "emerald", risk |-> risk, anomaly |-> anomaly, highRisk |-> FALSE,
     sme |-> sme, cash |-> 0, flagged |-> FALSE]
MCCases == {Case(100, 900, FALSE), Case(100, 950, TRUE), Case(499, 900, TRUE),
            Case(500, 900, FALSE), Case(733, 900, TRUE), Case(850, 900, FALSE)}
-----------------------------------------------------------------------------
PolicyAtRest ==
    /\ action = "ENHANCED_MONITORING" /\ facts = CHOOSE c \in BoundaryFacts : TRUE
    /\ verified = TRUE
DocumentAtRest == doc = <<>> /\ ChunkingInit
LedgerAtRest == ledger = {} /\ asOf = 150 /\ start = 0
AgentsAtRest ==
    /\ role = "analyst" /\ case = CHOOSE c \in MCCases : TRUE
    /\ dossier = CHOOSE d \in Dossiers : TRUE
    /\ ReferenceInit

MCInit ==
    \/ part = "policy" /\ PolicyInit /\ DocumentAtRest /\ LedgerAtRest /\ AgentsAtRest
    \/ part = "document" /\ PolicyAtRest /\ ChunkingInit /\ LedgerAtRest /\ AgentsAtRest
    \/ part = "features" /\ PolicyAtRest /\ DocumentAtRest /\ FeatureInit /\ AgentsAtRest
    \/ part = "agents" /\ PolicyAtRest /\ DocumentAtRest /\ LedgerAtRest /\ ReferenceInit

MCNext ==
    \/ part = "policy" /\ PolicyNext /\ UNCHANGED <<chunkingVars, featureVars, refVars, part>>
    \/ part = "document" /\ ChunkingNext /\ UNCHANGED <<policyVars, featureVars, refVars, part>>
    \/ part = "features" /\ FeatureNext /\ UNCHANGED <<policyVars, chunkingVars, refVars, part>>
    \/ part = "agents" /\ ReferenceNext /\ UNCHANGED <<policyVars, chunkingVars, featureVars, part>>

MCSpec ==
    /\ MCInit
    /\ [][MCNext]_<<policyVars, chunkingVars, featureVars, refVars, part>>
    /\ WF_refVars(part = "agents" /\ ReferenceNext)
=============================================================================
