---------------------------- MODULE PolicyEngine ----------------------------
(***************************************************************************)
(* The deterministic approval policy (services/policy_engine.py) and the   *)
(* role matrix it has to agree with (security/rbac.py).                    *)
(*                                                                         *)
(* Code, not the language model, decides whether a recommendation may be   *)
(* applied automatically.  Scores are in per mille, and -1 stands for a    *)
(* score that was never computed (None in the code).                       *)
(***************************************************************************)
EXTENDS Integers

Roles == {"analyst", "investigator", "mlro", "auditor", "admin"}

Actions == {"CLOSE_FALSE_POSITIVE", "ENHANCED_MONITORING",
            "ESCALATE_STR", "RESTRICT_ACCOUNT"}

(* Actions that leave the institution: reporting and restricting.          *)
Severe == {"ESCALATE_STR", "RESTRICT_ACCOUNT"}

-----------------------------------------------------------------------------
(* security/rbac.py *)

MayStart  == {"analyst", "investigator", "mlro"}

MayDecide == {"investigator", "mlro"}

ApprovalAuthority ==
    [a \in Actions |-> IF a \in Severe THEN {"mlro"} ELSE {"investigator", "mlro"}]

-----------------------------------------------------------------------------
(* services/policy_engine.py *)

CashIntensiveShare == 300

NoScore == -1

(* Mutation: the limit itself still closes automatically.                  *)
TenantPolicyLax(tenant) ==
    [autoClose      |-> tenant = "emerald",
     maxScore       |-> IF tenant = "emerald" THEN 51 ELSE 0,
     maxAnomaly     |-> IF tenant = "emerald" THEN 900 ELSE 0,
     autoMonitoring |-> tenant \in {"emerald", "liffey"}]

(* TENANT_POLICY and DEFAULT_POLICY: any other tenant gets the default.    *)
TenantPolicy(tenant) ==
    [autoClose      |-> tenant = "emerald",
     maxScore       |-> IF tenant = "emerald" THEN 50 ELSE 0,
     maxAnomaly     |-> IF tenant = "emerald" THEN 900 ELSE 0,
     autoMonitoring |-> tenant \in {"emerald", "liffey"}]

(* What evaluate reads of the alert, its customer and the case data.       *)
CaseFacts ==
    [tenant   : STRING,
     risk     : Int,
     anomaly  : Int,
     highRisk : BOOLEAN,   \* kyc_risk_rating = "high" or pep_flag
     sme      : BOOLEAN,   \* customer.segment = "sme"
     cash     : Int,       \* features["cash_in_share_30d"]
     flagged  : BOOLEAN]   \* any prompt-injection flag on the case

Blockers(action, c, verified) ==
    LET p == TenantPolicy(c.tenant)
        closing == action = "CLOSE_FALSE_POSITIVE"
        holds(b) ==
          \/ b = "verification_failed" /\ ~verified
          \/ b = "injection_indicators" /\ c.flagged
          \/ b = "high_risk_or_pep" /\ c.highRisk
          \/ b = "tenant_disallows_auto_close" /\ closing /\ ~p.autoClose
          \/ b = "risk_above_limit" /\ closing
             /\ (c.risk = NoScore \/ c.risk >= p.maxScore)
          \/ b = "anomaly_above_limit" /\ closing
             /\ (c.anomaly = NoScore \/ c.anomaly >= p.maxAnomaly)
          \/ b = "cash_intensive_sme" /\ closing
             /\ c.sme /\ c.cash >= CashIntensiveShare
          \/ b = "tenant_disallows_auto_monitoring"
             /\ action = "ENHANCED_MONITORING" /\ ~p.autoMonitoring
    IN  {b \in {"verification_failed", "injection_indicators", "high_risk_or_pep",
                "tenant_disallows_auto_close", "risk_above_limit",
                "anomaly_above_limit", "cash_intensive_sme",
                "tenant_disallows_auto_monitoring"} : holds(b)}

(* Mutation: a flag outweighs everything else.                             *)
RequiresApprovalFlagged(action, c, verified) ==
    (action \in Severe \/ Blockers(action, c, verified) # {}) /\ ~c.flagged

(* Mutation: only severe actions go to a human.                            *)
RequiresApprovalSevere(action, c, verified) == action \in Severe

RequiresApproval(action, c, verified) ==
    action \in Severe \/ Blockers(action, c, verified) # {}

(* The role shown to reviewers; "none" when nothing has to be approved.    *)
RequiredRole(action, c, verified) ==
    IF action \in Severe THEN "mlro"
    ELSE IF Blockers(action, c, verified) # {} THEN "investigator" ELSE "none"
=============================================================================
