---------------------------- MODULE PolicySafety ----------------------------
(***************************************************************************)
(* What the approval policy promises, checked over the boundary values of  *)
(* everything it reads.  A case is ruled on, then new facts about it come  *)
(* in that can only count against it: a flag is raised, a score rises, the *)
(* customer becomes high risk, the verification fails.                     *)
(***************************************************************************)
EXTENDS PolicyEngine

CONSTANTS Tenants,   \* tenant names, some without a policy of their own
          Risks, Anomalies, Shares   \* values around the limits

ASSUME PolicyAssumption ==
    /\ Tenants \subseteq STRING
    /\ Risks \subseteq Nat \cup {NoScore}
    /\ Anomalies \subseteq Nat \cup {NoScore}
    /\ Shares \subseteq Nat

VARIABLES action, facts, verified

policyVars == <<action, facts, verified>>

BoundaryFacts ==
    [tenant : Tenants, risk : Risks, anomaly : Anomalies, highRisk : BOOLEAN,
     sme : BOOLEAN, cash : Shares, flagged : BOOLEAN]

PolicyInit ==
    /\ action \in Actions
    /\ facts \in BoundaryFacts
    /\ verified \in BOOLEAN

RaiseFlag ==
    /\ facts' = [facts EXCEPT !.flagged = TRUE] /\ UNCHANGED <<action, verified>>

BecomeHighRisk ==
    /\ facts' = [facts EXCEPT !.highRisk = TRUE] /\ UNCHANGED <<action, verified>>

RaiseRisk == \E x \in Risks :
    /\ facts.risk # NoScore /\ x > facts.risk
    /\ facts' = [facts EXCEPT !.risk = x] /\ UNCHANGED <<action, verified>>

RaiseAnomaly == \E x \in Anomalies :
    /\ facts.anomaly # NoScore /\ x > facts.anomaly
    /\ facts' = [facts EXCEPT !.anomaly = x] /\ UNCHANGED <<action, verified>>

RaiseCash == \E x \in Shares :
    /\ x > facts.cash
    /\ facts' = [facts EXCEPT !.cash = x] /\ UNCHANGED <<action, verified>>

FailVerification == verified' = FALSE /\ UNCHANGED <<action, facts>>

PolicyNext == RaiseFlag \/ BecomeHighRisk \/ RaiseRisk \/ RaiseAnomaly \/ RaiseCash
              \/ FailVerification

PolicySpec == PolicyInit /\ [][PolicyNext]_policyVars
-----------------------------------------------------------------------------
(* The tenants' alert-handling SOPs, data/knowledge_base: what they allow  *)
(* without a human.  A tenant without an SOP allows nothing.               *)
SopPermits(a, c, v) ==
    /\ v
    /\ \/ a = "ENHANCED_MONITORING" /\ c.tenant \in {"emerald", "liffey"}
       \/ /\ a = "CLOSE_FALSE_POSITIVE" /\ c.tenant = "emerald"
          /\ c.risk \in 0..49 /\ c.anomaly \in 0..899
          /\ ~c.highRisk /\ ~c.flagged /\ (c.sme => c.cash < 300)

(* What the policy engine applies without approval, the tenant's own SOP   *)
(* allows; a score that is missing or on the limit counts as above it.     *)
AutomaticOnlyWithinSop ==
    ~RequiresApproval(action, facts, verified) => SopPermits(action, facts, verified)

(* The role the policy engine names can decide: the authority matrix       *)
(* accepts it and the decision route lets it in.                           *)
RequiredRoleCanDecide ==
    RequiresApproval(action, facts, verified) =>
        RequiredRole(action, facts, verified) \in ApprovalAuthority[action] \cap MayDecide

(* Facts against a case never make an approval unnecessary.                *)
NeverWaived ==
    [][RequiresApproval(action, facts, verified) =>
          RequiresApproval(action, facts, verified)']_policyVars
=============================================================================
