--------------------------- MODULE PipelineProofs ---------------------------
(***************************************************************************)
(* Proofs about what an agent's answer goes through: the approval policy   *)
(* for any tenants, scores and shares, not only those around the limits,   *)
(* the LLM gateway's retry loop and circuit breaker, and one execution of  *)
(* the agents for any evidence, knowledge base, tool budget and number of  *)
(* repairs.                                                                *)
(***************************************************************************)
EXTENDS AgentPipeline, PolicySafety, LlmGateway, FiniteSetTheorems, TLAPS

-----------------------------------------------------------------------------
(* The approval policy                                                     *)

PolicyTypeOK == action \in Actions /\ facts \in BoundaryFacts /\ verified \in BOOLEAN

LEMMA PolicyTypeCorrect == PolicySpec => []PolicyTypeOK
<1>1. PolicyInit => PolicyTypeOK
  BY DEF PolicyInit, PolicyTypeOK
<1>2. PolicyTypeOK /\ [PolicyNext]_policyVars => PolicyTypeOK'
  BY DEF PolicyTypeOK, PolicyNext, policyVars, RaiseFlag, BecomeHighRisk, RaiseRisk,
         RaiseAnomaly, RaiseCash, FailVerification, BoundaryFacts
<1>3. QED BY <1>1, <1>2, PTL DEF PolicySpec

LEMMA IntegerFacts ==
    ASSUME NEW c \in BoundaryFacts
    PROVE  c.risk \in Int /\ c.anomaly \in Int /\ c.cash \in Int
<1>1. Risks \subseteq Int /\ Anomalies \subseteq Int /\ Shares \subseteq Int
  BY PolicyAssumption DEF NoScore
<1>2. c.risk \in Risks /\ c.anomaly \in Anomalies /\ c.cash \in Shares
  BY DEF BoundaryFacts
<1>3. QED BY <1>1, <1>2

(* Without a blocker a case is within its tenant's limits.                 *)
LEMMA NoBlockers ==
    ASSUME NEW a, NEW c \in BoundaryFacts, NEW v \in BOOLEAN, Blockers(a, c, v) = {}
    PROVE  /\ v /\ ~c.flagged /\ ~c.highRisk
           /\ a = "CLOSE_FALSE_POSITIVE" =>
                 /\ TenantPolicy(c.tenant).autoClose
                 /\ c.risk # NoScore /\ c.risk < TenantPolicy(c.tenant).maxScore
                 /\ c.anomaly # NoScore /\ c.anomaly < TenantPolicy(c.tenant).maxAnomaly
                 /\ c.sme => c.cash < CashIntensiveShare
           /\ a = "ENHANCED_MONITORING" => TenantPolicy(c.tenant).autoMonitoring
<1>1. /\ "verification_failed" \notin Blockers(a, c, v)
      /\ "injection_indicators" \notin Blockers(a, c, v)
      /\ "high_risk_or_pep" \notin Blockers(a, c, v)
      /\ "tenant_disallows_auto_close" \notin Blockers(a, c, v)
      /\ "risk_above_limit" \notin Blockers(a, c, v)
      /\ "anomaly_above_limit" \notin Blockers(a, c, v)
      /\ "cash_intensive_sme" \notin Blockers(a, c, v)
      /\ "tenant_disallows_auto_monitoring" \notin Blockers(a, c, v)
  OBVIOUS
<1>2. /\ c.risk \in Int /\ c.anomaly \in Int /\ c.cash \in Int
      /\ TenantPolicy(c.tenant).maxScore \in Int /\ TenantPolicy(c.tenant).maxAnomaly \in Int
  <2>1. TenantPolicy(c.tenant).maxScore \in Int /\ TenantPolicy(c.tenant).maxAnomaly \in Int
    BY DEF TenantPolicy
  <2>2. QED BY <2>1, IntegerFacts
<1>3. v /\ ~c.flagged /\ ~c.highRisk
  BY <1>1 DEF Blockers
<1>4. ASSUME a = "CLOSE_FALSE_POSITIVE"
      PROVE  /\ TenantPolicy(c.tenant).autoClose
             /\ c.risk # NoScore /\ ~(c.risk >= TenantPolicy(c.tenant).maxScore)
             /\ c.anomaly # NoScore /\ ~(c.anomaly >= TenantPolicy(c.tenant).maxAnomaly)
             /\ c.sme => ~(c.cash >= CashIntensiveShare)
  BY <1>1, <1>4 DEF Blockers
<1>5. a = "ENHANCED_MONITORING" => TenantPolicy(c.tenant).autoMonitoring
  BY <1>1 DEF Blockers
<1>6. QED BY <1>2, <1>3, <1>4, <1>5 DEF CashIntensiveShare

(* What is applied without approval, the tenant's SOP permits.             *)
THEOREM WithinSop == PolicySpec => []AutomaticOnlyWithinSop
<1>1. PolicyTypeOK => AutomaticOnlyWithinSop
  <2> SUFFICES ASSUME PolicyTypeOK, ~RequiresApproval(action, facts, verified)
               PROVE  SopPermits(action, facts, verified)
    BY DEF AutomaticOnlyWithinSop
  <2>1. /\ action \in {"CLOSE_FALSE_POSITIVE", "ENHANCED_MONITORING"}
        /\ Blockers(action, facts, verified) = {}
    BY DEF RequiresApproval, PolicyTypeOK, Actions, Severe
  <2>2. /\ verified /\ ~facts.flagged /\ ~facts.highRisk
        /\ action = "CLOSE_FALSE_POSITIVE" =>
              /\ TenantPolicy(facts.tenant).autoClose
              /\ facts.risk # NoScore /\ facts.risk < TenantPolicy(facts.tenant).maxScore
              /\ facts.anomaly # NoScore /\ facts.anomaly < TenantPolicy(facts.tenant).maxAnomaly
              /\ facts.sme => facts.cash < CashIntensiveShare
        /\ action = "ENHANCED_MONITORING" => TenantPolicy(facts.tenant).autoMonitoring
    BY <2>1, NoBlockers DEF PolicyTypeOK
  <2>3. CASE action = "ENHANCED_MONITORING"
    BY <2>2, <2>3 DEF SopPermits, TenantPolicy
  <2>4. CASE action = "CLOSE_FALSE_POSITIVE"
    <3>1. facts.tenant = "emerald"
      BY <2>2, <2>4 DEF TenantPolicy
    <3>2. /\ TenantPolicy(facts.tenant).maxScore = 50
          /\ TenantPolicy(facts.tenant).maxAnomaly = 900
      BY <3>1 DEF TenantPolicy
    <3>3. facts.risk \in Nat /\ facts.anomaly \in Nat /\ facts.cash \in Nat
      BY <2>2, <2>4, PolicyAssumption DEF PolicyTypeOK, BoundaryFacts
    <3>4. facts.risk \in 0..49 /\ facts.anomaly \in 0..899 /\ (facts.sme => facts.cash < 300)
      BY <2>2, <2>4, <3>2, <3>3 DEF CashIntensiveShare
    <3>5. QED BY <2>2, <2>4, <3>1, <3>4 DEF SopPermits
  <2>5. QED BY <2>1, <2>3, <2>4
<1>2. QED BY <1>1, PolicyTypeCorrect, PTL

(* The role the policy engine names may decide on the recommendation.      *)
THEOREM NamedRoleDecides == PolicySpec => []RequiredRoleCanDecide
<1>1. PolicyTypeOK => RequiredRoleCanDecide
  BY DEF PolicyTypeOK, RequiredRoleCanDecide, RequiresApproval, RequiredRole,
         ApprovalAuthority, Actions, Severe, MayDecide
<1>2. QED BY <1>1, PolicyTypeCorrect, PTL

(* New facts that count against a case only add blockers.                  *)
LEMMA BlockersGrow ==
    ASSUME PolicyTypeOK, PolicyNext
    PROVE  Blockers(action, facts, verified) \subseteq Blockers(action, facts, verified)'
<1>1. facts.risk \in Int /\ facts.anomaly \in Int /\ facts.cash \in Int
  BY IntegerFacts DEF PolicyTypeOK
<1>2. /\ Risks \subseteq Int /\ Anomalies \subseteq Int /\ Shares \subseteq Int
      /\ \A x \in Risks \cup Anomalies : x # NoScore => x \in Nat
  BY PolicyAssumption DEF NoScore
<1>3. /\ TenantPolicy(facts.tenant).maxScore \in Int
      /\ TenantPolicy(facts.tenant).maxAnomaly \in Int
      /\ CashIntensiveShare \in Int
  BY DEF TenantPolicy, CashIntensiveShare
<1>4. /\ action' = action /\ facts'.tenant = facts.tenant /\ facts'.sme = facts.sme
      /\ verified' => verified
      /\ facts.flagged => facts'.flagged
      /\ facts.highRisk => facts'.highRisk
  BY DEF PolicyTypeOK, BoundaryFacts, PolicyNext, RaiseFlag, BecomeHighRisk, RaiseRisk,
         RaiseAnomaly, RaiseCash, FailVerification
<1>5. /\ facts'.risk = facts.risk \/ (facts'.risk \in Int /\ facts'.risk > facts.risk
                                        /\ facts.risk # NoScore)
      /\ facts'.anomaly = facts.anomaly
            \/ (facts'.anomaly \in Int /\ facts'.anomaly > facts.anomaly
                 /\ facts.anomaly # NoScore)
      /\ facts'.cash = facts.cash \/ (facts'.cash \in Int /\ facts'.cash > facts.cash)
  BY <1>2 DEF PolicyTypeOK, BoundaryFacts, PolicyNext, RaiseFlag, BecomeHighRisk, RaiseRisk,
              RaiseAnomaly, RaiseCash, FailVerification
<1> DEFINE p == TenantPolicy(facts.tenant)
<1>6. /\ facts.risk = NoScore \/ facts.risk >= p.maxScore =>
            facts'.risk = NoScore \/ facts'.risk >= p.maxScore
      /\ facts.anomaly = NoScore \/ facts.anomaly >= p.maxAnomaly =>
            facts'.anomaly = NoScore \/ facts'.anomaly >= p.maxAnomaly
      /\ facts.cash >= CashIntensiveShare => facts'.cash >= CashIntensiveShare
  BY <1>1, <1>3, <1>5
<1>7. TenantPolicy(facts'.tenant) = p
  BY <1>4
<1> HIDE DEF p
<1>8. QED BY <1>4, <1>6, <1>7 DEF Blockers, p

(* A case that needs a human never stops needing one.                      *)
THEOREM ApprovalNeverWaived == PolicySpec => NeverWaived
<1>1. PolicyTypeOK /\ [PolicyNext]_policyVars =>
         [RequiresApproval(action, facts, verified) =>
             RequiresApproval(action, facts, verified)']_policyVars
  <2>1. PolicyTypeOK /\ PolicyNext => action' = action
    BY DEF PolicyNext, RaiseFlag, BecomeHighRisk, RaiseRisk, RaiseAnomaly, RaiseCash,
           FailVerification
  <2>2. PolicyTypeOK /\ PolicyNext =>
           (RequiresApproval(action, facts, verified) =>
               RequiresApproval(action, facts, verified)')
    BY <2>1, BlockersGrow DEF RequiresApproval
  <2>3. QED BY <2>2
<1>2. QED BY <1>1, PolicyTypeCorrect, PTL DEF PolicySpec, NeverWaived
-----------------------------------------------------------------------------
(* The LLM gateway                                                         *)

(* What ties the breaker to the call in progress: a circuit without an     *)
(* entry has fewer failures than the threshold, the failures and the late  *)
(* requests of the model being called are bounded by its attempts, and     *)
(* only a half-open circuit counts fewer failures than there were.         *)
BreakerInv ==
    \A m \in Models :
       /\ failures[m] >= Threshold => IsOpen(m)
       /\ streak[m] = Threshold => failures[m] >= Threshold - 1
       /\ streak[m] < Threshold => failures[m] >= streak[m]
       /\ ~ IsOpen(m) => late[m] = 0
       /\ late[m] <= MaxRetries

CallInv ==
    call.busy =>
       /\ call.model \in Models
       /\ call.attempts >= 1
       /\ call.repairs < call.attempts
       /\ failures[call.model] < Threshold + call.attempts - 1
       /\ late[call.model] < call.attempts

GatewayInv == GatewayTypeOK /\ BreakerInv /\ CallInv

LEMMA GatewayInitInv == GatewayInit => GatewayInv
BY GatewayAssumption
   DEF GatewayInit, GatewayInv, GatewayTypeOK, BreakerInv, CallInv, CallState, CallStatus,
       MaxAttempts, IsOpen

(* A call that is let through starts with at most Threshold - 1 failures.  *)
LEMMA BeginInv ==
    ASSUME GatewayInv, NEW m \in Models, Begin(m) PROVE GatewayInv'
<1> USE GatewayAssumption
<1>1. /\ failures' \in [Models -> 0..(Threshold + MaxRetries)]
      /\ age' \in [Models -> 0..Reset \cup {None}]
      /\ failures'[m] < Threshold /\ age'[m] = None
      /\ streak[m] = Threshold => failures'[m] >= Threshold - 1
      /\ streak[m] < Threshold => failures'[m] >= streak[m]
      /\ \A n \in Models \ {m} : failures'[n] = failures[n] /\ age'[n] = age[n]
  BY DEF Begin, Check, IsOpen, Refuses, HalfOpenFailures, GatewayInv, GatewayTypeOK, BreakerInv
<1>2. /\ late' = [late EXCEPT ![m] = 0]
      /\ streak' = streak
      /\ call' = [busy |-> TRUE, model |-> m, attempts |-> 1, repairs |-> 0, status |-> "error"]
  BY DEF Begin, Check, Refuses, GatewayInv, GatewayTypeOK
<1>3. GatewayTypeOK'
  BY <1>1, <1>2 DEF GatewayInv, GatewayTypeOK, CallState, CallStatus, MaxAttempts
<1>4. BreakerInv'
  BY <1>1, <1>2 DEF GatewayInv, GatewayTypeOK, BreakerInv, IsOpen
<1>5. CallInv'
  BY <1>1, <1>2 DEF GatewayInv, GatewayTypeOK, CallInv
<1> QED BY <1>3, <1>4, <1>5 DEF GatewayInv

(* What a failed request leaves behind, whatever the call does next.       *)
LEMMA FailureFacts ==
    ASSUME GatewayInv, call.busy, Failure(call.model), Counted(call.model)
    PROVE  /\ failures' \in [Models -> 0..(Threshold + MaxRetries)]
           /\ age' \in [Models -> 0..Reset \cup {None}]
           /\ streak' \in [Models -> 0..Threshold]
           /\ failures'[call.model] = failures[call.model] + 1
           /\ \A m \in Models :
                 /\ failures'[m] >= Threshold => age'[m] # None
                 /\ streak'[m] = Threshold => failures'[m] >= Threshold - 1
                 /\ streak'[m] < Threshold => failures'[m] >= streak'[m]
                 /\ age'[m] = None => age[m] = None
<1> USE GatewayAssumption DEF GatewayInv, GatewayTypeOK
<1> DEFINE c == call.model
<1>1. c \in Models /\ call.attempts \in 0..MaxAttempts /\ failures[c] < Threshold + call.attempts - 1
  BY DEF CallInv, CallState
<1>2. failures' = [failures EXCEPT ![c] = @ + 1] /\ failures'[c] = failures[c] + 1
  BY <1>1 DEF Failure
<1>3. failures' \in [Models -> 0..(Threshold + MaxRetries)]
  BY <1>1, <1>2 DEF MaxAttempts
<1>4. age' \in [Models -> 0..Reset \cup {None}]
  BY <1>1 DEF Failure
<1>5. streak' = [streak EXCEPT ![c] = IF @ < Threshold THEN @ + 1 ELSE @]
  BY DEF Counted
<1>6. streak' \in [Models -> 0..Threshold]
  BY <1>1, <1>5
<1>7. ASSUME NEW m \in Models
      PROVE  /\ failures'[m] >= Threshold => age'[m] # None
             /\ streak'[m] = Threshold => failures'[m] >= Threshold - 1
             /\ streak'[m] < Threshold => failures'[m] >= streak'[m]
             /\ age'[m] = None => age[m] = None
  <2>1. CASE m = c
    BY <2>1, <1>1, <1>2, <1>5 DEF Failure, BreakerInv
  <2>2. CASE m # c
    BY <2>2, <1>1, <1>2, <1>5 DEF Failure, BreakerInv, IsOpen
  <2> QED BY <2>1, <2>2
<1> QED BY <1>2, <1>3, <1>4, <1>6, <1>7

(* The retry loop: the next request is late only if the circuit is open by *)
(* then, and there are at most MaxRetries of them after the first.         *)
LEMMA NextAttemptInv ==
    ASSUME GatewayInv, call.busy, NEW status \in CallStatus, NextAttempt(status),
           failures' \in [Models -> 0..(Threshold + MaxRetries)],
           age' \in [Models -> 0..Reset \cup {None}],
           streak' \in [Models -> 0..Threshold],
           failures'[call.model] <= failures[call.model] + 1,
           \A m \in Models :
                 /\ failures'[m] >= Threshold => age'[m] # None
                 /\ streak'[m] = Threshold => failures'[m] >= Threshold - 1
                 /\ streak'[m] < Threshold => failures'[m] >= streak'[m]
                 /\ age'[m] = None => age[m] = None
    PROVE  GatewayInv'
<1> USE GatewayAssumption
<1> DEFINE c == call.model
<1>1. /\ c \in Models /\ call \in CallState /\ call.attempts \in 1..MaxAttempts
      /\ call.repairs < call.attempts
      /\ failures[c] < Threshold + call.attempts - 1 /\ failures[c] \in Nat
      /\ late \in [Models -> Nat] /\ late[c] < call.attempts
  BY DEF GatewayInv, GatewayTypeOK, CallInv, CallState
<1>2. CASE call.attempts < MaxAttempts
  <2>1. /\ call' = [call EXCEPT !.attempts = call.attempts + 1, !.status = status,
                                !.repairs = IF status = "schema_invalid" THEN call.repairs + 1 ELSE call.repairs]
        /\ late' = IF age'[c] # None THEN [late EXCEPT ![c] = late[c] + 1] ELSE late
    BY <1>2 DEF NextAttempt
  <2>2. /\ call'.busy = call.busy /\ call'.model = c /\ call'.attempts = call.attempts + 1
        /\ call'.repairs \in 0..MaxRetries /\ call'.repairs < call'.attempts
        /\ call' \in CallState
    <3>1. /\ call'.busy = call.busy /\ call'.model = c /\ call'.attempts = call.attempts + 1
          /\ call'.repairs \in {call.repairs, call.repairs + 1}
          /\ call' = [busy |-> call.busy, model |-> c, attempts |-> call.attempts + 1,
                      repairs |-> call'.repairs, status |-> status]
      BY <1>1, <2>1 DEF CallState
    <3>2. call.repairs \in Nat /\ call.attempts \in Nat
      BY <1>1 DEF CallState, MaxAttempts
    <3>3. /\ call'.repairs \in 0..MaxRetries /\ call'.repairs < call'.attempts
          /\ call'.attempts \in 0..MaxAttempts
      BY <1>1, <1>2, <3>1, <3>2 DEF MaxAttempts
    <3>4. call.busy \in BOOLEAN /\ c \in Models \cup {None}
      BY <1>1 DEF CallState
    <3>5. [busy |-> call.busy, model |-> c, attempts |-> call.attempts + 1,
           repairs |-> call'.repairs, status |-> status] \in CallState
      BY <3>1, <3>3, <3>4 DEF CallState
    <3> QED BY <3>1, <3>3, <3>5
  <2>3. late' \in [Models -> Nat] /\ late'[c] < call'.attempts /\ late'[c] <= MaxRetries
    BY <1>1, <1>2, <2>1, <2>2 DEF MaxAttempts
  <2>4. \A m \in Models : /\ age'[m] = None => late'[m] = 0
                          /\ late'[m] <= MaxRetries
    BY <1>1, <2>1, <2>3 DEF GatewayInv, BreakerInv, IsOpen
  <2>5. GatewayTypeOK'
    BY <2>2, <2>3 DEF GatewayTypeOK
  <2>6. BreakerInv'
    BY <2>4 DEF BreakerInv, IsOpen
  <2>7. CallInv'
    BY <1>1, <2>2, <2>3 DEF CallInv
  <2> QED BY <2>5, <2>6, <2>7 DEF GatewayInv
<1>3. CASE ~ (call.attempts < MaxAttempts)
  <2>1. call' = [call EXCEPT !.busy = FALSE, !.status = status] /\ late' = late
    BY <1>3 DEF NextAttempt
  <2>2. call' \in CallState /\ call'.busy = FALSE
    BY <1>1, <2>1 DEF CallState
  <2>3. GatewayTypeOK' /\ CallInv'
    BY <1>1, <2>1, <2>2 DEF GatewayTypeOK, CallInv
  <2>4. BreakerInv'
    BY <2>1 DEF GatewayInv, BreakerInv, IsOpen
  <2> QED BY <2>3, <2>4 DEF GatewayInv
<1> QED BY <1>2, <1>3

LEMMA RetryableFailureInv == ASSUME GatewayInv, RetryableFailure PROVE GatewayInv'
<1>1. call.busy /\ Failure(call.model) /\ Counted(call.model)
  BY DEF RetryableFailure
<1>2. PICK status \in {"timeout", "error"} : NextAttempt(status)
  BY DEF RetryableFailure
<1>3. status \in CallStatus
  BY DEF CallStatus
<1>4. failures'[call.model] <= failures[call.model] + 1
  BY <1>1, FailureFacts DEF GatewayInv, GatewayTypeOK, CallInv
<1> QED BY <1>1, <1>2, <1>3, <1>4, FailureFacts, NextAttemptInv

LEMMA InvalidAnswerInv == ASSUME GatewayInv, InvalidAnswer PROVE GatewayInv'
<1> USE GatewayAssumption
<1>1. /\ call.busy /\ failures' = failures /\ age' = age /\ streak' = streak
      /\ NextAttempt("schema_invalid") /\ "schema_invalid" \in CallStatus
  BY DEF InvalidAnswer, breakerVars, CallStatus
<1>2. /\ failures' \in [Models -> 0..(Threshold + MaxRetries)]
      /\ age' \in [Models -> 0..Reset \cup {None}]
      /\ streak' \in [Models -> 0..Threshold]
      /\ failures'[call.model] <= failures[call.model] + 1
  BY <1>1 DEF GatewayInv, GatewayTypeOK, CallInv
<1>3. \A m \in Models :
         /\ failures'[m] >= Threshold => age'[m] # None
         /\ streak'[m] = Threshold => failures'[m] >= Threshold - 1
         /\ streak'[m] < Threshold => failures'[m] >= streak'[m]
         /\ age'[m] = None => age[m] = None
  BY <1>1 DEF GatewayInv, BreakerInv, IsOpen
<1> QED BY <1>1, <1>2, <1>3, NextAttemptInv

(* The call ends with this answer.                                         *)
LEMMA EndInv ==
    ASSUME GatewayInv, FatalFailure \/ ValidAnswer \/ Escape PROVE GatewayInv'
<1> USE GatewayAssumption
<1>1. /\ call \in CallState /\ call.busy /\ call.model \in Models
      /\ late' = late /\ late \in [Models -> Nat]
      /\ call' \in CallState /\ call'.busy = FALSE
  BY DEF GatewayInv, GatewayTypeOK, CallInv, CallState, CallStatus, FatalFailure, ValidAnswer, Escape, EndCall
<1>2. /\ failures' \in [Models -> 0..(Threshold + MaxRetries)]
      /\ age' \in [Models -> 0..Reset \cup {None}]
      /\ streak' \in [Models -> 0..Threshold]
      /\ \A m \in Models :
            /\ failures'[m] >= Threshold => age'[m] # None
            /\ streak'[m] = Threshold => failures'[m] >= Threshold - 1
            /\ streak'[m] < Threshold => failures'[m] >= streak'[m]
            /\ age'[m] = None => age[m] = None
  <2>1. CASE FatalFailure
    BY <1>1, <2>1, FailureFacts DEF FatalFailure
  <2>2. CASE ValidAnswer
    BY <1>1, <2>2 DEF ValidAnswer, Success, GatewayInv, GatewayTypeOK, BreakerInv, IsOpen
  <2>3. CASE Escape
    BY <1>1, <2>3 DEF Escape, breakerVars, GatewayInv, GatewayTypeOK, BreakerInv, IsOpen
  <2> QED BY <2>1, <2>2, <2>3
<1>3. GatewayTypeOK' /\ CallInv'
  BY <1>1, <1>2 DEF GatewayTypeOK, CallInv
<1>4. BreakerInv'
  BY <1>1, <1>2 DEF GatewayInv, BreakerInv, IsOpen
<1> QED BY <1>3, <1>4 DEF GatewayInv

LEMMA RefusedInv ==
    ASSUME GatewayInv, NEW m \in Models, BeginRefused(m) PROVE GatewayInv'
BY GatewayAssumption
   DEF GatewayInv, GatewayTypeOK, BreakerInv, CallInv, CallState, CallStatus, MaxAttempts,
       BeginRefused, breakerVars, IsOpen

LEMMA TickInv == ASSUME GatewayInv, Tick PROVE GatewayInv'
<1> USE GatewayAssumption
<1>1. /\ age' = [m \in Models |-> IF Refuses(m) THEN age[m] + 1 ELSE age[m]]
      /\ UNCHANGED <<failures, call, streak, late>>
  BY DEF Tick
<1>2. age' \in [Models -> 0..Reset \cup {None}] /\ \A m \in Models : age'[m] = None <=> age[m] = None
  BY <1>1 DEF GatewayInv, GatewayTypeOK, Refuses, IsOpen
<1>3. GatewayTypeOK'
  BY <1>1, <1>2 DEF GatewayInv, GatewayTypeOK
<1>4. BreakerInv' /\ CallInv'
  BY <1>1, <1>2 DEF GatewayInv, BreakerInv, CallInv, IsOpen
<1> QED BY <1>3, <1>4 DEF GatewayInv
-----------------------------------------------------------------------------
LEMMA GatewayStepInv == GatewayInv /\ [GatewayNext]_gatewayVars => GatewayInv'
<1> SUFFICES ASSUME GatewayInv, [GatewayNext]_gatewayVars PROVE GatewayInv'
  OBVIOUS
<1>1. ASSUME NEW m \in Models, Begin(m) PROVE GatewayInv'
  BY <1>1, BeginInv
<1>2. ASSUME NEW m \in Models, BeginRefused(m) PROVE GatewayInv'
  BY <1>2, RefusedInv
<1>3. CASE Answer
  BY <1>3, RetryableFailureInv, InvalidAnswerInv, EndInv DEF Answer
<1>4. CASE Tick
  BY <1>4, TickInv
<1>5. CASE UNCHANGED gatewayVars
  BY <1>5 DEF gatewayVars, GatewayInv, GatewayTypeOK, BreakerInv, CallInv, IsOpen
<1> QED BY <1>1, <1>2, <1>3, <1>4, <1>5 DEF GatewayNext

(* The breaker's counters and the call in progress agree in every state.   *)
THEOREM GatewayInvariance == GatewaySpec => []GatewayInv
BY GatewayInitInv, GatewayStepInv, PTL DEF GatewaySpec

(* The gateway keeps its types: what the breaker counts is bounded by the  *)
(* threshold and the retries of one call, whatever the provider does.      *)
THEOREM GatewayTypeCorrect == GatewaySpec => []GatewayTypeOK
<1>1. GatewayInv => GatewayTypeOK
  BY DEF GatewayInv
<1> QED BY <1>1, GatewayInvariance, PTL

(* An open circuit lets through only the retries that were under way, for  *)
(* every threshold, number of retries and reset time.                      *)
THEOREM GatewayFailsFast == GatewaySpec => []FailsFast
<1>1. GatewayInv => FailsFast
  BY DEF GatewayInv, BreakerInv, FailsFast
<1> QED BY <1>1, GatewayInvariance, PTL

(* Half-opening a circuit never makes the breaker forget an outage.        *)
THEOREM GatewayRemembers == GatewaySpec => []OutageRemembered
<1>1. GatewayInv => OutageRemembered
  BY GatewayAssumption DEF GatewayInv, GatewayTypeOK, BreakerInv, OutageRemembered
<1> QED BY <1>1, GatewayInvariance, PTL
-----------------------------------------------------------------------------
(* The pipeline                                                            *)

(* What the scope holds is what the calls made returned, and no flag is    *)
(* ever dropped.                                                           *)
ScopeInv ==
    /\ disclosed = UNION {Discloses[c] : c \in asked}
    /\ case.flagged => flagged
    /\ \A c \in asked : Discloses[c] \cap Suspicious # {} => flagged
    /\ Cardinality(asked) <= MaxToolSteps
    /\ IF stage \in {"triage", "investigation"} THEN turns = Cardinality(asked)
       ELSE turns <= Cardinality(asked) + 1

(* Each stage has the answers of the stages before it.                     *)
StageInv ==
    /\ retrieved \subseteq Readable
    /\ stage # "ended" => outcome = None
    /\ stage = "policy" => findings \in Findings
    /\ stage = "decision" => findings \in Findings /\ policy \in PolicyOutput

(* A recommendation carries the verdict on its decision, and the ruling on *)
(* that verdict.                                                           *)
OutcomeInv ==
    outcome # None /\ outcome.kind = "recommended" =>
       outcome = Ruling(decision, CriticalIssues(decision) = {})

PipelineInv == PipelineTypeOK /\ ScopeInv /\ StageInv /\ OutcomeInv
-----------------------------------------------------------------------------
(* What a decision without critical issues rests on.                       *)
LEMMA NoIssues ==
    ASSUME NEW d, CriticalIssues(d) = {}
    PROVE  /\ findings.refs \cup d.refs \subseteq disclosed
           /\ d.citations \subseteq retrieved
           /\ policy.guidance \subseteq retrieved
<1>1. ASSUME ~ (findings.refs \cup d.refs \subseteq disclosed)
      PROVE  "unverified_evidence_ref" \in CriticalIssues(d)
  BY <1>1 DEF CriticalIssues
<1>2. ASSUME ~ d.citations \subseteq retrieved PROVE "invalid_citation" \in CriticalIssues(d)
  BY <1>2 DEF CriticalIssues
<1>3. ASSUME ~ policy.guidance \subseteq retrieved
      PROVE  "invalid_policy_citation" \in CriticalIssues(d)
  BY <1>3 DEF CriticalIssues
<1> QED BY <1>1, <1>2, <1>3

(* A flag makes a human necessary.                                         *)
LEMMA FlagBlocks ==
    ASSUME NEW a, NEW c, c.flagged, NEW v
    PROVE  RequiresApproval(a, c, v)
<1>1. "injection_indicators" \in Blockers(a, c, v)
  BY DEF Blockers
<1> QED BY <1>1 DEF RequiresApproval

LEMMA RulingShape ==
    ASSUME NEW d, NEW passed
    PROVE  /\ Ruling(d, passed).kind = "recommended"
           /\ Ruling(d, passed).action = d.action
           /\ Ruling(d, passed).verified = passed
           /\ Ruling(d, passed).automatic = ~ RequiresApproval(d.action, RuledCase, passed)
BY DEF Ruling

LEMMA RulingType ==
    ASSUME NEW d \in Decisions, NEW passed \in BOOLEAN
    PROVE  Ruling(d, passed) \in Outcomes
<1>1. RequiresApproval(d.action, RuledCase, passed) \in BOOLEAN
  BY DEF RequiresApproval
<1> QED BY <1>1 DEF Ruling, Outcomes, Decisions
-----------------------------------------------------------------------------
LEMMA PipelineInitInv == PipelineInit => PipelineInv
<1> SUFFICES ASSUME PipelineInit PROVE PipelineInv
  OBVIOUS
<1>1. Cardinality(asked) = 0
  BY FS_EmptySet DEF PipelineInit
<1>2. case.flagged \in BOOLEAN
  BY PipelineAssumption DEF PipelineInit, CaseFacts
<1>3. PipelineTypeOK
  BY <1>2, PipelineAssumption DEF PipelineInit, PipelineTypeOK
<1>4. ScopeInv
  BY <1>1, PipelineAssumption DEF PipelineInit, ScopeInv
<1> QED BY <1>3, <1>4 DEF PipelineInit, PipelineInv, StageInv, OutcomeInv

LEMMA CallToolInv ==
    ASSUME PipelineInv, NEW c \in Calls, CallTool(c) PROVE PipelineInv'
<1>1. IsFiniteSet(asked)
  BY PipelineAssumption, FS_Subset DEF PipelineInv, PipelineTypeOK
<1>2. /\ Cardinality(asked') = Cardinality(asked) + 1
      /\ Cardinality(asked) \in Nat
  BY <1>1, FS_AddElement, FS_CardinalityType DEF CallTool, MayCall
<1>3. turns = Cardinality(asked) /\ Cardinality(asked) < MaxToolSteps /\ MaxToolSteps \in Nat
  BY PipelineAssumption DEF CallTool, MayCall, PipelineInv, ScopeInv
<1>4. Discloses[c] \subseteq Refs
  BY PipelineAssumption
<1>5. PipelineTypeOK'
  BY <1>2, <1>3, <1>4 DEF CallTool, PipelineInv, PipelineTypeOK
<1>6. ScopeInv'
  <2>1. asked' = asked \cup {c} /\ disclosed' = disclosed \cup Discloses[c]
    BY DEF CallTool
  <2>2. disclosed' = UNION {Discloses[e] : e \in asked'}
    <3>1. disclosed = UNION {Discloses[e] : e \in asked}
      BY DEF PipelineInv, ScopeInv
    <3>2. ASSUME NEW r PROVE r \in disclosed' <=> \E e \in asked' : r \in Discloses[e]
      BY <2>1, <3>1
    <3>3. ASSUME NEW r
          PROVE  r \in UNION {Discloses[e] : e \in asked'} <=> \E e \in asked' : r \in Discloses[e]
      OBVIOUS
    <3> QED BY <3>2, <3>3
  <2>3. /\ case'.flagged => flagged'
        /\ \A e \in asked' : Discloses[e] \cap Suspicious # {} => flagged'
    BY DEF CallTool, PipelineInv, ScopeInv
  <2>4. /\ Cardinality(asked') <= MaxToolSteps /\ turns' = Cardinality(asked')
        /\ stage' = "investigation"
    BY <1>2, <1>3 DEF CallTool
  <2> QED BY <2>2, <2>3, <2>4 DEF ScopeInv
<1>7. StageInv' /\ OutcomeInv'
  BY DEF CallTool, PipelineInv, StageInv, OutcomeInv, Readable
<1> QED BY <1>5, <1>6, <1>7 DEF PipelineInv

LEMMA FinishInvestigationInv ==
    ASSUME PipelineInv, NEW f \in Findings, FinishInvestigation(f) PROVE PipelineInv'
<1>1. IsFiniteSet(asked)
  BY PipelineAssumption, FS_Subset DEF PipelineInv, PipelineTypeOK
<1>2. /\ turns = Cardinality(asked) /\ Cardinality(asked) \in Nat
      /\ Cardinality(asked) <= MaxToolSteps /\ MaxToolSteps \in Nat
  BY <1>1, FS_CardinalityType, PipelineAssumption
     DEF FinishInvestigation, PipelineInv, ScopeInv
<1>3. PipelineTypeOK'
  BY <1>2 DEF FinishInvestigation, PipelineInv, PipelineTypeOK
<1>4. ScopeInv'
  BY <1>2 DEF FinishInvestigation, PipelineInv, ScopeInv
<1> QED BY <1>3, <1>4 DEF FinishInvestigation, PipelineInv, StageInv, OutcomeInv, Readable

LEMMA DecideInv ==
    ASSUME PipelineInv, NEW d \in Decisions, Decide(d) PROVE PipelineInv'
<1> DEFINE passed == CriticalIssues(d) = {}
<1>1. /\ UNCHANGED <<role, case, asked, turns, disclosed, flagged, findings, policy, retrieved>>
      /\ stage = "decision" /\ outcome = None
  BY DEF Decide, scope, PipelineInv, StageInv
<1>2. ScopeInv'
  <2>1. stage' \in {"decision", "ended"}
    BY <1>1 DEF Decide, Repair
  <2> QED BY <1>1, <2>1 DEF PipelineInv, ScopeInv
<1>3. CASE ~ passed /\ MayRepair
  <2>1. attempt' = attempt + 1 /\ UNCHANGED <<stage, decision, outcome>>
    BY <1>3 DEF Decide, Repair
  <2>2. PipelineTypeOK'
    BY <1>1, <1>3, <2>1, PipelineAssumption DEF PipelineInv, PipelineTypeOK, MayRepair
  <2> QED BY <1>1, <1>2, <2>1, <2>2 DEF PipelineInv, StageInv, OutcomeInv, Readable
<1>4. CASE passed \/ ~ MayRepair
  <2>1. stage' = "ended" /\ decision' = d /\ outcome' = Ruling(d, passed) /\ attempt' = attempt
    BY <1>4 DEF Decide
  <2>2. outcome' \in Outcomes
    BY <2>1, RulingType
  <2>3. PipelineTypeOK'
    BY <1>1, <2>1, <2>2 DEF PipelineInv, PipelineTypeOK
  <2>4. OutcomeInv'
    BY <1>1, <2>1 DEF OutcomeInv, Ruling, RuledCase, CriticalIssues
  <2> QED BY <1>1, <1>2, <2>1, <2>3, <2>4 DEF PipelineInv, StageInv, Readable
<1> QED BY <1>3, <1>4

LEMMA FailClosedInv ==
    ASSUME PipelineInv, NEW status \in {"NEEDS_MANUAL_REVIEW", "FAILED"}, FailClosed(status)
    PROVE  PipelineInv'
<1>1. /\ UNCHANGED <<role, case, asked, turns, disclosed, flagged, findings, policy, retrieved,
                     decision, attempt>>
      /\ stage' = "ended" /\ outcome' = [kind |-> status]
  BY DEF FailClosed, scope
<1>2. outcome' \in Outcomes /\ outcome'.kind # "recommended"
  BY <1>1 DEF Outcomes
<1>3. IsFiniteSet(asked)
  BY PipelineAssumption, FS_Subset DEF PipelineInv, PipelineTypeOK
<1>4. turns <= Cardinality(asked) + 1
  BY <1>3, FS_CardinalityType DEF PipelineInv, ScopeInv
<1>5. PipelineTypeOK'
  BY <1>1, <1>2 DEF PipelineInv, PipelineTypeOK
<1>6. ScopeInv'
  BY <1>1, <1>4 DEF PipelineInv, ScopeInv
<1> QED BY <1>1, <1>2, <1>5, <1>6 DEF PipelineInv, StageInv, OutcomeInv, Readable

LEMMA PipelineStepInv == PipelineInv /\ [PipelineNext]_pipelineVars => PipelineInv'
<1> SUFFICES ASSUME PipelineInv, [PipelineNext]_pipelineVars PROVE PipelineInv'
  OBVIOUS
<1>1. CASE Triage
  <2>1. PipelineTypeOK' /\ ScopeInv'
    BY <1>1 DEF Triage, scope, PipelineInv, PipelineTypeOK, ScopeInv
  <2> QED BY <1>1, <2>1 DEF Triage, scope, PipelineInv, StageInv, OutcomeInv, Readable
<1>2. CASE Investigate
  BY <1>2, CallToolInv, FinishInvestigationInv DEF Investigate
<1>3. ASSUME NEW found \in SUBSET Chunks, NEW p \in PolicyOutput, MapPolicy(found, p)
      PROVE  PipelineInv'
  <2>1. PipelineTypeOK' /\ ScopeInv'
    BY <1>3 DEF MapPolicy, scope, PipelineInv, PipelineTypeOK, ScopeInv
  <2> QED BY <1>3, <2>1 DEF MapPolicy, scope, PipelineInv, StageInv, OutcomeInv, Readable
<1>4. ASSUME NEW d \in Decisions, Decide(d) PROVE PipelineInv'
  BY <1>4, DecideInv
<1>5. ASSUME NEW status \in {"NEEDS_MANUAL_REVIEW", "FAILED"}, FailClosed(status)
      PROVE  PipelineInv'
  BY <1>5, FailClosedInv
<1>6. CASE UNCHANGED pipelineVars
  <2>1. PipelineTypeOK' /\ ScopeInv' /\ StageInv'
    BY <1>6 DEF pipelineVars, scope, PipelineInv, PipelineTypeOK, ScopeInv, StageInv, Readable
  <2>2. /\ UNCHANGED <<case, flagged, findings, decision, policy, retrieved, disclosed>>
        /\ UNCHANGED outcome
    BY <1>6 DEF pipelineVars, scope
  <2>3. OutcomeInv'
    <3>1. CriticalIssues(decision)' = CriticalIssues(decision)
      BY <2>2 DEF CriticalIssues
    <3> QED BY <2>2, <3>1 DEF PipelineInv, OutcomeInv, Ruling, RuledCase
  <2> QED BY <2>1, <2>3 DEF PipelineInv
<1> QED BY <1>1, <1>2, <1>3, <1>4, <1>5, <1>6 DEF PipelineNext

(* The scope, the answers and the outcome agree in every state.            *)
THEOREM PipelineInvariance == PipelineSpec => []PipelineInv
BY PipelineInitInv, PipelineStepInv, PTL DEF PipelineSpec

(* Every answer, counter and outcome of an execution keeps its type.       *)
THEOREM PipelineTypeCorrect == PipelineSpec => []PipelineTypeOK
<1>1. PipelineInv => PipelineTypeOK
  BY DEF PipelineInv
<1> QED BY <1>1, PipelineInvariance, PTL

(* The verifier lets nothing invented pass: what a verified recommendation *)
(* cites, some tool call of the same execution has returned.               *)
THEOREM VerifiedGrounded == PipelineSpec => []VerifiedIsGrounded
<1>1. ASSUME PipelineInv PROVE VerifiedIsGrounded
  <2> SUFFICES ASSUME Verified
               PROVE  findings.refs \cup decision.refs \subseteq disclosed
    BY <1>1 DEF VerifiedIsGrounded, PipelineInv, ScopeInv
  <2>1. CriticalIssues(decision) = {}
    BY <1>1, RulingShape DEF Verified, PipelineInv, OutcomeInv
  <2> QED BY <2>1, NoIssues
<1> QED BY <1>1, PipelineInvariance, PTL

(* Retrieval with the initiator's clearance bounds what a verified         *)
(* recommendation can cite.                                                *)
THEOREM CitationsWithinClearance == PipelineSpec => []CitationsCleared
<1>1. ASSUME PipelineInv PROVE CitationsCleared
  <2> SUFFICES ASSUME Verified
               PROVE  decision.citations \cup policy.guidance \subseteq Readable
    BY DEF CitationsCleared, Readable
  <2>1. CriticalIssues(decision) = {}
    BY <1>1, RulingShape DEF Verified, PipelineInv, OutcomeInv
  <2> QED BY <1>1, <2>1, NoIssues DEF PipelineInv, StageInv
<1> QED BY <1>1, PipelineInvariance, PTL

(* A suspicious reference, wherever it was met, brings in a human.         *)
THEOREM FlaggedGoesToHuman == PipelineSpec => []FlaggedNeverAutomatic
<1>1. ASSUME PipelineInv PROVE FlaggedNeverAutomatic
  <2> SUFFICES ASSUME Automatic PROVE ~ flagged
    BY <1>1 DEF FlaggedNeverAutomatic, PipelineInv, ScopeInv
  <2>1. ~ RequiresApproval(decision.action, RuledCase, CriticalIssues(decision) = {})
    BY <1>1, RulingShape DEF Automatic, PipelineInv, OutcomeInv
  <2>2. ~ RuledCase.flagged
    BY <2>1, FlagBlocks
  <2>3. RuledCase.flagged = flagged
    BY <1>1, PipelineAssumption DEF RuledCase, PipelineInv, PipelineTypeOK, CaseFacts
  <2> QED BY <2>2, <2>3
<1> QED BY <1>1, PipelineInvariance, PTL

(* The budget holds for any number of tools and any limit.                 *)
THEOREM BudgetKept == PipelineSpec => []WithinBudget
<1>1. ASSUME PipelineInv PROVE WithinBudget
  BY <1>1 DEF PipelineInv, PipelineTypeOK, ScopeInv, WithinBudget
<1> QED BY <1>1, PipelineInvariance, PTL
-----------------------------------------------------------------------------
(* Ends of calls and executions, without fairness: how many steps are left *)

(* Requests to the provider that the call in progress may still send, and  *)
(* the answer to the last one.                                             *)
AnswersLeft == IF call.busy THEN MaxAttempts + 1 - call.attempts ELSE 0

(* A call in progress only moves towards its end: by no retry, repair or   *)
(* tick of the clock does it get an answer more to wait for, so that it    *)
(* ends after MaxAttempts of them at the latest, whatever they are         *)
(* (structured).                                                           *)
CallsRunOut ==
    [][call.busy /\ call' # call => AnswersLeft' \in Nat /\ AnswersLeft' < AnswersLeft]_gatewayVars

THEOREM CallsAreBounded == GatewaySpec => CallsRunOut
<1>1. ASSUME GatewayInv, [GatewayNext]_gatewayVars, call.busy, call' # call
      PROVE  AnswersLeft' \in Nat /\ AnswersLeft' < AnswersLeft
  <2>1. call.attempts \in 1..MaxAttempts /\ MaxAttempts \in Nat /\ call \in CallState
    BY <1>1, GatewayAssumption DEF GatewayInv, GatewayTypeOK, CallInv, CallState, MaxAttempts
  <2>2. AnswersLeft = MaxAttempts + 1 - call.attempts
    BY <1>1 DEF AnswersLeft
  <2>3. ASSUME NEW status, NextAttempt(status) PROVE AnswersLeft' \in Nat /\ AnswersLeft' < AnswersLeft
    <3>1. CASE call.attempts < MaxAttempts
      <4>1. call'.busy = TRUE /\ call'.attempts = call.attempts + 1
        BY <1>1, <2>1, <2>3, <3>1 DEF NextAttempt, CallState
      <4>2. QED BY <2>1, <2>2, <3>1, <4>1 DEF AnswersLeft, MaxAttempts
    <3>2. CASE ~ (call.attempts < MaxAttempts)
      <4>1. call'.busy = FALSE
        BY <2>1, <2>3, <3>2 DEF NextAttempt, CallState
      <4>2. QED BY <2>1, <2>2, <4>1 DEF AnswersLeft
    <3>3. QED BY <3>1, <3>2
  <2>4. ASSUME NEW status, EndCall(status) PROVE AnswersLeft' \in Nat /\ AnswersLeft' < AnswersLeft
    <3>1. call'.busy = FALSE
      BY <2>1, <2>4 DEF EndCall, CallState
    <3>2. QED BY <2>1, <2>2, <3>1 DEF AnswersLeft
  <2>5. Answer
    BY <1>1 DEF GatewayNext, Begin, BeginRefused, Tick, gatewayVars
  <2>6. QED
    BY <2>3, <2>4, <2>5 DEF Answer, RetryableFailure, FatalFailure, InvalidAnswer, ValidAnswer, Escape
<1>2. QED BY <1>1, GatewayInvariance, PTL DEF GatewaySpec, CallsRunOut

(* Agents still to come, answers of the investigation agent and repairs.   *)
AgentsLeft ==
    CASE stage = "triage" -> 4 [] stage = "investigation" -> 3 [] stage = "policy" -> 2
      [] stage = "decision" -> 1 [] stage = "ended" -> 0

StepsLeft == AgentsLeft + (MaxToolSteps + 1 - turns) + (DecisionRetries - attempt)

(* Every step of an execution uses something up: the tool loop its turns,  *)
(* the repair its attempts, everything else a stage, none of which is ever *)
(* given back.  So an execution has no more than                           *)
(* MaxToolSteps + DecisionRetries + 5 steps, whatever its agents answer    *)
(* (execute); and it can always take one, if only to fail.                 *)
ExecutionRunsOut ==
    [][StepsLeft' \in Nat /\ StepsLeft' < StepsLeft]_pipelineVars

THEOREM ExecutionsAreBounded ==
    PipelineSpec => [](StepsLeft <= MaxToolSteps + DecisionRetries + 5) /\ ExecutionRunsOut
<1>1. ASSUME PipelineInv PROVE StepsLeft \in Nat /\ StepsLeft <= MaxToolSteps + DecisionRetries + 5
  BY <1>1, PipelineAssumption DEF PipelineInv, PipelineTypeOK, StepsLeft, AgentsLeft
<1>2. ASSUME PipelineInv, PipelineInv', PipelineNext
      PROVE  StepsLeft' < StepsLeft
  <2>1. /\ turns \in Nat /\ turns' \in Nat /\ attempt \in Nat /\ attempt' \in Nat
        /\ MaxToolSteps \in Nat /\ DecisionRetries \in Nat
    BY <1>2, PipelineAssumption DEF PipelineInv, PipelineTypeOK
  <2>2. AgentsLeft \in 0..4 /\ (stage # "ended" => AgentsLeft >= 1)
    BY <1>2 DEF PipelineInv, PipelineTypeOK, AgentsLeft
  <2>3. CASE Triage
    BY <2>1, <2>3 DEF Triage, scope, StepsLeft, AgentsLeft
  <2>4. CASE Investigate
    BY <2>1, <2>4 DEF Investigate, CallTool, FinishInvestigation, StepsLeft, AgentsLeft
  <2>5. ASSUME NEW found, NEW p, MapPolicy(found, p) PROVE StepsLeft' < StepsLeft
    BY <2>1, <2>5 DEF MapPolicy, scope, StepsLeft, AgentsLeft
  <2>6. ASSUME NEW d \in Decisions, Decide(d) PROVE StepsLeft' < StepsLeft
    BY <2>1, <2>6 DEF Decide, Repair, scope, StepsLeft, AgentsLeft
  <2>7. ASSUME NEW status \in {"NEEDS_MANUAL_REVIEW", "FAILED"}, FailClosed(status)
        PROVE  StepsLeft' < StepsLeft
    <3>1. stage # "ended" /\ stage' = "ended" /\ turns' = turns /\ attempt' = attempt
      BY <2>7 DEF FailClosed, scope
    <3>2. AgentsLeft' = 0
      BY <3>1 DEF AgentsLeft
    <3>3. QED BY <2>1, <2>2, <3>1, <3>2 DEF StepsLeft
  <2>8. QED BY <1>2, <2>3, <2>4, <2>5, <2>6, <2>7 DEF PipelineNext
<1>3. PipelineInv /\ PipelineInv' /\ [PipelineNext]_pipelineVars =>
         [StepsLeft' \in Nat /\ StepsLeft' < StepsLeft]_pipelineVars
  <2>1. PipelineInv' => StepsLeft' \in Nat
    BY PipelineAssumption DEF PipelineInv, PipelineTypeOK, StepsLeft, AgentsLeft
  <2>2. QED BY <1>2, <2>1
<1>4. QED BY <1>1, <1>3, PipelineInvariance, PTL DEF PipelineSpec, ExecutionRunsOut
-----------------------------------------------------------------------------
(* Execution, instantiated, has the policy of this module.                 *)
LEMMA SamePolicy ==
    ASSUME NEW a, NEW c, NEW v
    PROVE  E!RequiresApproval(a, c, v) = RequiresApproval(a, c, v)
BY DEF E!RequiresApproval, RequiresApproval, E!Blockers, Blockers, E!TenantPolicy, TenantPolicy,
       E!Severe, Severe, E!NoScore, NoScore, E!CashIntensiveShare, CashIntensiveShare

LEMMA DecideEnds ==
    ASSUME PipelineInv, NEW d \in Decisions, Decide(d)
    PROVE  E!ExecutionNext \/ UNCHANGED <<case, outcome>>
<1> DEFINE passed == CriticalIssues(d) = {}
<1>1. UNCHANGED case /\ outcome = None
  BY DEF Decide, PipelineInv, StageInv
<1>2. CASE ~ passed /\ MayRepair
  BY <1>1, <1>2 DEF Decide
<1>3. CASE passed \/ ~ MayRepair
  <2>1. outcome' = Ruling(d, passed)
    BY <1>3 DEF Decide
  <2>2. Ruling(d, passed) = E!Ruling(d.action, RuledCase, passed)
    BY SamePolicy DEF Ruling, E!Ruling
  <2>3. d.action \in E!Actions /\ flagged \in BOOLEAN /\ (case.flagged => flagged)
    BY DEF Decisions, Actions, E!Actions, PipelineInv, PipelineTypeOK, ScopeInv
  <2>4. E!EndWithRuling
    <3>1. passed \in BOOLEAN
      OBVIOUS
    <3> HIDE DEF passed
    <3> QED BY <1>1, <2>1, <2>2, <2>3, <3>1 DEF E!EndWithRuling, RuledCase
  <2> QED BY <1>1, <2>4 DEF E!ExecutionNext
<1> QED BY <1>2, <1>3

(* Whatever the agents answer, an execution ends at most once, with a      *)
(* human or with a ruling on the case and all its flags.                   *)
THEOREM PipelineImplementsExecution == PipelineSpec => ImplementsExecution
<1>1. PipelineInit => E!ExecutionInit
  BY PipelineAssumption DEF PipelineInit, E!ExecutionInit, E!CaseFacts, CaseFacts
<1>2. PipelineInv /\ [PipelineNext]_pipelineVars => [E!ExecutionNext]_<<case, outcome>>
  <2> SUFFICES ASSUME PipelineInv, PipelineNext
               PROVE  E!ExecutionNext \/ UNCHANGED <<case, outcome>>
    BY DEF pipelineVars
  <2>1. CASE Triage \/ Investigate
    BY <2>1 DEF Triage, Investigate, CallTool, FinishInvestigation
  <2>2. ASSUME NEW found, NEW p, MapPolicy(found, p) PROVE UNCHANGED <<case, outcome>>
    BY <2>2 DEF MapPolicy
  <2>3. ASSUME NEW d \in Decisions, Decide(d)
        PROVE  E!ExecutionNext \/ UNCHANGED <<case, outcome>>
    BY <2>3, DecideEnds
  <2>4. ASSUME NEW status \in {"NEEDS_MANUAL_REVIEW", "FAILED"}, FailClosed(status)
        PROVE  E!ExecutionNext
    BY <2>4 DEF FailClosed, PipelineInv, StageInv, E!ExecutionNext, E!EndWithHuman, E!Escalated
  <2> QED BY <2>1, <2>2, <2>3, <2>4 DEF PipelineNext
<1> QED BY <1>1, <1>2, PipelineInvariance, PTL
    DEF PipelineSpec, ImplementsExecution, E!ExecutionSpec
=============================================================================
