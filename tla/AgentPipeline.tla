--------------------------- MODULE AgentPipeline ---------------------------
(***************************************************************************)
(* One execution of an investigation (agents/orchestrator.py, execute):    *)
(* triage, the tool loop, policy retrieval, decision, verification with    *)
(* one bounded repair, policy engine.  Every agent is a language model and *)
(* may answer anything its schema allows; code decides what it may see and *)
(* what is believed.                                                       *)
(*                                                                         *)
(* Simplifications: of the findings only what they cite, whether their     *)
(* claims match the system's numbers, and how many are aggravating (2      *)
(* stands for more) is kept; of triage only that it ends.                  *)
(***************************************************************************)
EXTENDS PolicyEngine, FiniteSets, Nullable

CONSTANTS
    Refs,             \* evidence ids a model may cite, known or invented
    Calls,            \* tool calls, each with its arguments
    Discloses,        \* [Calls -> SUBSET Refs]: what a call returns, {} if it is invalid
    Suspicious,       \* transactions whose reference reads like an instruction
    Chunks,           \* chunks of the knowledge base
    Level,            \* [Chunks -> 0..3]: clearance_level
    RefSets,          \* what a finding may cite: sets of Refs
    ChunkSets,        \* what an answer may cite: sets of Chunks
    Cases,            \* the cases under investigation: a set of CaseFacts
    MaxToolSteps,     \* agent_max_tool_steps
    DecisionRetries   \* decision_max_retries

Findings == [refs : RefSets, numbers : BOOLEAN, aggravating : 0..2]

(* guidance: of applicable guidance and approval requirements; nothing     *)
(* reads what red_flags_matched cites.                                     *)
PolicyOutput == [guidance : ChunkSets]

Decisions == [action : Actions, refs : RefSets, citations : ChunkSets, pii : BOOLEAN]

Outcomes == [kind : {"NEEDS_MANUAL_REVIEW", "FAILED"}]
            \cup [kind : {"recommended"}, action : Actions, verified : BOOLEAN,
                  automatic : BOOLEAN]

ASSUME PipelineAssumption ==
    /\ IsFiniteSet(Calls)
    /\ Discloses \in [Calls -> SUBSET Refs]
    /\ Level \in [Chunks -> 0..3]
    /\ RefSets \subseteq SUBSET Refs /\ ChunkSets \subseteq SUBSET Chunks
    /\ Cases \subseteq CaseFacts
    /\ MaxToolSteps \in Nat /\ DecisionRetries \in Nat
    /\ None \notin Findings \cup PolicyOutput \cup Decisions \cup Outcomes

VARIABLES
    stage,      \* the agent whose turn it is
    role,       \* of the user who started the investigation
    case,       \* the case as loaded, flagged by the scan at ingestion
    asked,      \* the tool calls made
    turns,      \* answers of the investigation agent
    disclosed,  \* scope.disclosed_refs
    flagged,    \* scope.injection_flags is not empty
    findings, policy, retrieved, decision,
    attempt,    \* failed verifications
    outcome

scope == <<asked, turns, disclosed, flagged>>
pipelineVars == <<stage, role, case, scope, findings, policy, retrieved, decision,
                  attempt, outcome>>

PipelineTypeOK ==
    /\ stage \in {"triage", "investigation", "policy", "decision", "ended"}
    /\ role \in MayStart
    /\ case \in Cases
    /\ asked \subseteq Calls
    /\ turns \in 0..(MaxToolSteps + 1)
    /\ disclosed \subseteq Refs
    /\ flagged \in BOOLEAN
    /\ findings \in Findings \cup {None}
    /\ policy \in PolicyOutput \cup {None}
    /\ retrieved \subseteq Chunks
    /\ decision \in Decisions \cup {None}
    /\ attempt \in 0..DecisionRetries
    /\ outcome \in Outcomes \cup {None}
-----------------------------------------------------------------------------
(* TriageAgent: it degrades to rules when the model fails, so that the     *)
(* execution goes on in any case.                                          *)
Triage ==
    /\ stage = "triage"
    /\ stage' = "investigation"
    /\ UNCHANGED <<role, case, scope, findings, policy, retrieved, decision, attempt, outcome>>
-----------------------------------------------------------------------------
(* InvestigationAgent and its tools                                        *)

(* A call must be new and within the budget; otherwise AgentLoopError.     *)
MayCall(c) == c \notin asked /\ Cardinality(asked) < MaxToolSteps

(* A call with invalid arguments discloses nothing and uses up the budget. *)
CallTool(c) ==
    /\ stage = "investigation"
    /\ turns < MaxToolSteps + 2
    /\ MayCall(c)
    /\ turns' = turns + 1
    /\ asked' = asked \cup {c}
    /\ disclosed' = disclosed \cup Discloses[c]
    /\ flagged' = (flagged \/ Discloses[c] \cap Suspicious # {})
    /\ UNCHANGED <<stage, role, case, findings, policy, retrieved, decision, attempt, outcome>>

FinishInvestigation(f) ==
    /\ stage = "investigation"
    /\ turns < MaxToolSteps + 2
    /\ turns' = turns + 1
    /\ stage' = "policy"
    /\ findings' = f
    /\ UNCHANGED <<role, case, asked, disclosed, flagged, policy, retrieved, decision,
                   attempt, outcome>>
-----------------------------------------------------------------------------
(* PolicyAgent: retrieval with the clearance of the user who asked         *)

ClearanceFor(r) ==
    CASE r \in {"mlro", "admin"} -> 3 [] r = "investigator" -> 2 [] OTHER -> 1

(* Mutation: retrieval ignores the clearance.                              *)
ReadableAll == Chunks

Readable == {k \in Chunks : Level[k] <= ClearanceFor(role)}

MapPolicy(found, p) ==
    /\ stage = "policy"
    /\ found \subseteq Readable
    /\ stage' = "decision"
    /\ retrieved' = found
    /\ policy' = p
    /\ UNCHANGED <<role, case, scope, findings, decision, attempt, outcome>>
-----------------------------------------------------------------------------
(* DecisionAgent, verifier and policy engine                               *)

(* Mutation: the evidence of the findings is taken on trust.               *)
CriticalIssuesKeyFindings(d) ==
    {i \in {"unverified_evidence_ref", "invalid_citation"} :
       \/ i = "unverified_evidence_ref" /\ ~ d.refs \subseteq disclosed
       \/ i = "invalid_citation" /\ ~ d.citations \subseteq retrieved}

(* verify_decision: the issues with severity critical.                     *)
CriticalIssues(d) ==
    LET closing == d.action = "CLOSE_FALSE_POSITIVE"
        found(i) ==
          \/ i = "unverified_evidence_ref" /\ ~ (findings.refs \cup d.refs \subseteq disclosed)
          \/ i = "quantitative_claim_mismatch" /\ ~ findings.numbers
          \/ i = "invalid_citation" /\ ~ d.citations \subseteq retrieved
          \/ i = "invalid_policy_citation" /\ ~ policy.guidance \subseteq retrieved
          \/ i = "pii_in_output" /\ d.pii
          \/ i = "close_contradicts_model" /\ closing /\ case.risk >= 500
          \/ i = "close_with_unresolved_aggravating_findings" /\ closing
             /\ findings.aggravating >= 2
          \/ i = "escalation_without_aggravating_evidence" /\ d.action \in Severe
             /\ findings.aggravating = 0
    IN  {i \in {"unverified_evidence_ref", "quantitative_claim_mismatch", "invalid_citation",
                "invalid_policy_citation", "pii_in_output", "close_contradicts_model",
                "close_with_unresolved_aggravating_findings",
                "escalation_without_aggravating_evidence"} : found(i)}

(* Mutation: the policy rules on the flags the case arrived with.          *)
RuledCaseLoaded == case

(* The case the policy rules on: flags raised by the tools included.       *)
RuledCase == [case EXCEPT !.flagged = flagged]

(* Mutation: the ruling assumes that the repaired decision passed.         *)
RulingRepaired(d, passed) ==
    [kind |-> "recommended", action |-> d.action, verified |-> passed,
     automatic |-> ~ RequiresApproval(d.action, RuledCase, passed \/ attempt > 0)]

Ruling(d, passed) ==
    [kind |-> "recommended", action |-> d.action, verified |-> passed,
     automatic |-> ~ RequiresApproval(d.action, RuledCase, passed)]

(* Mutation: a repair that retrieves again and is not counted.             *)
RepairUncounted == stage' = "policy" /\ UNCHANGED attempt

MayRepair == attempt < DecisionRetries

Repair == attempt' = attempt + 1 /\ UNCHANGED stage

(* A decision that fails verification is sent back while there are         *)
(* retries; the last one goes to the policy engine as it is.               *)
Decide(d) ==
    LET passed == CriticalIssues(d) = {} IN
    /\ stage = "decision"
    /\ IF ~ passed /\ MayRepair
       THEN Repair /\ UNCHANGED <<decision, outcome>>
       ELSE /\ stage' = "ended"
            /\ decision' = d
            /\ outcome' = Ruling(d, passed)
            /\ UNCHANGED attempt
    /\ UNCHANGED <<role, case, scope, findings, policy, retrieved>>
-----------------------------------------------------------------------------
(* An AppError (the model failed, repeated a call, overran its budget or   *)
(* found nothing) after triage, or any other exception at any time.        *)
FailClosed(status) ==
    /\ IF status = "FAILED" THEN stage # "ended"
       ELSE stage \in {"investigation", "policy", "decision"}
    /\ stage' = "ended"
    /\ outcome' = [kind |-> status]
    /\ UNCHANGED <<role, case, scope, findings, policy, retrieved, decision, attempt>>

PipelineInit ==
    /\ stage = "triage"
    /\ role \in MayStart
    /\ case \in Cases
    /\ asked = {} /\ turns = 0 /\ disclosed = {}
    /\ flagged = case.flagged
    /\ findings = None /\ policy = None /\ retrieved = {}
    /\ decision = None /\ attempt = 0
    /\ outcome = None

Investigate == (\E c \in Calls : CallTool(c)) \/ (\E f \in Findings : FinishInvestigation(f))

PipelineNext ==
    \/ Triage
    \/ Investigate
    \/ \E found \in SUBSET Chunks, p \in PolicyOutput : MapPolicy(found, p)
    \/ \E d \in Decisions : Decide(d)
    \/ \E status \in {"NEEDS_MANUAL_REVIEW", "FAILED"} : FailClosed(status)

PipelineSpec == PipelineInit /\ [][PipelineNext]_pipelineVars

(* The thread that executes goes on, and every model call ends             *)
(* (LlmGateway, CallsEnd).                                                 *)
FairPipelineSpec == PipelineSpec /\ WF_pipelineVars(PipelineNext)
-----------------------------------------------------------------------------
(* Properties                                                              *)

Verified == outcome # None /\ outcome.kind = "recommended" /\ outcome.verified

Automatic == outcome # None /\ outcome.kind = "recommended" /\ outcome.automatic

(* All that a verified recommendation and its findings cite was returned   *)
(* by a tool call of this execution, at whichever attempt it passed.       *)
VerifiedIsGrounded ==
    Verified => findings.refs \cup decision.refs \subseteq UNION {Discloses[c] : c \in asked}

(* No policy passage above the initiator's clearance gets into the         *)
(* citations or the guidance of a verified recommendation.                 *)
CitationsCleared ==
    Verified => \A k \in decision.citations \cup policy.guidance :
                   Level[k] <= ClearanceFor(role)

(* A case with a suspicious reference anywhere the agents have looked, or  *)
(* where the scan at ingestion found one, is never closed without a human. *)
FlaggedNeverAutomatic ==
    Automatic => /\ ~ case.flagged
                 /\ \A c \in asked : Discloses[c] \cap Suspicious = {}

(* Tool calls and model turns stay within the limits of docs/security.md.  *)
WithinBudget == Cardinality(asked) <= MaxToolSteps /\ turns <= MaxToolSteps + 1

(* Every execution ends.                                                   *)
ExecutionEnds == <>(stage = "ended")

(* The pipeline implements the execution the case workflow relies on.      *)
E == INSTANCE Execution WITH Running <- None, result <- outcome

ImplementsExecution == E!ExecutionSpec
=============================================================================
