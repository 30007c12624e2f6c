-------------------------- MODULE MCAgentPipeline --------------------------
(* A case small enough for TLC: a list of transactions with one suspicious *)
(* reference, the alert's features, a call with invalid arguments and an   *)
(* invented transaction; a procedure for everyone and one for MLROs.       *)
(* The gateway that the agents call through shares no variable with them,  *)
(* so that each is explored with the other at rest.                        *)
EXTENDS AgentPipeline, LlmGateway

CONSTANTS tx, feature, invented, listTx, getFeatures, badArguments, procedure, liaison

VARIABLE part

MCRefs == {tx, feature, invented}
MCCalls == {listTx, getFeatures, badArguments}
MCDiscloses == [c \in MCCalls |-> IF c = listTx THEN {tx}
                                  ELSE IF c = getFeatures THEN {feature} ELSE {}]
MCChunks == {procedure, liaison}
MCLevel == [k \in MCChunks |-> IF k = procedure THEN 1 ELSE 3]
MCRefSets == {{tx}, {feature, invented}}
MCChunkSets == {{}, {procedure}, {liaison}}

Clean == [tenant |-> "emerald", risk |-> 10, anomaly |-> 100, highRisk |-> FALSE,
          sme |-> FALSE, cash |-> 0, flagged |-> FALSE]
MCCases == {Clean, [Clean EXCEPT !.risk = 700, !.flagged = TRUE]}

MCInit ==
    /\ PipelineInit /\ GatewayInit
    /\ \/ part = "agents"
       \/ part = "gateway" /\ role = "analyst" /\ case = Clean

Agents == part = "agents" /\ PipelineNext /\ UNCHANGED <<gatewayVars, part>>

Gateway == part = "gateway" /\ GatewayNext /\ UNCHANGED <<pipelineVars, part>>

MCSpec == MCInit /\ [][Agents \/ Gateway]_<<pipelineVars, gatewayVars, part>>

(* FairPipelineSpec and FairGatewaySpec, for the component not at rest.    *)
FairMCSpec ==
    /\ MCSpec
    /\ WF_pipelineVars(part = "agents" /\ PipelineNext)
    /\ WF_gatewayVars(part = "gateway" /\ Answer)

(* Every structured call ends, whatever its provider answers (structured), *)
(* and so does every execution, through every failure, tool call and       *)
(* repair (execute).                                                       *)
NothingHangs == CallsEnd /\ (part = "agents" => ExecutionEnds)
=============================================================================
