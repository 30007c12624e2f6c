----------------------------- MODULE MCServing -----------------------------
(* What is served, against what was reviewed, promoted and allowed: the    *)
(* documents, the model that processes keep in memory, and the limiter's   *)
(* window and the logins.  The components share no variable, so that each  *)
(* is explored with the others at rest.                                    *)
(* The registry comes twice: two trainers for up to three seconds, and one *)
(* trainer at a time, for two seconds, beside an API server and two        *)
(* scoring stages.                                                         *)
EXTENDS MCKnowledgeBase, ModelRegistry, Access

CONSTANTS good, weak, stage1, stage2, h1, h2, browser

VARIABLE part

MCMetrics ==
    [d \in Data |-> [prAuc |-> 97, baseline |-> 95, recall |-> IF d = weak THEN 89 ELSE 90, groupCv |-> 80]]
MCProcessOf == [th \in Threads |-> IF th \in Scorers THEN th ELSE "api"]
MCServerOf == [t \in Handlers |-> "uvicorn"]

ServingSymmetry == RequestSymmetry \cup Permutations(Trainers)

MCInit ==
    /\ KnowledgeInit /\ RegistryInit /\ AccessInit
    /\ part \in {"knowledge", "training", "scoring", "access"}

Busy == {t \in Trainers : trainer[t].pc # "idle"}

TrainingStep == \E t \in Trainers : TrainerStep(t) \/ TrainerDies(t)

Promotions ==
    \/ NextSecond
    \/ TrainingStep
    \/ \E t \in Trainers, d \in Data : nextId + Cardinality(Busy) <= MaxModels /\ Fit(t, d)

Scoring ==
    \/ now = 1 /\ NextSecond
    \/ TrainingStep
    \/ \E t \in Trainers, d \in Data : Busy = {} /\ nextId <= 2 /\ Fit(t, d)
    \/ \E th \in Threads : ThreadStep(th)
    \/ \E a \in Alerts : Touch(a)

(* The clocks of the registry and the logins come to an end; documents     *)
(* must never be stuck.                                                    *)
Over == part # "knowledge" /\ UNCHANGED <<kbVars, registryVars, accessVars, part>>

MCNext ==
    \/ part = "knowledge" /\ KnowledgeNext /\ UNCHANGED <<registryVars, accessVars, part>>
    \/ part = "training" /\ Promotions /\ UNCHANGED <<kbVars, accessVars, part>>
    \/ part = "scoring" /\ Scoring /\ UNCHANGED <<kbVars, accessVars, part>>
    \/ part = "access" /\ AccessNext /\ UNCHANGED <<kbVars, registryVars, part>>
    \/ Over

MCSpec == MCInit /\ [][MCNext]_<<kbVars, registryVars, accessVars, part>>
=============================================================================
