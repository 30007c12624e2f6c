----------------------------- MODULE CaseSafety -----------------------------
(* What the case workflow promises whatever the interleaving of requests,  *)
(* workers and rollbacks.                                                  *)
EXTENDS CaseWorkflow

Terminal == {OutcomeStatus[a] : a \in Actions}

(* The action of run r's recommendation has been carried out.              *)
Executed(r) == recs[r] # None /\ recs[r].status \in {"EXECUTED", "AUTO_APPLIED"}

(* Every report to the authorities, and every restricted account, goes     *)
(* back to a recommendation that passed verification and that an MLRO      *)
(* other than the initiator approved, whatever the orchestrator, the       *)
(* policy engine and two deciders did in between.                          *)
ApprovedByMlro(r, u) ==
    /\ recs[r] # None /\ recs[r].status = "EXECUTED"
    /\ recs[r].verified /\ recs[r].action \in Severe
    /\ approvals[r] = [by |-> u, decision |-> "approve"]
    /\ RoleOf[u] = "mlro" /\ runs[r] # None /\ runs[r].by # u

SevereOutcomesAuthorised ==
    /\ \A x \in strs : ApprovedByMlro(x.run, x.by) /\ runs[x.run].alert = x.alert
    /\ \A c \in restricted : \E r \in Runs, u \in Users :
          /\ ApprovedByMlro(r, u) /\ recs[r].action = "RESTRICT_ACCOUNT"
          /\ CustomerOf[runs[r].alert] = c

(* Nothing takes effect on a recommendation that failed verification, and  *)
(* what took effect without a human was free of every blocker.             *)
NothingFailsOpen ==
    \A r \in Runs : Executed(r) =>
       /\ recs[r].verified
       /\ approvals[r] = None =>
             /\ recs[r].action \notin Severe
             /\ ~recs[r].case.flagged /\ ~recs[r].case.highRisk

(* An alert in a terminal status has an executed recommendation for that   *)
(* outcome: no interleaving closes or escalates an alert by itself.        *)
TerminalAlertExplained ==
    \A a \in Alerts : alerts[a].status \in Terminal =>
       \E r \in Runs : /\ Executed(r) /\ runs[r].alert = a
                       /\ OutcomeStatus[recs[r].action] = alerts[a].status

(* An alert under investigation has a run that is still to be executed;    *)
(* otherwise nothing would ever move it on, since it is not startable.     *)
NoOrphanedInvestigation ==
    \A a \in Alerts : alerts[a].status = "INVESTIGATING" =>
       \E r \in Runs : Queued(r) /\ runs[r].alert = a

(* An alert waiting for approval waits for a recommendation that can still *)
(* be approved.                                                            *)
NoOrphanedApproval ==
    \A a \in Alerts : alerts[a].status = "PENDING_APPROVAL" =>
       \E r \in Runs : /\ recs[r] # None /\ runs[r].alert = a
                       /\ recs[r].status = "PENDING_APPROVAL" /\ recs[r].verified

(* Run, recommendation and approval tell the same story at every commit,   *)
(* although three functions write them.  A FAILED run may carry the        *)
(* recommendation it failed on.                                            *)
RunRecApprovalAgree ==
    \A r \in Runs :
       /\ runs[r] = None => recs[r] = None
       /\ recs[r] = None => approvals[r] = None
       /\ runs[r] # None => runs[r].status \in {"QUEUED", "FAILED", "NEEDS_MANUAL_REVIEW"}
             \/ recs[r] # None
       /\ recs[r] # None /\ runs[r].status = "FAILED" => approvals[r] = None
       /\ recs[r] # None /\ runs[r].status # "FAILED" =>
             /\ runs[r].status = "COMPLETED" <=> Executed(r)
             /\ runs[r].status = "AWAITING_APPROVAL"
                   <=> recs[r].status = "PENDING_APPROVAL" /\ recs[r].verified
             /\ recs[r].status = "EXECUTED"
                   <=> approvals[r] # None /\ approvals[r].decision = "approve"
             /\ recs[r].status = "REJECTED"
                   <=> approvals[r] # None /\ approvals[r].decision = "reject"

(* No alert is stuck between its run and its decision: whatever fails or   *)
(* rolls back, someone can still execute or approve what it waits for.     *)
NoOrphanedAlert == NoOrphanedInvestigation /\ NoOrphanedApproval

(* Every committed fact has its audit event, by the right actor, even when *)
(* the process stops between the audit append and the business commit or   *)
(* an append fails; a run that failed has the event of its escalation.     *)
OutcomesAudited ==
    \A r \in Runs :
       /\ runs[r] # None => Event("investigation_started", r, runs[r].by) \in trail
       /\ runs[r] # None /\ ~Queued(r) =>
             \/ recs[r] # None /\ Event("recommendation_created", r, None) \in trail
             \/ Event("workflow_escalated_to_human", r, None) \in trail
       /\ runs[r] # None /\ runs[r].status = "FAILED" =>
             Event("workflow_escalated_to_human", r, None) \in trail
       /\ approvals[r] # None =>
             Event(IF approvals[r].decision = "approve" THEN "recommendation_approve"
                   ELSE "recommendation_reject", r, approvals[r].by) \in trail
       /\ Executed(r) /\ runs[r].status # "FAILED" =>
             Event("action_executed", r,
                   IF approvals[r] = None THEN None ELSE approvals[r].by) \in trail

(* An idempotency key never has two runs.                                  *)
OneRunPerKey ==
    \A q, r \in Runs : runs[q] # None /\ runs[r] # None /\ runs[q].key # None
                       /\ runs[q].key = runs[r].key => q = r

(* Every committed change of an alert was made on its latest version: no   *)
(* update of a worker, a start or a decision is ever lost.  A synchronous  *)
(* investigation updates the alert at least twice in its transaction.      *)
SyncRunCommitted(a) ==
    \E r \in Runs : /\ runs[r] = None /\ runs'[r] # None
                    /\ runs'[r].alert = a /\ runs'[r].status # "QUEUED"

NoLostUpdate ==
    [][\A a \in Alerts : alerts'[a] # alerts[a] =>
          alerts'[a].ver >= alerts[a].ver + (IF SyncRunCommitted(a) THEN 2 ELSE 1)]_vars

(* A run is executed once: when it has left the queue it never returns,    *)
(* gets no second result, and a decision on it is final.                   *)
ExecutedOnce ==
    [][\A r \in Runs :
          /\ runs[r] # None /\ ~Queued(r) => ~Queued(r)' /\ runs'[r] # None
          /\ runs[r] # None /\ ~Queued(r) /\ recs[r] = None =>
                runs'[r] = runs[r] /\ recs'[r] = None
          /\ recs[r] # None /\ recs[r].status # "PENDING_APPROVAL" =>
                recs'[r] = recs[r] /\ approvals'[r] = approvals[r]]_vars

QueuedRunsFinish == \A r \in Runs : Queued(r) ~> ~Queued(r)

InvestigationsEnd ==
    \A a \in Alerts : alerts[a].status = "INVESTIGATING"
                        ~> alerts[a].status # "INVESTIGATING"

(* Every queued run is eventually executed or escalated: none is starved   *)
(* by later runs, by stale versions or by locked alerts (process_one); and *)
(* no alert stays under investigation, also when the run that moved it is  *)
(* not the one that finishes (create_run, execute).                        *)
WorkFinishes == QueuedRunsFinish /\ InvestigationsEnd
-----------------------------------------------------------------------------
(* docs/architecture.md: "alerts.lock_version (optimistic locking)         *)
(* prevents two investigations starting on one alert".                     *)
OneActiveInvestigation ==
    \A q, r \in Runs : Queued(q) /\ Queued(r) /\ runs[q].alert = runs[r].alert => q = r

(* docs/architecture.md: "Every other failure [...] ends in                *)
(* NEEDS_MANUAL_REVIEW with an audit record".  A run that a worker has     *)
(* begun to execute ends, one way or the other.                            *)
EveryExecutionEnds ==
    \A r \in Runs : (\E w \in Workers : sess[w].pc = "executing" /\ sess[w].run = r)
                       ~> ~Queued(r)
=============================================================================
