--------------------------- MODULE CaseInvariant ---------------------------
(***************************************************************************)
(* Why the case workflow is safe: the inductive invariants behind the      *)
(* theorems of CaseProofs, CaseInv and, relative to it, RecordsInv.        *)
(***************************************************************************)
EXTENDS CaseSafety

(* A session past its reads works on one run.                              *)
Holding == {"executing", "deciding", "flushed"}

(* Nothing has come of run r yet, or only a recommendation that waits.     *)
Unfinished(r) == recs[r] = None /\ approvals[r] = None /\ (runs[r] = None \/ Queued(r))

Undecided(r) ==
    /\ recs[r] # None /\ recs[r].status = "PENDING_APPROVAL"
    /\ runs[r] # None /\ ~Queued(r)

(* What has to hold of a recommendation that takes effect.                 *)
Authorised(row, rec, approval) ==
    /\ rec.status = "EXECUTED" =>
          /\ rec.verified
          /\ approval # None /\ approval.decision = "approve" /\ approval.by # row.by
          /\ RoleOf[approval.by] \in ApprovalAuthority[rec.action]
    /\ rec.status = "AUTO_APPLIED" => ~RequiresApproval(rec.action, rec.case, rec.verified)

(* A session holds what it needs to make a legal commit.                   *)
PhaseInv(x) ==
    /\ x.pc \in {"starting", "executing"} => x.rec = None /\ x.approval = None
    /\ x.pc = "executing" => Unfinished(x.run)
    /\ x.pc = "deciding" => Undecided(x.run) /\ x.row.status # "QUEUED"
    /\ x.pc = "flushed" =>
          \/ /\ Unfinished(x.run) /\ x.approval = None
             /\ x.rec # None => x.row.status # "QUEUED"
          \/ Undecided(x.run) /\ x.rec # None /\ x.row.status # "QUEUED"

SessionInv(x) ==
    /\ x.pc \in Holding => x.run < nextRun
    /\ PhaseInv(x)
    /\ x.pc \in {"deciding", "flushed"} /\ x.rec # None => Authorised(x.row, x.rec, x.approval)
    /\ x.pc \in {"starting", "deciding", "flushed"} /\ x.target \in Terminal =>
          Executes(x) /\ OutcomeStatus[x.rec.action] = x.target

(* No two sessions work on the same run: the row locks on workflow_runs    *)
(* and recommendations, one after the other, keep them apart.              *)
OneHolder ==
    \A s, t \in Sessions :
       /\ sess[s].pc \in Holding /\ sess[t].pc \in Holding
       /\ sess[s].run = sess[t].run
       => s = t

TableInv ==
    \A r \in Runs :
       /\ runs[r] # None => r < nextRun
       /\ runs[r] = None \/ Queued(r) => recs[r] = None /\ approvals[r] = None
       /\ recs[r] # None => Authorised(runs[r], recs[r], approvals[r])

CaseInv ==
    /\ \A s \in Sessions : SessionInv(sess[s])
    /\ OneHolder
    /\ TableInv
    /\ SevereOutcomesAuthorised
    /\ TerminalAlertExplained
-----------------------------------------------------------------------------
(* What the tables, the audit trail, the keys and the alerts' versions     *)
(* rely on besides.  The rows that a session will commit are judged like   *)
(* the committed ones.                                                     *)

Owns(x) == x.pc \in {"executing", "flushed"} /\ runs[x.run] = None

Locks(x, a) ==
    /\ x.pc \in {"executing", "flushed"} /\ x.row.alert = a
    /\ Owns(x) \/ (x.pc = "flushed" /\ WritesAlert(x))

(* RunRecApprovalAgree of the rows of one run.                             *)
Agree(row, rec, approval) ==
    /\ rec = None => approval = None
    /\ row.status \in {"QUEUED", "FAILED", "NEEDS_MANUAL_REVIEW"} \/ rec # None
    /\ rec # None /\ row.status = "FAILED" => approval = None
    /\ rec # None /\ row.status # "FAILED" =>
          /\ row.status = "COMPLETED" <=> rec.status \in {"EXECUTED", "AUTO_APPLIED"}
          /\ row.status = "AWAITING_APPROVAL"
                <=> rec.status = "PENDING_APPROVAL" /\ rec.verified
          /\ rec.status = "EXECUTED" <=> approval # None /\ approval.decision = "approve"
          /\ rec.status = "REJECTED" <=> approval # None /\ approval.decision = "reject"

(* OutcomesAudited of the rows of run r against the trail T, first without *)
(* what is recorded only after the flush...                                *)
Audited(r, row, rec, approval, T) ==
    /\ Event("investigation_started", r, row.by) \in T
    /\ row.status # "QUEUED" =>
          \/ rec # None /\ Event("recommendation_created", r, None) \in T
          \/ Event("workflow_escalated_to_human", r, None) \in T
    /\ row.status = "FAILED" => Event("workflow_escalated_to_human", r, None) \in T
    /\ approval # None =>
          Event(IF approval.decision = "approve" THEN "recommendation_approve"
                ELSE "recommendation_reject", r, approval.by) \in T

(* ... and then that.                                                      *)
CarriedOut(r, row, rec, approval, T) ==
    /\ rec # None /\ rec.status \in {"EXECUTED", "AUTO_APPLIED"} /\ row.status # "FAILED"
    => Event("action_executed", r, IF approval = None THEN None ELSE approval.by) \in T

SameRun(row, committed) ==
    row.alert = committed.alert /\ row.by = committed.by /\ row.key = committed.key

StoryOf(x, T) ==
    /\ x.pc \in Holding /\ runs[x.run] # None => SameRun(x.row, runs[x.run])
    /\ x.pc = "starting" => x.target = "INVESTIGATING"
    /\ x.pc = "executing" =>
          /\ Event("investigation_started", x.run, x.row.by) \in T
          /\ Owns(x) => x.row.status # "QUEUED"
    /\ x.pc \in {"deciding", "flushed"} =>
          /\ Agree(x.row, x.rec, x.approval)
          /\ Audited(x.run, x.row, x.rec, x.approval, T)
    /\ x.pc = "deciding" => x.target \notin {"INVESTIGATING", "PENDING_APPROVAL"}
    /\ x.pc = "flushed" =>
          /\ CarriedOut(x.run, x.row, x.rec, x.approval, T)
          /\ x.target = "INVESTIGATING" => x.row.status = "QUEUED"
          /\ x.target = "PENDING_APPROVAL" =>
                x.rec # None /\ x.rec.status = "PENDING_APPROVAL" /\ x.rec.verified

RunStory(r, T) ==
    /\ runs[r] = None => recs[r] = None
    /\ runs[r] # None =>
          /\ Agree(runs[r], recs[r], approvals[r])
          /\ Audited(r, runs[r], recs[r], approvals[r], T)
          /\ CarriedOut(r, runs[r], recs[r], approvals[r], T)

(* A session that locks an alert has its latest version, one that executes *)
(* the run it has inserted a later one.                                    *)
Latest(x) ==
    Locks(x, x.row.alert) =>
       x.seen.ver >= alerts[x.row.alert].ver
                       + (IF Owns(x) /\ x.row.status # "QUEUED" THEN 1 ELSE 0)

OneLock ==
    \A s, t \in Sessions, a \in Alerts : Locks(sess[s], a) /\ Locks(sess[t], a) => s = t

KeyInv ==
    /\ OneRunPerKey
    /\ \A s \in Sessions : Owns(sess[s]) => ~KeyTaken(sess[s].row.key)
    /\ \A s, t \in Sessions :
          /\ Owns(sess[s]) /\ Owns(sess[t]) /\ sess[s].row.key = sess[t].row.key
          /\ sess[s].row.key # None
          => s = t

(* Whoever ends what the alert waits for has seen that it waits, and so    *)
(* moves it on.                                                            *)
MovesOn(x, status) == WritesAlert(x) /\ x.target # status

Tended(a, r) ==
    /\ Queued(r) /\ runs[r].alert = a
    /\ \A s \in Sessions : sess[s].run = r =>
          /\ sess[s].pc = "executing" => sess[s].seen.status = "INVESTIGATING"
          /\ sess[s].pc = "flushed" => MovesOn(sess[s], "INVESTIGATING")

Awaited(a, r) ==
    /\ recs[r] # None /\ runs[r].alert = a
    /\ recs[r].status = "PENDING_APPROVAL" /\ recs[r].verified
    /\ \A s \in Sessions : sess[s].run = r =>
          /\ sess[s].pc = "deciding" => sess[s].seen.status = "PENDING_APPROVAL"
          /\ sess[s].pc = "flushed" => MovesOn(sess[s], "PENDING_APPROVAL")

WaitInv ==
    \A a \in Alerts :
       /\ alerts[a].status = "INVESTIGATING" => \E r \in Runs : Tended(a, r)
       /\ alerts[a].status = "PENDING_APPROVAL" => \E r \in Runs : Awaited(a, r)

RecordsInv ==
    /\ \A s \in Sessions : StoryOf(sess[s], trail) /\ Latest(sess[s])
    /\ \A r \in Runs : RunStory(r, trail)
    /\ OneLock
    /\ KeyInv
    /\ WaitInv
=============================================================================
