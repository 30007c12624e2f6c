---------------------------- MODULE CaseWorkflow ----------------------------
(***************************************************************************)
(* An alert's way from NEW to an outcome: API requests start and decide,   *)
(* workers execute queued runs, and PostgreSQL (READ COMMITTED) arbitrates *)
(* between their transactions.                                             *)
(*                                                                         *)
(* alerts, runs, recs, approvals, strs, restricted and monitored are the   *)
(* committed rows.  A session is one SQLAlchemy Session: the rows it has   *)
(* written and not committed stay in sess[s], invisible to the others,     *)
(* until Commit installs them or Abort forgets them.  trail is the audit   *)
(* log, which commits on its own connection and so survives an Abort.      *)
(*                                                                         *)
(* A recommendation, its approval and its report are unique per run and    *)
(* per recommendation, so all of them are indexed by the run.              *)
(***************************************************************************)
EXTENDS PolicyEngine

CONSTANTS
    Alerts,       \* alerts of one tenant
    Customers,
    CustomerOf,   \* [Alerts -> Customers]
    Users,
    RoleOf,       \* [Users -> Roles]
    Keys,         \* values of the Idempotency-Key header
    Requests,     \* API request threads, one Session each
    Workers,      \* worker processes, one Session per iteration
    Modes,        \* the run statuses a start may ask for: async QUEUED, sync RUNNING
    Proposals,    \* the actions the decision agent may propose
    Cases,        \* the facts the approval policy may read: a set of CaseFacts
    MaxRuns,      \* bound on the investigations ever inserted
    None          \* an absent row, key or actor

Runs == 1..MaxRuns       \* ids in created_at order

Sessions == Requests \cup Workers

AlertStatus == {"NEW", "INVESTIGATING", "PENDING_APPROVAL", "NEEDS_MANUAL_REVIEW",
                "CLOSED_FALSE_POSITIVE", "MONITORING", "ESCALATED_STR",
                "ACCOUNT_RESTRICTED"}

WorkflowStatus == {"QUEUED", "RUNNING", "AWAITING_APPROVAL", "COMPLETED",
                   "NEEDS_MANUAL_REVIEW", "FAILED"}

RecStatus == {"PENDING_APPROVAL", "REJECTED", "AUTO_APPLIED", "EXECUTED"}

AlertRow == [status : AlertStatus, ver : Nat, scored : BOOLEAN]

RunRow == [alert : Alerts, status : WorkflowStatus, by : Users, key : Keys \cup {None}]

RecRow == [action : Actions, case : Cases, verified : BOOLEAN, status : RecStatus]

ApprovalRow == [by : Users, decision : {"approve", "reject"}]

Report == [run : Runs, alert : Alerts, by : Users \cup {None}]

AuditEvent == [action : {"investigation_started", "recommendation_created",
                         "workflow_escalated_to_human", "recommendation_approve",
                         "recommendation_reject", "action_executed"},
               run : Runs, actor : Users \cup {None}]

PCs == {"idle", "starting", "executing", "deciding", "flushed"}

Session == [pc       : PCs,
            run      : Runs \cup {None},
            row      : RunRow \cup {None},       \* the run as this session sees it
            seen     : AlertRow \cup {None},     \* the alert as this session read it
            target   : AlertStatus \cup {None},  \* the status it gives the alert
            rec      : RecRow \cup {None},
            approval : ApprovalRow \cup {None}]

ASSUME ConstantsAssumption ==
    /\ MaxRuns \in Nat
    /\ CustomerOf \in [Alerts -> Customers]
    /\ RoleOf \in [Users -> Roles]
    /\ Modes \subseteq {"QUEUED", "RUNNING"}
    /\ Proposals \subseteq Actions
    /\ Cases \subseteq CaseFacts
    /\ Requests \cap Workers = {}
    /\ None \notin Users \cup Keys \cup Runs \cup RunRow \cup RecRow \cup ApprovalRow

VARIABLES alerts, runs, recs, approvals, strs, restricted, monitored,
          trail, nextRun, sess

rows == <<alerts, runs, recs, approvals, strs, restricted, monitored>>

vars == <<alerts, runs, recs, approvals, strs, restricted, monitored,
          trail, nextRun, sess>>

TypeOK ==
    /\ alerts \in [Alerts -> AlertRow]
    /\ runs \in [Runs -> RunRow \cup {None}]
    /\ recs \in [Runs -> RecRow \cup {None}]
    /\ approvals \in [Runs -> ApprovalRow \cup {None}]
    /\ strs \subseteq Report
    /\ restricted \subseteq Customers
    /\ monitored \subseteq Customers
    /\ trail \subseteq AuditEvent
    /\ nextRun \in 1..(MaxRuns + 1)
    /\ sess \in [Sessions -> Session]
-----------------------------------------------------------------------------
(* Sessions, row locks and the optimistic lock on alerts.                  *)

IdleSession == [pc |-> "idle", run |-> None, row |-> None, seen |-> None,
                target |-> None, rec |-> None, approval |-> None]

(* The session inserted its run and has not committed it: the synchronous  *)
(* mode executes in the transaction that created the run.                  *)
OwnsNewRun(s) ==
    /\ sess[s].pc \in {"executing", "flushed"}
    /\ runs[sess[s].run] = None

(* SQLAlchemy emits an UPDATE, and checks lock_version, only when the      *)
(* status really changes.                                                  *)
WritesAlert(x) == x.target # x.seen.status

(* The uncommitted UPDATE of an alert row holds its row lock.              *)
HoldsAlert(s, a) ==
    /\ sess[s].pc \in {"executing", "flushed"}
    /\ sess[s].row.alert = a
    /\ OwnsNewRun(s) \/ (sess[s].pc = "flushed" /\ WritesAlert(sess[s]))

AlertFree(s, a) == \A t \in Sessions \ {s} : ~HoldsAlert(t, a)

(* SELECT ... FOR UPDATE on the recommendation, held to the end.           *)
HoldsRec(s, r) == sess[s].pc \in {"deciding", "flushed"} /\ sess[s].run = r

(* Mutation: the workers poll without a lock.                              *)
HoldsRunNever(s, r) == FALSE

(* The worker's SELECT ... FOR UPDATE SKIP LOCKED on the queued run.       *)
HoldsRun(s, r) == sess[s].pc \in {"executing", "flushed"} /\ sess[s].run = r

(* Mutation: alerts without a version column.                              *)
FreshAlways(s, x) == TRUE

(* UPDATE alerts ... WHERE lock_version = seen.ver finds the row; when it  *)
(* does not, StaleDataError rolls the session back.                        *)
Fresh(s, x) ==
    WritesAlert(x) => OwnsNewRun(s) \/ alerts[x.row.alert].ver = x.seen.ver

(* Mutation: actions.execute returns without its audit event.              *)
FlushCaseSilent(s, x, before, after) ==
    /\ WritesAlert(x) => AlertFree(s, x.row.alert)
    /\ sess' = [sess EXCEPT ![s] = IF Fresh(s, x) THEN [x EXCEPT !.pc = "flushed"]
                                   ELSE IdleSession]
    /\ trail' = trail \cup before

(* Flush x as the session's final state; the audit events in before are    *)
(* recorded first, those in after only if the flush succeeded.             *)
FlushCase(s, x, before, after) ==
    /\ WritesAlert(x) => AlertFree(s, x.row.alert)
    /\ IF Fresh(s, x)
       THEN /\ sess' = [sess EXCEPT ![s] = [x EXCEPT !.pc = "flushed"]]
            /\ trail' = trail \cup before \cup after
       ELSE /\ sess' = [sess EXCEPT ![s] = IdleSession]
            /\ trail' = trail \cup before

Event(action, r, actor) == [action |-> action, run |-> r, actor |-> actor]
-----------------------------------------------------------------------------
(* Starting an investigation: Orchestrator.create_run                      *)

Startable == {"NEW", "NEEDS_MANUAL_REVIEW"}

(* pipeline.score_all_alerts: gives an unscored alert its risk score.      *)
ScoreAlert(a) ==
    /\ ~alerts[a].scored
    /\ \A s \in Sessions : ~HoldsAlert(s, a)
    /\ alerts' = [alerts EXCEPT ![a].scored = TRUE, ![a].ver = @ + 1]
    /\ UNCHANGED <<runs, recs, approvals, strs, restricted, monitored,
                   trail, nextRun, sess>>

(* Mutation: no lookup and no unique constraint.                           *)
KeyTakenNever(k) == FALSE

(* A committed run carries the key: the lookup finds it, and an INSERT     *)
(* fails on the unique constraint.                                         *)
KeyTaken(k) == k # None /\ \E r \in Runs : runs[r] # None /\ runs[r].key = k

(* An INSERT of a key that an open transaction has inserted waits for it.  *)
KeyPending(s, k) ==
    k # None /\ \E t \in Sessions \ {s} : OwnsNewRun(t) /\ sess[t].row.key = k

(* The reads and checks.  A key that already has a run answers with that   *)
(* run, or 409, and changes nothing.  status is QUEUED for mode=async.     *)
StartRead(s, u, a, k, status) ==
    /\ sess[s].pc = "idle"
    /\ RoleOf[u] \in MayStart
    /\ ~KeyTaken(k)
    /\ alerts[a].scored
    /\ alerts[a].status \in Startable
    /\ sess' = [sess EXCEPT ![s] =
          [IdleSession EXCEPT !.pc = "starting",
              !.row = [alert |-> a, status |-> status, by |-> u, key |-> k],
              !.seen = alerts[a], !.target = "INVESTIGATING"]]
    /\ UNCHANGED <<rows, trail, nextRun>>

(* The flush of the alert and the new run, and the audit record.  An       *)
(* asynchronous start has only its commit left; a synchronous one goes on  *)
(* to execute with the alert it has just updated.                          *)
StartFlush(s) ==
    LET x == sess[s] IN
    /\ x.pc = "starting"
    /\ nextRun \in Runs
    /\ AlertFree(s, x.row.alert)
    /\ ~KeyPending(s, x.row.key)
    /\ IF alerts[x.row.alert].ver = x.seen.ver /\ ~KeyTaken(x.row.key)
       THEN /\ nextRun' = nextRun + 1
            /\ trail' = trail \cup {Event("investigation_started", nextRun, x.row.by)}
            /\ sess' = [sess EXCEPT ![s] =
                  IF x.row.status = "QUEUED"
                  THEN [x EXCEPT !.pc = "flushed", !.run = nextRun]
                  ELSE [x EXCEPT !.pc = "executing", !.run = nextRun,
                           !.seen = [x.seen EXCEPT !.status = "INVESTIGATING",
                                                   !.ver = @ + 1]]]
       ELSE /\ sess' = [sess EXCEPT ![s] = IdleSession]
            /\ UNCHANGED <<trail, nextRun>>
    /\ UNCHANGED rows
-----------------------------------------------------------------------------
(* Executing a run: worker.process_one and Orchestrator.execute            *)

Queued(r) == runs[r] # None /\ runs[r].status = "QUEUED"

(* The worker takes the oldest queued run that no one has locked, and      *)
(* execute loads its alert, whatever status the alert has by then.         *)
Claim(w, r) ==
    /\ sess[w].pc = "idle"
    /\ Queued(r) /\ \A t \in Sessions : ~HoldsRun(t, r)
    /\ \A q \in Runs : q < r /\ Queued(q) => \E t \in Sessions : HoldsRun(t, q)
    /\ sess' = [sess EXCEPT ![w] =
          [IdleSession EXCEPT !.pc = "executing", !.run = r, !.row = runs[r],
              !.seen = alerts[runs[r].alert]]]
    /\ UNCHANGED <<rows, trail, nextRun>>

(* _fail_closed: an AppError (timeout, bad schema, loop, open circuit)     *)
(* ends the run NEEDS_MANUAL_REVIEW, any other exception FAILED; the alert *)
(* goes to manual review either way.                                       *)
Escalate(s, status) ==
    LET x == sess[s] IN
    /\ x.pc = "executing"
    /\ FlushCase(s, [x EXCEPT !.row.status = status, !.target = "NEEDS_MANUAL_REVIEW"],
                 {Event("workflow_escalated_to_human", x.run, None)}, {})
    /\ UNCHANGED <<rows, nextRun>>

OutcomeStatus ==
    [a \in Actions |-> CASE a = "CLOSE_FALSE_POSITIVE" -> "CLOSED_FALSE_POSITIVE"
                         [] a = "ENHANCED_MONITORING" -> "MONITORING"
                         [] a = "ESCALATE_STR" -> "ESCALATED_STR"
                         [] a = "RESTRICT_ACCOUNT" -> "ACCOUNT_RESTRICTED"]

NewRec(action, c, verified) ==
    [action |-> action, case |-> c, verified |-> verified,
     status |-> IF RequiresApproval(action, c, verified)
                THEN "PENDING_APPROVAL" ELSE "AUTO_APPLIED"]

(* Mutations: the run's status is set and the alert's forgotten; the       *)
(* outcome is applied first and approved later.                            *)
AlertAfterForgotten(rec) ==
    IF ~rec.verified THEN "INVESTIGATING"
    ELSE IF rec.status = "PENDING_APPROVAL" THEN "PENDING_APPROVAL"
    ELSE OutcomeStatus[rec.action]

AlertAfterEager(rec) ==
    IF ~rec.verified THEN "NEEDS_MANUAL_REVIEW" ELSE OutcomeStatus[rec.action]

(* Where the recommendation leaves the alert...                            *)
AlertAfter(rec) ==
    IF ~rec.verified THEN "NEEDS_MANUAL_REVIEW"
    ELSE IF rec.status = "PENDING_APPROVAL" THEN "PENDING_APPROVAL"
    ELSE OutcomeStatus[rec.action]

(* Mutation: the same swap for the run.                                    *)
RunAfterSwapped(rec) ==
    IF rec.status = "PENDING_APPROVAL" THEN "AWAITING_APPROVAL" ELSE "COMPLETED"

(* ... and the run.                                                        *)
RunAfter(rec) ==
    IF ~rec.verified THEN "NEEDS_MANUAL_REVIEW"
    ELSE IF rec.status = "PENDING_APPROVAL" THEN "AWAITING_APPROVAL" ELSE "COMPLETED"

(* The agents reached a decision, verified at the first or second attempt  *)
(* or not at all; the policy engine rules on it.                           *)
Recommend(s, action, c, verified) ==
    LET x == sess[s]
        rec == NewRec(action, c, verified)
    IN
    /\ x.pc = "executing"
    /\ FlushCase(s, [x EXCEPT !.row.status = RunAfter(rec), !.target = AlertAfter(rec),
                              !.rec = rec],
                 {Event("recommendation_created", x.run, None)},
                 IF rec.status = "AUTO_APPLIED"
                 THEN {Event("action_executed", x.run, None)} ELSE {})
    /\ UNCHANGED <<rows, nextRun>>

(* _fail_closed of a run that has its recommendation already.              *)
Failed(x, rec) ==
    [x EXCEPT !.row.status = "FAILED", !.target = "NEEDS_MANUAL_REVIEW", !.rec = rec]

(* The audit append of recommendation_created fails, on a connection of    *)
(* its own, when the recommendation is already in the transaction: execute *)
(* catches the error, _fail_closed escalates, and the recommendation stays.*)
RecommendUnaudited(s, action, c, verified) ==
    LET x == sess[s] IN
    /\ x.pc = "executing"
    /\ FlushCase(s, Failed(x, NewRec(action, c, verified)),
                 {Event("workflow_escalated_to_human", x.run, None)}, {})
    /\ UNCHANGED <<rows, nextRun>>

(* The same for action_executed, when actions.execute has flushed the      *)
(* outcome: the alert is updated twice, to the outcome and then to manual  *)
(* review.                                                                 *)
ApplyUnaudited(s, action, c) ==
    LET x == sess[s]
        rec == NewRec(action, c, TRUE)
        outcome == OutcomeStatus[action]
        applied == IF x.seen.status = outcome THEN x.seen
                   ELSE [x.seen EXCEPT !.status = outcome, !.ver = @ + 1]
        created == Event("recommendation_created", x.run, None)
        escalated == Event("workflow_escalated_to_human", x.run, None)
    IN
    /\ x.pc = "executing"
    /\ rec.status = "AUTO_APPLIED"
    /\ AlertFree(s, x.row.alert)
    /\ IF OwnsNewRun(s) \/ alerts[x.row.alert].ver = x.seen.ver
       THEN /\ sess' = [sess EXCEPT ![s] =
                  [Failed(x, rec) EXCEPT !.pc = "flushed", !.seen = applied]]
            /\ trail' = trail \cup {created, escalated}
       ELSE /\ sess' = [sess EXCEPT ![s] = IdleSession]
            /\ trail' = trail \cup {created}
                          \cup IF x.seen = applied THEN {escalated} ELSE {}
    /\ UNCHANGED <<rows, nextRun>>
-----------------------------------------------------------------------------
(* Deciding on a recommendation: approvals.decide                          *)

(* Mutation: the initiator may decide.                                     *)
FourEyesNever(u, r) == TRUE

(* The initiator of an investigation cannot decide on its recommendation.  *)
FourEyes(u, r) == runs[r].by # u

(* APPROVED becomes EXECUTED in the same transaction.                      *)
DecidedStatus(decision) == IF decision = "approve" THEN "EXECUTED" ELSE "REJECTED"

(* Lock the recommendation, check it, record the approval and the audit    *)
(* event, and read the alert.                                              *)
Decide(s, u, r, decision) ==
    LET approve == decision = "approve" IN
    /\ sess[s].pc = "idle"
    /\ RoleOf[u] \in MayDecide
    /\ recs[r] # None /\ \A t \in Sessions : ~HoldsRec(t, r)
    /\ recs[r].status = "PENDING_APPROVAL"
    /\ approve => recs[r].verified
    /\ RoleOf[u] \in ApprovalAuthority[recs[r].action]
    /\ FourEyes(u, r)
    /\ sess' = [sess EXCEPT ![s] =
          [pc |-> "deciding", run |-> r,
           row |-> [runs[r] EXCEPT !.status =
                       IF approve THEN "COMPLETED" ELSE "NEEDS_MANUAL_REVIEW"],
           seen |-> alerts[runs[r].alert],
           target |-> IF approve THEN OutcomeStatus[recs[r].action]
                      ELSE "NEEDS_MANUAL_REVIEW",
           rec |-> [recs[r] EXCEPT !.status = DecidedStatus(decision)],
           approval |-> [by |-> u, decision |-> decision]]]
    /\ trail' = trail \cup {Event(IF approve THEN "recommendation_approve"
                                  ELSE "recommendation_reject", r, u)}
    /\ UNCHANGED <<rows, nextRun>>

(* Flush: the approval is unique per recommendation, the alert versioned.  *)
DecideFlush(s) ==
    LET x == sess[s] IN
    /\ x.pc = "deciding"
    /\ IF approvals[x.run] = None
       THEN FlushCase(s, x, {}, IF x.approval.decision = "approve"
                                THEN {Event("action_executed", x.run, x.approval.by)} ELSE {})
       ELSE sess' = [sess EXCEPT ![s] = IdleSession] /\ UNCHANGED trail
    /\ UNCHANGED <<rows, nextRun>>
-----------------------------------------------------------------------------
(* The end of a transaction.                                               *)

(* actions.execute has taken effect on what the session is committing.     *)
Executes(x) == x.rec # None /\ x.rec.status \in {"EXECUTED", "AUTO_APPLIED"}

(* ... unless it was never reached, or undone as far as the alert goes.    *)
Applied(x) == Executes(x) /\ (x.row.status = "FAILED" => x.seen.status = "MONITORING")

Customer(x) == CustomerOf[x.row.alert]

Commit(s) ==
    LET x == sess[s] IN
    /\ x.pc = "flushed"
    /\ alerts' = IF HoldsAlert(s, x.row.alert)
                 THEN [alerts EXCEPT ![x.row.alert] =
                          [x.seen EXCEPT !.status = x.target, !.ver = @ + 1]]
                 ELSE alerts
    /\ runs' = [runs EXCEPT ![x.run] = x.row]
    /\ recs' = [recs EXCEPT ![x.run] = x.rec]
    /\ approvals' = [approvals EXCEPT ![x.run] = x.approval]
    /\ strs' = IF Executes(x) /\ x.rec.action \in Severe
               THEN strs \cup {[run |-> x.run, alert |-> x.row.alert,
                                by |-> IF x.approval = None THEN None
                                       ELSE x.approval.by]}
               ELSE strs
    /\ restricted' = IF Executes(x) /\ x.rec.action = "RESTRICT_ACCOUNT"
                     THEN restricted \cup {Customer(x)} ELSE restricted
    /\ monitored' = IF Applied(x) /\ x.rec.action = "ENHANCED_MONITORING"
                    THEN monitored \cup {Customer(x)} ELSE monitored
    /\ sess' = [sess EXCEPT ![s] = IdleSession]
    /\ UNCHANGED <<trail, nextRun>>

(* A rollback at any point: a client or database error, a failed flush in  *)
(* the middle of execute, a killed process.  Nothing but the audit events  *)
(* remains; a worker's run is QUEUED again.                                *)
Abort(s) ==
    /\ sess[s].pc # "idle"
    /\ sess' = [sess EXCEPT ![s] = IdleSession]
    /\ UNCHANGED <<rows, trail, nextRun>>
-----------------------------------------------------------------------------
Init ==
    /\ alerts = [a \in Alerts |-> [status |-> "NEW", ver |-> 1, scored |-> FALSE]]
    /\ runs = [r \in Runs |-> None]
    /\ recs = [r \in Runs |-> None]
    /\ approvals = [r \in Runs |-> None]
    /\ strs = {} /\ restricted = {} /\ monitored = {}
    /\ trail = {}
    /\ nextRun = 1
    /\ sess = [s \in Sessions |-> IdleSession]

StartRequest(s) == \E u \in Users, a \in Alerts, k \in Keys \cup {None},
                      status \in Modes : StartRead(s, u, a, k, status)

DecideRequest(s) == \E u \in Users, r \in Runs, d \in {"approve", "reject"} :
                       Decide(s, u, r, d)

(* Mutation: the worker skips runs whose alert is no longer INVESTIGATING. *)
ClaimInvestigating(w) ==
    \E r \in Runs : /\ Claim(w, r) /\ alerts[runs[r].alert].status = "INVESTIGATING"

ClaimOldest(w) == \E r \in Runs : Claim(w, r)

(* One execution of the agent pipeline, however it ends.                   *)
Finish(s) ==
    \/ \E status \in {"NEEDS_MANUAL_REVIEW", "FAILED"} : Escalate(s, status)
    \/ \E action \in Proposals, c \in Cases, verified \in BOOLEAN :
          Recommend(s, action, c, verified) \/ RecommendUnaudited(s, action, c, verified)
    \/ \E action \in Proposals, c \in Cases : ApplyUnaudited(s, action, c)

Next ==
    \/ \E a \in Alerts : ScoreAlert(a)
    \/ \E s \in Requests : StartRequest(s) \/ StartFlush(s)
                              \/ DecideRequest(s) \/ DecideFlush(s)
    \/ \E w \in Workers : ClaimOldest(w)
    \/ \E s \in Sessions : Finish(s) \/ Commit(s) \/ Abort(s)

Spec == Init /\ [][Next]_vars

(* A request that was accepted runs to its end or fails; no one has to     *)
(* send a request.  A worker polls, and its iteration ends somehow.        *)
Ends(s) == StartFlush(s) \/ DecideFlush(s) \/ Finish(s) \/ Commit(s) \/ Abort(s)

FairSpec ==
    /\ Spec
    /\ \A s \in Requests : WF_vars(Ends(s))
    /\ \A w \in Workers : WF_vars(ClaimOldest(w)) /\ WF_vars(Ends(w))

(* Failures are transient: a worker that can finish an execution again and *)
(* again is not interrupted every time, and a session that has flushed     *)
(* again and again is not rolled back every time.                          *)
RecoveringSpec ==
    /\ FairSpec
    /\ \A w \in Workers : SF_vars(Finish(w))
    /\ \A s \in Sessions : SF_vars(Commit(s))
=============================================================================
