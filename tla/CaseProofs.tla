----------------------------- MODULE CaseProofs -----------------------------
(***************************************************************************)
(* The case workflow is typed and safe for any number of alerts, users,    *)
(* request threads, workers and runs: TypeInv is inductive, CaseInv        *)
(* relative to it, and RecordsInv relative to both.                        *)
(***************************************************************************)
EXTENDS CaseInvariant, TLAPS

(* A session past its reads has read what its phase needs.                 *)
SessionShape ==
    \A s \in Sessions :
       /\ sess[s].pc # "idle" => sess[s].row \in RunRow /\ sess[s].seen \in AlertRow
       /\ sess[s].pc \in {"starting", "deciding", "flushed"} => sess[s].target \in AlertStatus
       /\ sess[s].pc \in {"executing", "deciding", "flushed"} => sess[s].run \in Runs
       /\ sess[s].pc = "deciding" => sess[s].rec \in RecRow /\ sess[s].approval \in ApprovalRow

(* A recommendation is committed with its run.                             *)
RecHasRun == \A r \in Runs : recs[r] # None => runs[r] \in RunRow

TypeInv == TypeOK /\ SessionShape /\ RecHasRun

LEMMA InitTypeInv == Init => TypeInv
BY ConstantsAssumption
   DEF Init, TypeInv, TypeOK, SessionShape, RecHasRun, IdleSession, Session, AlertRow,
       AlertStatus, Runs, PCs

LEMMA IdleInSession == IdleSession \in Session
BY DEF Session, PCs, IdleSession

(* What a session flushes keeps the types.                                 *)
LEMMA FlushType ==
    ASSUME TypeInv, NEW s \in Sessions, NEW x \in Session,
           NEW before \in SUBSET AuditEvent, NEW after \in SUBSET AuditEvent,
           x.row \in RunRow, x.seen \in AlertRow, x.target \in AlertStatus, x.run \in Runs,
           FlushCase(s, x, before, after), UNCHANGED <<rows, nextRun>>
    PROVE  TypeInv'
<1>1. [x EXCEPT !.pc = "flushed"] \in Session
  BY DEF Session, PCs
<1>2. IdleSession \in Session
  BY DEF Session, PCs, IdleSession
<1>3. CASE sess' = [sess EXCEPT ![s] = [x EXCEPT !.pc = "flushed"]]
  <2>1. trail' \subseteq AuditEvent
    BY <1>1, <1>3 DEF FlushCase, TypeInv, TypeOK
  <2>2. TypeOK'
    BY <1>1, <1>3, <2>1 DEF TypeInv, TypeOK, rows
  <2>3. SessionShape'
    BY <1>3 DEF SessionShape, TypeInv, TypeOK, Session
  <2>4. QED BY <2>2, <2>3 DEF TypeInv, RecHasRun, rows
<1>4. CASE sess' = [sess EXCEPT ![s] = IdleSession]
  <2>1. trail' \subseteq AuditEvent
    BY <1>4 DEF FlushCase, TypeInv, TypeOK
  <2>2. TypeOK'
    BY <1>2, <1>4, <2>1 DEF TypeInv, TypeOK, rows
  <2>3. SessionShape'
    BY <1>4 DEF SessionShape, TypeInv, TypeOK, Session, IdleSession
  <2>4. QED BY <2>2, <2>3 DEF TypeInv, RecHasRun, rows
<1>5. QED BY <1>3, <1>4 DEF FlushCase

LEMMA IdleType ==
    ASSUME TypeInv, NEW s \in Sessions, sess' = [sess EXCEPT ![s] = IdleSession],
           UNCHANGED <<rows, nextRun>>, trail' \subseteq AuditEvent
    PROVE  TypeInv'
<1>1. IdleSession \in Session
  BY DEF Session, PCs, IdleSession
<1>2. TypeOK'
  BY <1>1 DEF TypeInv, TypeOK, rows
<1>3. SessionShape'
  BY DEF SessionShape, TypeInv, TypeOK, Session, IdleSession
<1>4. QED BY <1>2, <1>3 DEF TypeInv, RecHasRun, rows

(* Every UPDATE of an alert bumps lock_version.                            *)
LEMMA NextVersion ==
    ASSUME NEW y \in AlertRow, NEW status \in AlertStatus
    PROVE  /\ [y EXCEPT !.scored = TRUE, !.ver = @ + 1] \in AlertRow
           /\ [y EXCEPT !.status = status, !.ver = @ + 1] \in AlertRow
           /\ [y EXCEPT !.status = status, !.ver = @ + 1].ver = y.ver + 1
           /\ [y EXCEPT !.status = status, !.ver = @ + 1].status = status
<1> DEFINE v == y.ver + 1
<1>1. v \in Nat
  BY DEF AlertRow
<1> HIDE DEF v
<1>2. [y EXCEPT !.scored = TRUE, !.ver = v] \in AlertRow
  BY <1>1 DEF AlertRow
<1>3. /\ [y EXCEPT !.status = status, !.ver = v] \in AlertRow
      /\ [y EXCEPT !.status = status, !.ver = v].ver = v
      /\ [y EXCEPT !.status = status, !.ver = v].status = status
  BY <1>1 DEF AlertRow
<1>4. QED BY <1>2, <1>3 DEF v

LEMMA ScoreAlertType ==
    ASSUME TypeInv, NEW a \in Alerts, ScoreAlert(a)
    PROVE  TypeInv'
<1>1. [alerts[a] EXCEPT !.scored = TRUE, !.ver = @ + 1] \in AlertRow
  BY NextVersion DEF TypeInv, TypeOK, AlertStatus
<1>2. alerts' \in [Alerts -> AlertRow]
  <2>1. alerts' = [alerts EXCEPT ![a] = [alerts[a] EXCEPT !.scored = TRUE, !.ver = @ + 1]]
    BY DEF ScoreAlert, TypeInv, TypeOK, AlertRow
  <2>2. QED BY <1>1, <2>1 DEF TypeInv, TypeOK
<1>3. TypeOK'
  BY <1>2 DEF ScoreAlert, TypeInv, TypeOK
<1>4. QED BY <1>3 DEF ScoreAlert, TypeInv, SessionShape, RecHasRun

LEMMA StartReadType ==
    ASSUME TypeInv, NEW s \in Sessions, NEW u \in Users, NEW a \in Alerts,
           NEW k \in Keys \cup {None}, NEW status \in Modes, StartRead(s, u, a, k, status)
    PROVE  TypeInv'
<1> DEFINE row == [alert |-> a, status |-> status, by |-> u, key |-> k]
           x == [IdleSession EXCEPT !.pc = "starting", !.row = row, !.seen = alerts[a],
                                    !.target = "INVESTIGATING"]
<1>1. row \in RunRow
  BY ConstantsAssumption DEF RunRow, WorkflowStatus
<1>2. /\ x \in Session /\ x.pc = "starting" /\ x.row = row /\ x.seen = alerts[a]
      /\ x.target = "INVESTIGATING"
  BY <1>1, IdleInSession DEF Session, PCs, AlertStatus, TypeInv, TypeOK
<1>3. sess' = [sess EXCEPT ![s] = x] /\ UNCHANGED <<rows, trail, nextRun>>
  BY DEF StartRead
<1>4. TypeOK'
  BY <1>2, <1>3 DEF TypeInv, TypeOK, rows
<1>5. SessionShape'
  BY <1>1, <1>2, <1>3 DEF SessionShape, TypeInv, TypeOK, AlertStatus
<1>6. QED BY <1>3, <1>4, <1>5 DEF TypeInv, RecHasRun, rows

LEMMA StartFlushType ==
    ASSUME TypeInv, NEW s \in Sessions, StartFlush(s)
    PROVE  TypeInv'
<1> DEFINE x == sess[s]
<1>1. x \in Session /\ x.row \in RunRow /\ x.seen \in AlertRow /\ x.target \in AlertStatus
  BY DEF StartFlush, TypeInv, TypeOK, SessionShape
<1>2. CASE sess' = [sess EXCEPT ![s] = IdleSession] /\ UNCHANGED <<trail, nextRun>>
  BY <1>2, IdleType DEF StartFlush, TypeInv, TypeOK
<1>3. CASE /\ nextRun' = nextRun + 1
           /\ trail' = trail \cup {Event("investigation_started", nextRun, x.row.by)}
           /\ sess'[s] \in Session /\ sess'[s].row = x.row /\ sess'[s].seen \in AlertRow
           /\ sess'[s].target = x.target /\ sess'[s].run = nextRun
           /\ sess'[s].pc \in {"executing", "flushed"}
           /\ sess' = [sess EXCEPT ![s] = sess'[s]]
  <2>1. nextRun' \in 1..(MaxRuns + 1) /\ nextRun \in Runs
    BY <1>3, ConstantsAssumption DEF StartFlush, Runs
  <2>2. Event("investigation_started", nextRun, x.row.by) \in AuditEvent
    BY <1>1, <2>1 DEF Event, AuditEvent, RunRow
  <2>3. TypeOK'
    BY <1>3, <2>1, <2>2 DEF StartFlush, TypeInv, TypeOK, rows
  <2>4. SessionShape'
    BY <1>1, <1>3, <2>1 DEF SessionShape, TypeInv, TypeOK
  <2>5. QED BY <2>3, <2>4 DEF StartFlush, TypeInv, RecHasRun, rows
<1>4. CASE alerts[x.row.alert].ver = x.seen.ver /\ ~KeyTaken(x.row.key)
  <2> DEFINE y == IF x.row.status = "QUEUED"
                  THEN [x EXCEPT !.pc = "flushed", !.run = nextRun]
                  ELSE [x EXCEPT !.pc = "executing", !.run = nextRun,
                           !.seen = [x.seen EXCEPT !.status = "INVESTIGATING",
                                                   !.ver = @ + 1]]
  <2>1. sess' = [sess EXCEPT ![s] = y] /\ nextRun \in Runs
    BY <1>4 DEF StartFlush
  <2>2. [x.seen EXCEPT !.status = "INVESTIGATING", !.ver = @ + 1] \in AlertRow
    BY <1>1, NextVersion DEF AlertStatus
  <2>3. /\ y \in Session /\ y.row = x.row /\ y.seen \in AlertRow /\ y.target = x.target
        /\ y.run = nextRun /\ y.pc \in {"executing", "flushed"}
    BY <1>1, <2>1, <2>2 DEF Session, PCs
  <2>4. sess'[s] = y
    BY <2>1 DEF TypeInv, TypeOK
  <2>5. QED BY <1>3, <1>4, <2>1, <2>3, <2>4 DEF StartFlush
<1>5. QED BY <1>2, <1>4 DEF StartFlush

LEMMA ClaimType ==
    ASSUME TypeInv, NEW s \in Sessions, NEW r \in Runs, Claim(s, r)
    PROVE  TypeInv'
<1> DEFINE x == [IdleSession EXCEPT !.pc = "executing", !.run = r, !.row = runs[r],
                                    !.seen = alerts[runs[r].alert]]
<1>1. runs[r] \in RunRow /\ alerts[runs[r].alert] \in AlertRow
  BY DEF Claim, Queued, TypeInv, TypeOK, RunRow
<1>2. /\ x \in Session /\ x.pc = "executing" /\ x.run = r /\ x.row = runs[r]
      /\ x.seen = alerts[runs[r].alert]
  BY <1>1, IdleInSession DEF Session, PCs
<1>3. sess' = [sess EXCEPT ![s] = x] /\ UNCHANGED <<rows, trail, nextRun>>
  BY DEF Claim
<1>4. TypeOK'
  BY <1>2, <1>3 DEF TypeInv, TypeOK, rows
<1>5. SessionShape'
  BY <1>1, <1>2, <1>3 DEF SessionShape, TypeInv, TypeOK
<1>6. QED BY <1>3, <1>4, <1>5 DEF TypeInv, RecHasRun, rows

LEMMA EscalateType ==
    ASSUME TypeInv, NEW s \in Sessions, NEW status \in {"NEEDS_MANUAL_REVIEW", "FAILED"},
           Escalate(s, status)
    PROVE  TypeInv'
<1> DEFINE x == sess[s]
           y == [x EXCEPT !.row.status = status, !.target = "NEEDS_MANUAL_REVIEW"]
<1>1. x \in Session /\ x.row \in RunRow /\ x.seen \in AlertRow /\ x.run \in Runs
  BY DEF Escalate, TypeInv, TypeOK, SessionShape
<1>2. [x.row EXCEPT !.status = status] \in RunRow
  BY <1>1 DEF RunRow, WorkflowStatus
<1>3. y = [x EXCEPT !.row = [x.row EXCEPT !.status = status],
                    !.target = "NEEDS_MANUAL_REVIEW"]
  BY <1>1
<1>4. /\ y \in Session /\ y.row \in RunRow /\ y.seen \in AlertRow
      /\ y.target \in AlertStatus /\ y.run \in Runs
  BY <1>1, <1>2, <1>3 DEF Session, AlertStatus
<1>5. {Event("workflow_escalated_to_human", x.run, None)} \in SUBSET AuditEvent
  BY <1>1 DEF Event, AuditEvent
<1>6. /\ FlushCase(s, y, {Event("workflow_escalated_to_human", x.run, None)}, {})
      /\ UNCHANGED <<rows, nextRun>>
  BY DEF Escalate
<1> HIDE DEF x, y
<1>7. QED BY <1>4, <1>5, <1>6, FlushType

(* A recommendation of a proposed action is well formed, and so is the     *)
(* state it leads to.                                                      *)
LEMMA NewRecType ==
    ASSUME NEW action \in Actions, NEW c \in Cases, NEW verified \in BOOLEAN
    PROVE  /\ NewRec(action, c, verified) \in RecRow
           /\ RunAfter(NewRec(action, c, verified)) \in WorkflowStatus
           /\ AlertAfter(NewRec(action, c, verified)) \in AlertStatus
<1> DEFINE status == IF RequiresApproval(action, c, verified)
                     THEN "PENDING_APPROVAL" ELSE "AUTO_APPLIED"
<1>0. status \in RecStatus
  BY DEF RecStatus
<1>1. NewRec(action, c, verified) \in RecRow
  <2> HIDE DEF status
  <2>1. [action |-> action, case |-> c, verified |-> verified, status |-> status] \in RecRow
    BY <1>0 DEF RecRow
  <2>2. QED BY <2>1 DEF NewRec, status
<1>2. NewRec(action, c, verified).action = action
  BY DEF NewRec
<1>3. OutcomeStatus[action] \in AlertStatus
  BY DEF OutcomeStatus, Actions, AlertStatus
<1>4. QED BY <1>1, <1>2, <1>3 DEF RunAfter, WorkflowStatus, AlertAfter, AlertStatus

LEMMA RecommendType ==
    ASSUME TypeInv, NEW s \in Sessions, NEW action \in Proposals, NEW c \in Cases,
           NEW verified \in BOOLEAN, Recommend(s, action, c, verified)
    PROVE  TypeInv'
<1> DEFINE x == sess[s]
           rec == NewRec(action, c, verified)
           y == [x EXCEPT !.row.status = RunAfter(rec), !.target = AlertAfter(rec),
                          !.rec = rec]
           before == {Event("recommendation_created", x.run, None)}
           after == IF rec.status = "AUTO_APPLIED"
                    THEN {Event("action_executed", x.run, None)} ELSE {}
<1>1. x \in Session /\ x.row \in RunRow /\ x.seen \in AlertRow /\ x.run \in Runs
  BY DEF Recommend, TypeInv, TypeOK, SessionShape
<1>2. before \in SUBSET AuditEvent /\ after \in SUBSET AuditEvent
  BY <1>1 DEF Event, AuditEvent
<1>3. /\ FlushCase(s, y, before, after)
      /\ UNCHANGED <<rows, nextRun>>
  BY DEF Recommend
<1>4. rec \in RecRow /\ RunAfter(rec) \in WorkflowStatus /\ AlertAfter(rec) \in AlertStatus
  BY NewRecType, ConstantsAssumption
<1> HIDE DEF rec
<1>5. [x.row EXCEPT !.status = RunAfter(rec)] \in RunRow
  BY <1>1, <1>4 DEF RunRow
<1>6. y = [x EXCEPT !.row = [x.row EXCEPT !.status = RunAfter(rec)],
                    !.target = AlertAfter(rec), !.rec = rec]
  BY <1>1
<1>7. /\ y \in Session /\ y.row \in RunRow /\ y.seen \in AlertRow
      /\ y.target \in AlertStatus /\ y.run \in Runs
  BY <1>1, <1>4, <1>5, <1>6 DEF Session
<1> HIDE DEF x, y, before, after
<1>8. QED BY <1>2, <1>3, <1>7, FlushType

(* What _fail_closed makes of a session that has a recommendation.         *)
LEMMA FailedFields ==
    ASSUME NEW x \in Session, x.row \in RunRow, NEW rec \in RecRow
    PROVE  LET y == Failed(x, rec)
           IN  /\ y \in Session /\ y.row \in RunRow /\ y.row.status = "FAILED"
               /\ y.row.alert = x.row.alert /\ y.row.by = x.row.by
               /\ y.pc = x.pc /\ y.run = x.run /\ y.seen = x.seen /\ y.rec = rec
               /\ y.target = "NEEDS_MANUAL_REVIEW" /\ y.approval = x.approval
<1> DEFINE row == [x.row EXCEPT !.status = "FAILED"]
<1>1. row \in RunRow /\ row.status = "FAILED" /\ row.alert = x.row.alert /\ row.by = x.row.by
  BY DEF RunRow, WorkflowStatus
<1>2. Failed(x, rec) = [x EXCEPT !.row = row, !.target = "NEEDS_MANUAL_REVIEW", !.rec = rec]
  BY DEF Failed
<1> HIDE DEF row
<1>3. QED BY <1>1, <1>2 DEF Session, AlertStatus

LEMMA RecommendUnauditedType ==
    ASSUME TypeInv, NEW s \in Sessions, NEW action \in Proposals, NEW c \in Cases,
           NEW verified \in BOOLEAN, RecommendUnaudited(s, action, c, verified)
    PROVE  TypeInv'
<1> DEFINE x == sess[s]
           rec == NewRec(action, c, verified)
           y == Failed(x, rec)
           before == {Event("workflow_escalated_to_human", x.run, None)}
<1>1. x \in Session /\ x.row \in RunRow /\ x.seen \in AlertRow /\ x.run \in Runs
  BY DEF RecommendUnaudited, TypeInv, TypeOK, SessionShape
<1>2. before \in SUBSET AuditEvent
  BY <1>1 DEF Event, AuditEvent
<1>3. FlushCase(s, y, before, {}) /\ UNCHANGED <<rows, nextRun>>
  BY DEF RecommendUnaudited
<1>4. rec \in RecRow
  BY NewRecType, ConstantsAssumption
<1> HIDE DEF x, rec, before
<1>5. /\ y \in Session /\ y.row \in RunRow /\ y.seen \in AlertRow
      /\ y.target \in AlertStatus /\ y.run \in Runs
  BY <1>1, <1>4, FailedFields DEF AlertStatus
<1> HIDE DEF y
<1>6. QED BY <1>2, <1>3, <1>5, FlushType

LEMMA ApplyUnauditedType ==
    ASSUME TypeInv, NEW s \in Sessions, NEW action \in Proposals, NEW c \in Cases,
           ApplyUnaudited(s, action, c)
    PROVE  TypeInv'
<1> DEFINE x == sess[s]
           rec == NewRec(action, c, TRUE)
           outcome == OutcomeStatus[action]
           applied == IF x.seen.status = outcome THEN x.seen
                      ELSE [x.seen EXCEPT !.status = outcome, !.ver = @ + 1]
           y == Failed(x, rec)
           z == [y EXCEPT !.pc = "flushed", !.seen = applied]
<1>1. x \in Session /\ x.row \in RunRow /\ x.seen \in AlertRow /\ x.run \in Runs
  BY DEF ApplyUnaudited, TypeInv, TypeOK, SessionShape
<1>2. /\ Event("recommendation_created", x.run, None) \in AuditEvent
      /\ Event("workflow_escalated_to_human", x.run, None) \in AuditEvent
  BY <1>1 DEF Event, AuditEvent
<1>3. trail' \subseteq AuditEvent
  BY <1>2 DEF ApplyUnaudited, TypeInv, TypeOK
<1>4. rec \in RecRow
  BY NewRecType, ConstantsAssumption
<1>5. outcome \in AlertStatus
  BY ConstantsAssumption DEF OutcomeStatus, Actions, AlertStatus
<1>6. applied \in AlertRow
  BY <1>1, <1>5, NextVersion
<1>7. UNCHANGED <<rows, nextRun>>
  BY DEF ApplyUnaudited
<1>8. CASE sess' = [sess EXCEPT ![s] = z]
  <2> HIDE DEF x, rec, outcome, applied
  <2>1. /\ y \in Session /\ y.row \in RunRow /\ y.target = "NEEDS_MANUAL_REVIEW"
        /\ y.run \in Runs
    BY <1>1, <1>4, FailedFields
  <2> HIDE DEF y
  <2>2. /\ z \in Session /\ z.row \in RunRow /\ z.seen \in AlertRow
        /\ z.target \in AlertStatus /\ z.run \in Runs /\ z.pc = "flushed"
    BY <1>6, <2>1 DEF Session, PCs, AlertStatus
  <2> HIDE DEF z
  <2>3. TypeOK'
    BY <1>3, <1>7, <1>8, <2>2 DEF TypeInv, TypeOK, rows
  <2>4. SessionShape'
    BY <1>8, <2>2 DEF SessionShape, TypeInv, TypeOK
  <2>5. QED BY <1>7, <2>3, <2>4 DEF TypeInv, RecHasRun, rows
<1>9. CASE sess' = [sess EXCEPT ![s] = IdleSession]
  BY <1>3, <1>7, <1>9, IdleType
<1>10. QED BY <1>8, <1>9 DEF ApplyUnaudited

LEMMA DecideType ==
    ASSUME TypeInv, NEW s \in Sessions, NEW u \in Users, NEW r \in Runs,
           NEW decision \in {"approve", "reject"}, Decide(s, u, r, decision)
    PROVE  TypeInv'
<1> DEFINE status == IF decision = "approve" THEN "COMPLETED" ELSE "NEEDS_MANUAL_REVIEW"
           target == IF decision = "approve" THEN OutcomeStatus[recs[r].action]
                     ELSE "NEEDS_MANUAL_REVIEW"
           row == [runs[r] EXCEPT !.status = status]
           rec == [recs[r] EXCEPT !.status = DecidedStatus(decision)]
           x == [pc |-> "deciding", run |-> r, row |-> row,
                 seen |-> alerts[runs[r].alert], target |-> target, rec |-> rec,
                 approval |-> [by |-> u, decision |-> decision]]
           event == Event(IF decision = "approve" THEN "recommendation_approve"
                          ELSE "recommendation_reject", r, u)
<1>1. recs[r] \in RecRow /\ runs[r] \in RunRow /\ alerts[runs[r].alert] \in AlertRow
  BY DEF Decide, TypeInv, TypeOK, RecHasRun, RunRow
<1>2. row \in RunRow
  BY <1>1 DEF RunRow, WorkflowStatus
<1>3. rec \in RecRow
  BY <1>1 DEF RecRow, RecStatus, DecidedStatus
<1>4. target \in AlertStatus
  BY <1>1 DEF RecRow, OutcomeStatus, Actions, AlertStatus
<1>5. event \in AuditEvent
  BY DEF Event, AuditEvent
<1>6. sess' = [sess EXCEPT ![s] = x] /\ trail' = trail \cup {event} /\ UNCHANGED <<rows, nextRun>>
  BY DEF Decide
<1>7. [by |-> u, decision |-> decision] \in ApprovalRow
  BY DEF ApprovalRow
<1> HIDE DEF row, rec, target, event
<1>8. x \in Session
  BY <1>1, <1>2, <1>3, <1>4, <1>7 DEF Session, PCs
<1>9. TypeOK'
  BY <1>5, <1>6, <1>8 DEF TypeInv, TypeOK, rows
<1>10. SessionShape'
  BY <1>1, <1>2, <1>3, <1>4, <1>6, <1>7 DEF SessionShape, TypeInv, TypeOK
<1>11. QED BY <1>6, <1>9, <1>10 DEF TypeInv, RecHasRun, rows

LEMMA DecideFlushType ==
    ASSUME TypeInv, NEW s \in Sessions, DecideFlush(s)
    PROVE  TypeInv'
<1> DEFINE x == sess[s]
           after == IF x.approval.decision = "approve"
                    THEN {Event("action_executed", x.run, x.approval.by)} ELSE {}
<1>1. /\ x \in Session /\ x.row \in RunRow /\ x.seen \in AlertRow /\ x.run \in Runs
      /\ x.target \in AlertStatus /\ x.approval \in ApprovalRow
  BY DEF DecideFlush, TypeInv, TypeOK, SessionShape
<1>2. after \in SUBSET AuditEvent
  BY <1>1 DEF Event, AuditEvent, ApprovalRow
<1>3. CASE sess' = [sess EXCEPT ![s] = IdleSession] /\ UNCHANGED trail
  BY <1>3, IdleType DEF DecideFlush, TypeInv, TypeOK
<1>4. CASE FlushCase(s, x, {}, after)
  <2>1. UNCHANGED <<rows, nextRun>> /\ {} \in SUBSET AuditEvent
    BY DEF DecideFlush
  <2> HIDE DEF x, after
  <2>2. QED BY <1>1, <1>2, <1>4, <2>1, FlushType
<1>5. QED BY <1>3, <1>4 DEF DecideFlush

LEMMA CommitType ==
    ASSUME TypeInv, NEW s \in Sessions, Commit(s)
    PROVE  TypeInv'
<1> DEFINE x == sess[s]
           a == x.row.alert
           y == [x.seen EXCEPT !.status = x.target, !.ver = @ + 1]
           report == [run |-> x.run, alert |-> a,
                      by |-> IF x.approval = None THEN None ELSE x.approval.by]
<1>1. /\ x \in Session /\ x.row \in RunRow /\ x.seen \in AlertRow /\ x.run \in Runs
      /\ x.target \in AlertStatus
  BY DEF Commit, TypeInv, TypeOK, SessionShape
<1>2. a \in Alerts /\ Customer(x) \in Customers
  BY <1>1, ConstantsAssumption DEF RunRow, Customer
<1>3. y \in AlertRow
  BY <1>1, NextVersion
<1>4. report \in Report
  BY <1>1, <1>2 DEF Report, Session, ApprovalRow
<1>5. x.rec \in RecRow \cup {None} /\ x.approval \in ApprovalRow \cup {None}
  BY <1>1 DEF Session
<1>6. sess' = [sess EXCEPT ![s] = IdleSession] /\ UNCHANGED <<trail, nextRun>>
  BY DEF Commit
<1>7. alerts' \in [Alerts -> AlertRow]
  <2>1. alerts' = alerts \/ alerts' = [alerts EXCEPT ![a] = y]
    BY DEF Commit
  <2> HIDE DEF a, y
  <2>2. QED BY <1>3, <2>1 DEF TypeInv, TypeOK
<1>8. /\ runs' = [runs EXCEPT ![x.run] = x.row]
      /\ recs' = [recs EXCEPT ![x.run] = x.rec]
      /\ approvals' = [approvals EXCEPT ![x.run] = x.approval]
      /\ strs' \subseteq strs \cup {report}
      /\ restricted' \subseteq restricted \cup {Customer(x)}
      /\ monitored' \subseteq monitored \cup {Customer(x)}
  BY DEF Commit
<1> HIDE DEF report
<1>9. /\ runs' \in [Runs -> RunRow \cup {None}]
      /\ recs' \in [Runs -> RecRow \cup {None}]
      /\ approvals' \in [Runs -> ApprovalRow \cup {None}]
  BY <1>1, <1>5, <1>8 DEF TypeInv, TypeOK
<1>10. strs' \subseteq Report /\ restricted' \subseteq Customers /\ monitored' \subseteq Customers
  BY <1>2, <1>4, <1>8 DEF TypeInv, TypeOK
<1>11. sess' \in [Sessions -> Session]
  BY <1>6, IdleInSession DEF TypeInv, TypeOK
<1>12. TypeOK'
  BY <1>6, <1>7, <1>9, <1>10, <1>11 DEF TypeInv, TypeOK
<1>13. SessionShape'
  BY <1>6 DEF SessionShape, TypeInv, TypeOK, IdleSession
<1>14. RecHasRun'
  BY <1>1, <1>8 DEF TypeInv, TypeOK, RecHasRun
<1>15. QED BY <1>12, <1>13, <1>14 DEF TypeInv

LEMMA StepTypeInv == TypeInv /\ [Next]_vars => TypeInv'
<1> SUFFICES ASSUME TypeInv, [Next]_vars PROVE TypeInv'
  OBVIOUS
<1> USE DEF Sessions
<1>1. ASSUME NEW a \in Alerts, ScoreAlert(a) PROVE TypeInv'
  BY <1>1, ScoreAlertType
<1>2. ASSUME NEW s \in Requests, StartRequest(s) PROVE TypeInv'
  BY <1>2, StartReadType DEF StartRequest
<1>3. ASSUME NEW s \in Requests, StartFlush(s) PROVE TypeInv'
  BY <1>3, StartFlushType
<1>4. ASSUME NEW s \in Requests, DecideRequest(s) PROVE TypeInv'
  BY <1>4, DecideType DEF DecideRequest
<1>5. ASSUME NEW s \in Requests, DecideFlush(s) PROVE TypeInv'
  BY <1>5, DecideFlushType
<1>6. ASSUME NEW w \in Workers, ClaimOldest(w) PROVE TypeInv'
  BY <1>6, ClaimType DEF ClaimOldest
<1>7. ASSUME NEW s \in Sessions, Finish(s) PROVE TypeInv'
  BY <1>7, EscalateType, RecommendType, RecommendUnauditedType, ApplyUnauditedType DEF Finish
<1>8. ASSUME NEW s \in Sessions, Commit(s) PROVE TypeInv'
  BY <1>8, CommitType
<1>9. ASSUME NEW s \in Sessions, Abort(s) PROVE TypeInv'
  BY <1>9, IdleType DEF Abort, TypeInv, TypeOK
<1>10. CASE UNCHANGED vars
  BY <1>10 DEF vars, TypeInv, TypeOK, SessionShape, RecHasRun
<1>11. QED
  BY <1>1, <1>2, <1>3, <1>4, <1>5, <1>6, <1>7, <1>8, <1>9, <1>10 DEF Next

(* Whatever the numbers of alerts, users, sessions and runs, the tables    *)
(* and the sessions keep their types.                                      *)
THEOREM TypeCorrect == Spec => []TypeOK
<1>1. Spec => []TypeInv
  BY InitTypeInv, StepTypeInv, PTL DEF Spec
<1>2. TypeInv => TypeOK
  BY DEF TypeInv
<1>3. QED BY <1>1, <1>2, PTL
-----------------------------------------------------------------------------
(* CaseInv is inductive.                                                   *)

Inv == TypeInv /\ CaseInv

LEMMA InitCaseInv == Init => CaseInv
<1> SUFFICES ASSUME Init PROVE CaseInv
  OBVIOUS
<1>1. \A s \in Sessions : SessionInv(sess[s])
  BY DEF Init, IdleSession, SessionInv, PhaseInv, Holding
<1>2. OneHolder
  BY DEF Init, IdleSession, OneHolder, Holding
<1>3. TableInv
  BY DEF Init, TableInv
<1>4. SevereOutcomesAuthorised /\ TerminalAlertExplained
  BY DEF Init, SevereOutcomesAuthorised, TerminalAlertExplained, Terminal, OutcomeStatus,
         Actions
<1>5. QED BY <1>1, <1>2, <1>3, <1>4 DEF CaseInv

(* A step that leaves the tables alone and takes one session to a state    *)
(* that is legal, on a run that no other session works on.                 *)
LEMMA SessionStep ==
    ASSUME Inv, NEW s \in Sessions, NEW y \in Session, sess' = [sess EXCEPT ![s] = y],
           UNCHANGED <<rows, nextRun>>, SessionInv(y),
           y.pc \in Holding =>
              \A t \in Sessions \ {s} : sess[t].pc \in Holding => sess[t].run # y.run
    PROVE  CaseInv'
<1>1. \A t \in Sessions : sess'[t] = IF t = s THEN y ELSE sess[t]
  BY DEF Inv, TypeInv, TypeOK
<1>2. \A t \in Sessions : SessionInv(sess'[t])
  BY <1>1 DEF Inv, CaseInv
<1>3. ASSUME NEW t \in Sessions PROVE SessionInv(sess[t])'
  BY <1>2 DEF SessionInv, PhaseInv, Unfinished, Undecided, Queued, Authorised, Executes, rows
<1>4. OneHolder'
  BY <1>1 DEF Inv, CaseInv, OneHolder
<1>5. TableInv'
  BY DEF Inv, CaseInv, TableInv, Queued, Authorised, rows
<1>6. /\ SevereOutcomesAuthorised'
      /\ TerminalAlertExplained'
  <2>1. SevereOutcomesAuthorised'
    BY DEF Inv, CaseInv, SevereOutcomesAuthorised, ApprovedByMlro, rows
  <2>2. TerminalAlertExplained'
    BY DEF Inv, CaseInv, TerminalAlertExplained, Executed, rows
  <2>3. QED BY <2>1, <2>2
<1>7. QED BY <1>3, <1>4, <1>5, <1>6 DEF CaseInv

LEMMA IdleStep ==
    ASSUME Inv, NEW s \in Sessions, sess' = [sess EXCEPT ![s] = IdleSession],
           UNCHANGED <<rows, nextRun>>
    PROVE  CaseInv'
<1>1. SessionInv(IdleSession) /\ IdleSession.pc \notin Holding
  BY DEF IdleSession, SessionInv, PhaseInv, Holding
<1>2. QED BY <1>1, IdleInSession, SessionStep

(* A flush by a session that already works on its run.                     *)
LEMMA FlushStep ==
    ASSUME Inv, NEW s \in Sessions, NEW x \in Session,
           NEW before, NEW after, FlushCase(s, x, before, after), UNCHANGED <<rows, nextRun>>,
           sess[s].pc \in Holding, x.run = sess[s].run,
           SessionInv([x EXCEPT !.pc = "flushed"])
    PROVE  CaseInv'
<1> DEFINE y == [x EXCEPT !.pc = "flushed"]
<1>1. y \in Session /\ y.run = sess[s].run
  BY DEF Session, PCs
<1>2. \A t \in Sessions \ {s} : sess[t].pc \in Holding => sess[t].run # y.run
  BY <1>1 DEF Inv, CaseInv, OneHolder
<1>3. CASE sess' = [sess EXCEPT ![s] = y]
  <2> HIDE DEF y
  <2>1. SessionInv(y)
    BY DEF y
  <2>2. QED BY <1>1, <1>2, <1>3, <2>1, SessionStep
<1>4. CASE sess' = [sess EXCEPT ![s] = IdleSession]
  BY <1>4, IdleStep
<1>5. QED BY <1>3, <1>4 DEF FlushCase

LEMMA StartReadStep ==
    ASSUME Inv, NEW s \in Sessions, NEW u \in Users, NEW a \in Alerts,
           NEW k \in Keys \cup {None}, NEW status \in Modes, StartRead(s, u, a, k, status)
    PROVE  CaseInv'
<1> DEFINE row == [alert |-> a, status |-> status, by |-> u, key |-> k]
           x == [IdleSession EXCEPT !.pc = "starting", !.row = row, !.seen = alerts[a],
                                    !.target = "INVESTIGATING"]
<1>1. row \in RunRow
  BY ConstantsAssumption DEF RunRow, WorkflowStatus
<1>2. /\ x \in Session /\ x.pc = "starting" /\ x.rec = None /\ x.approval = None
      /\ x.target = "INVESTIGATING"
  BY <1>1, IdleInSession DEF Inv, Session, PCs, AlertStatus, TypeInv, TypeOK, IdleSession
<1>3. sess' = [sess EXCEPT ![s] = x] /\ UNCHANGED <<rows, nextRun>>
  BY DEF StartRead
<1> HIDE DEF x
<1>4. "INVESTIGATING" \notin Terminal
  BY DEF Terminal, OutcomeStatus, Actions
<1>5. SessionInv(x) /\ x.pc \notin Holding
  BY <1>2, <1>4 DEF SessionInv, PhaseInv, Holding
<1>6. QED BY <1>2, <1>3, <1>5, SessionStep

LEMMA ClaimStep ==
    ASSUME Inv, NEW s \in Sessions, NEW r \in Runs, Claim(s, r)
    PROVE  CaseInv'
<1> DEFINE x == [IdleSession EXCEPT !.pc = "executing", !.run = r, !.row = runs[r],
                                    !.seen = alerts[runs[r].alert]]
<1>1. runs[r] \in RunRow /\ alerts[runs[r].alert] \in AlertRow
  BY DEF Inv, Claim, Queued, TypeInv, TypeOK, RunRow
<1>2. /\ x \in Session /\ x.pc = "executing" /\ x.run = r
      /\ x.rec = None /\ x.approval = None
  BY <1>1, IdleInSession DEF Session, PCs, IdleSession
<1>3. sess' = [sess EXCEPT ![s] = x] /\ UNCHANGED <<rows, nextRun>>
  BY DEF Claim
<1> HIDE DEF x
<1>4. SessionInv(x)
  BY <1>2 DEF Claim, Queued, Inv, CaseInv, TableInv, SessionInv, PhaseInv, Unfinished
<1>5. ASSUME NEW t \in Sessions, sess[t].pc \in Holding PROVE sess[t].run # r
  <2>1. CASE sess[t].pc \in {"executing", "flushed"}
    BY <2>1 DEF Claim, HoldsRun
  <2>2. CASE sess[t].pc = "deciding"
    BY <2>2 DEF Claim, Inv, CaseInv, SessionInv, PhaseInv, Undecided
  <2>3. QED BY <1>5, <2>1, <2>2 DEF Holding
<1>6. QED BY <1>2, <1>3, <1>4, <1>5, SessionStep

LEMMA EscalateStep ==
    ASSUME Inv, NEW s \in Sessions, NEW status \in {"NEEDS_MANUAL_REVIEW", "FAILED"},
           Escalate(s, status)
    PROVE  CaseInv'
<1> DEFINE x == sess[s]
           y == [x EXCEPT !.row.status = status, !.target = "NEEDS_MANUAL_REVIEW"]
           z == [y EXCEPT !.pc = "flushed"]
<1>1. /\ x \in Session /\ x.row \in RunRow /\ x.pc = "executing" /\ x.run \in Runs
      /\ SessionInv(x)
  BY DEF Inv, CaseInv, Escalate, TypeInv, TypeOK, SessionShape
<1>2. [x.row EXCEPT !.status = status] \in RunRow
  BY <1>1 DEF RunRow, WorkflowStatus
<1>3. y = [x EXCEPT !.row = [x.row EXCEPT !.status = status],
                    !.target = "NEEDS_MANUAL_REVIEW"]
  BY <1>1
<1>4. y \in Session /\ y.run = x.run
  BY <1>1, <1>2, <1>3 DEF Session, AlertStatus
<1>5. /\ z.pc = "flushed" /\ z.run = x.run /\ z.target = "NEEDS_MANUAL_REVIEW"
      /\ z.rec = x.rec /\ z.approval = x.approval
  BY <1>1, <1>3 DEF Session
<1>6. /\ FlushCase(s, y, {Event("workflow_escalated_to_human", x.run, None)}, {})
      /\ UNCHANGED <<rows, nextRun>>
  BY DEF Escalate
<1>7. "NEEDS_MANUAL_REVIEW" \notin Terminal
  BY DEF Terminal, OutcomeStatus, Actions
<1> HIDE DEF z
<1>8. SessionInv(z)
  BY <1>1, <1>5, <1>7 DEF SessionInv, PhaseInv, Holding
<1>9. SessionInv([y EXCEPT !.pc = "flushed"])
  BY <1>8 DEF z
<1>10. sess[s].pc \in Holding /\ y.run = sess[s].run
  BY <1>1, <1>4 DEF Holding
<1> HIDE DEF y
<1>11. QED BY <1>4, <1>6, <1>9, <1>10, FlushStep

(* What the policy engine rules on a recommendation makes it legal.        *)
LEMMA NewRecAuthorised ==
    ASSUME NEW action \in Actions, NEW c \in Cases, NEW verified \in BOOLEAN, NEW row
    PROVE  LET rec == NewRec(action, c, verified)
           IN  /\ Authorised(row, rec, None)
               /\ rec.status \in {"PENDING_APPROVAL", "AUTO_APPLIED"}
               /\ RunAfter(rec) # "QUEUED"
               /\ AlertAfter(rec) \in Terminal =>
                     rec.status = "AUTO_APPLIED" /\ OutcomeStatus[rec.action] = AlertAfter(rec)
<1> DEFINE rec == NewRec(action, c, verified)
<1>1. /\ rec.action = action /\ rec.case = c /\ rec.verified = verified
      /\ rec.status = IF RequiresApproval(action, c, verified)
                       THEN "PENDING_APPROVAL" ELSE "AUTO_APPLIED"
  BY DEF NewRec
<1> HIDE DEF rec
<1>2. rec.status \in {"PENDING_APPROVAL", "AUTO_APPLIED"}
  BY <1>1
<1>3. Authorised(row, rec, None)
  BY <1>1 DEF Authorised
<1>4. RunAfter(rec) # "QUEUED"
  BY DEF RunAfter
<1>5. {"NEEDS_MANUAL_REVIEW", "PENDING_APPROVAL"} \cap Terminal = {}
  BY DEF Terminal, OutcomeStatus, Actions
<1>6. AlertAfter(rec) \in Terminal =>
         rec.status = "AUTO_APPLIED" /\ OutcomeStatus[rec.action] = AlertAfter(rec)
  BY <1>2, <1>5 DEF AlertAfter
<1>7. QED BY <1>2, <1>3, <1>4, <1>6 DEF rec

LEMMA RecommendStep ==
    ASSUME Inv, NEW s \in Sessions, NEW action \in Proposals, NEW c \in Cases,
           NEW verified \in BOOLEAN, Recommend(s, action, c, verified)
    PROVE  CaseInv'
<1> DEFINE x == sess[s]
           rec == NewRec(action, c, verified)
           y == [x EXCEPT !.row.status = RunAfter(rec), !.target = AlertAfter(rec),
                          !.rec = rec]
           z == [y EXCEPT !.pc = "flushed"]
           before == {Event("recommendation_created", x.run, None)}
           after == IF rec.status = "AUTO_APPLIED"
                    THEN {Event("action_executed", x.run, None)} ELSE {}
<1>1. /\ x \in Session /\ x.row \in RunRow /\ x.pc = "executing" /\ x.run \in Runs
      /\ SessionInv(x)
  BY DEF Inv, CaseInv, Recommend, TypeInv, TypeOK, SessionShape
<1>2. /\ FlushCase(s, y, before, after)
      /\ UNCHANGED <<rows, nextRun>>
  BY DEF Recommend
<1> HIDE DEF before, after
<1>3. action \in Actions
  BY ConstantsAssumption
<1>4. rec \in RecRow /\ RunAfter(rec) \in WorkflowStatus /\ AlertAfter(rec) \in AlertStatus
  BY <1>3, NewRecType
<1>5. /\ \A row : Authorised(row, rec, None)
      /\ rec.status \in {"PENDING_APPROVAL", "AUTO_APPLIED"}
      /\ RunAfter(rec) # "QUEUED"
      /\ AlertAfter(rec) \in Terminal =>
            rec.status = "AUTO_APPLIED" /\ OutcomeStatus[rec.action] = AlertAfter(rec)
  BY <1>3, NewRecAuthorised
<1> HIDE DEF rec
<1>6. [x.row EXCEPT !.status = RunAfter(rec)] \in RunRow
  BY <1>1, <1>4 DEF RunRow
<1>7. y = [x EXCEPT !.row = [x.row EXCEPT !.status = RunAfter(rec)],
                    !.target = AlertAfter(rec), !.rec = rec]
  BY <1>1
<1>8. y \in Session /\ y.run = x.run
  BY <1>1, <1>4, <1>6, <1>7 DEF Session
<1>9. /\ z.pc = "flushed" /\ z.run = x.run /\ z.target = AlertAfter(rec)
      /\ z.rec = rec /\ z.approval = x.approval /\ z.row.status = RunAfter(rec)
  BY <1>1, <1>6, <1>7 DEF Session, RunRow
<1> HIDE DEF z
<1>10. x.approval = None /\ Unfinished(x.run) /\ x.run < nextRun /\ rec # None
  BY <1>1, <1>4, ConstantsAssumption DEF SessionInv, PhaseInv, Holding
<1>11. SessionInv(z)
  BY <1>5, <1>9, <1>10 DEF SessionInv, PhaseInv, Executes
<1>12. SessionInv([y EXCEPT !.pc = "flushed"])
  BY <1>11 DEF z
<1>13. sess[s].pc \in Holding /\ y.run = sess[s].run
  BY <1>1, <1>8 DEF Holding
<1> HIDE DEF y
<1>14. QED BY <1>2, <1>8, <1>12, <1>13, FlushStep

(* A run that fails after its recommendation: the alert goes to manual     *)
(* review, which claims nothing.                                           *)
LEMMA FailedSession ==
    ASSUME Inv, NEW x \in Session, x.row \in RunRow, x.pc = "executing", SessionInv(x),
           NEW action \in Actions, NEW c \in Cases, NEW verified \in BOOLEAN
    PROVE  LET y == Failed(x, NewRec(action, c, verified))
           IN  /\ y \in Session /\ y.run = x.run
               /\ \A seen \in AlertRow :
                     /\ [y EXCEPT !.pc = "flushed", !.seen = seen] \in Session
                     /\ SessionInv([y EXCEPT !.pc = "flushed", !.seen = seen])
               /\ SessionInv([y EXCEPT !.pc = "flushed"])
<1> DEFINE rec == NewRec(action, c, verified)
           y == Failed(x, rec)
<1>1. rec \in RecRow /\ \A row : Authorised(row, rec, None)
  BY NewRecType, NewRecAuthorised
<1> HIDE DEF rec
<1>2. /\ y \in Session /\ y.row \in RunRow /\ y.row.status = "FAILED"
      /\ y.run = x.run /\ y.rec = rec /\ y.target = "NEEDS_MANUAL_REVIEW"
      /\ y.approval = x.approval
  BY <1>1, FailedFields
<1>3. x.approval = None /\ Unfinished(x.run) /\ x.run < nextRun /\ rec # None
  BY <1>1, ConstantsAssumption DEF SessionInv, PhaseInv, Holding
<1>4. "NEEDS_MANUAL_REVIEW" \notin Terminal
  BY DEF Terminal, OutcomeStatus, Actions
<1>5. ASSUME NEW z, z.pc = "flushed", z.row = y.row, z.run = y.run, z.rec = y.rec,
             z.target = y.target, z.approval = y.approval
      PROVE  SessionInv(z)
  BY <1>1, <1>2, <1>3, <1>4, <1>5 DEF SessionInv, PhaseInv
<1> HIDE DEF y
<1>6. SessionInv([y EXCEPT !.pc = "flushed"])
  <2> DEFINE z == [y EXCEPT !.pc = "flushed"]
  <2>1. /\ z.pc = "flushed" /\ z.row = y.row /\ z.run = y.run /\ z.rec = y.rec
        /\ z.target = y.target /\ z.approval = y.approval
    BY <1>2 DEF Session
  <2> HIDE DEF z
  <2>2. SessionInv(z)
    BY <1>5, <2>1
  <2>3. QED BY <2>2 DEF z
<1>7. ASSUME NEW seen \in AlertRow
      PROVE  /\ [y EXCEPT !.pc = "flushed", !.seen = seen] \in Session
             /\ SessionInv([y EXCEPT !.pc = "flushed", !.seen = seen])
  <2> DEFINE z == [y EXCEPT !.pc = "flushed", !.seen = seen]
  <2>1. z \in Session
    BY <1>2 DEF Session, PCs
  <2>2. /\ z.pc = "flushed" /\ z.row = y.row /\ z.run = y.run /\ z.rec = y.rec
        /\ z.target = y.target /\ z.approval = y.approval
    BY <1>2 DEF Session
  <2> HIDE DEF z
  <2>3. SessionInv(z)
    BY <1>5, <2>2
  <2>4. QED BY <2>1, <2>3 DEF z
<1>8. QED BY <1>2, <1>6, <1>7 DEF y, rec

LEMMA RecommendUnauditedStep ==
    ASSUME Inv, NEW s \in Sessions, NEW action \in Proposals, NEW c \in Cases,
           NEW verified \in BOOLEAN, RecommendUnaudited(s, action, c, verified)
    PROVE  CaseInv'
<1> DEFINE x == sess[s]
           y == Failed(x, NewRec(action, c, verified))
           before == {Event("workflow_escalated_to_human", x.run, None)}
<1>1. /\ x \in Session /\ x.row \in RunRow /\ x.pc = "executing" /\ SessionInv(x)
  BY DEF Inv, CaseInv, RecommendUnaudited, TypeInv, TypeOK, SessionShape
<1>2. FlushCase(s, y, before, {}) /\ UNCHANGED <<rows, nextRun>>
  BY DEF RecommendUnaudited
<1>3. action \in Actions
  BY ConstantsAssumption
<1>4. y \in Session /\ y.run = x.run /\ SessionInv([y EXCEPT !.pc = "flushed"])
  BY <1>1, <1>3, FailedSession
<1>5. sess[s].pc \in Holding /\ y.run = sess[s].run
  BY <1>1, <1>4 DEF Holding
<1> HIDE DEF y, before
<1>6. QED BY <1>2, <1>4, <1>5, FlushStep

LEMMA ApplyUnauditedStep ==
    ASSUME Inv, NEW s \in Sessions, NEW action \in Proposals, NEW c \in Cases,
           ApplyUnaudited(s, action, c)
    PROVE  CaseInv'
<1> DEFINE x == sess[s]
           y == Failed(x, NewRec(action, c, TRUE))
           outcome == OutcomeStatus[action]
           applied == IF x.seen.status = outcome THEN x.seen
                      ELSE [x.seen EXCEPT !.status = outcome, !.ver = @ + 1]
           z == [y EXCEPT !.pc = "flushed", !.seen = applied]
<1>1. /\ x \in Session /\ x.row \in RunRow /\ x.seen \in AlertRow
      /\ x.pc = "executing" /\ SessionInv(x)
  BY DEF Inv, CaseInv, ApplyUnaudited, TypeInv, TypeOK, SessionShape
<1>2. action \in Actions
  BY ConstantsAssumption
<1>3. outcome \in AlertStatus
  BY <1>2 DEF OutcomeStatus, Actions, AlertStatus
<1>4. applied \in AlertRow
  BY <1>1, <1>3, NextVersion
<1>5. UNCHANGED <<rows, nextRun>>
  BY DEF ApplyUnaudited
<1>6. CASE sess' = [sess EXCEPT ![s] = z]
  <2> HIDE DEF applied
  <2>1. y.run = x.run /\ z \in Session /\ SessionInv(z)
    BY <1>1, <1>2, <1>4, FailedSession
  <2>2. z.run = x.run
    <3>1. y \in Session
      BY <1>1, <1>2, FailedSession
    <3> HIDE DEF y
    <3>2. QED BY <2>1, <3>1 DEF Session
  <2> HIDE DEF z
  <2>3. \A t \in Sessions \ {s} : sess[t].pc \in Holding => sess[t].run # z.run
    BY <1>1, <2>2 DEF Inv, CaseInv, OneHolder, Holding
  <2>4. QED BY <1>5, <1>6, <2>1, <2>3, SessionStep
<1>7. CASE sess' = [sess EXCEPT ![s] = IdleSession]
  BY <1>5, <1>7, IdleStep
<1>8. QED BY <1>6, <1>7 DEF ApplyUnaudited

LEMMA DecideStep ==
    ASSUME Inv, NEW s \in Sessions, NEW u \in Users, NEW r \in Runs,
           NEW decision \in {"approve", "reject"}, Decide(s, u, r, decision)
    PROVE  CaseInv'
<1> DEFINE status == IF decision = "approve" THEN "COMPLETED" ELSE "NEEDS_MANUAL_REVIEW"
           target == IF decision = "approve" THEN OutcomeStatus[recs[r].action]
                     ELSE "NEEDS_MANUAL_REVIEW"
           row == [runs[r] EXCEPT !.status = status]
           rec == [recs[r] EXCEPT !.status = DecidedStatus(decision)]
           approval == [by |-> u, decision |-> decision]
           x == [pc |-> "deciding", run |-> r, row |-> row,
                 seen |-> alerts[runs[r].alert], target |-> target, rec |-> rec,
                 approval |-> approval]
<1>1. recs[r] \in RecRow /\ runs[r] \in RunRow /\ alerts[runs[r].alert] \in AlertRow
  BY DEF Inv, Decide, TypeInv, TypeOK, RecHasRun, RunRow
<1>2. row \in RunRow /\ row.status # "QUEUED" /\ row.by = runs[r].by
  BY <1>1 DEF RunRow, WorkflowStatus
<1>3. /\ rec \in RecRow /\ rec.status = DecidedStatus(decision)
      /\ rec.verified = recs[r].verified /\ rec.action = recs[r].action
  BY <1>1 DEF RecRow, RecStatus, DecidedStatus
<1>4. target \in AlertStatus
  BY <1>1 DEF RecRow, OutcomeStatus, Actions, AlertStatus
<1>5. sess' = [sess EXCEPT ![s] = x] /\ UNCHANGED <<rows, nextRun>>
  BY DEF Decide
<1>6. approval \in ApprovalRow /\ approval.by = u /\ approval.decision = decision
  BY DEF ApprovalRow
<1>7. "NEEDS_MANUAL_REVIEW" \notin Terminal
  BY DEF Terminal, OutcomeStatus, Actions
<1>8. target \in Terminal => decision = "approve" /\ OutcomeStatus[rec.action] = target
  BY <1>3, <1>7
<1>9. rec # None /\ runs[r] # None /\ approval # None
  BY <1>1, <1>3, <1>6, ConstantsAssumption
<1>10. Authorised(row, rec, approval)
  BY <1>2, <1>3, <1>6, <1>9 DEF Authorised, DecidedStatus, Decide, FourEyes
<1>11. Undecided(r) /\ r < nextRun
  BY <1>9 DEF Decide, Inv, CaseInv, TableInv, Undecided
<1> HIDE DEF row, rec, target, approval
<1>12. x \in Session
  BY <1>1, <1>2, <1>3, <1>4, <1>6 DEF Session, PCs
<1>13. SessionInv(x)
  BY <1>2, <1>3, <1>8, <1>10, <1>11, <1>9 DEF SessionInv, PhaseInv, Executes, DecidedStatus
<1>14. ASSUME NEW t \in Sessions, sess[t].pc \in Holding PROVE sess[t].run # r
  <2>1. CASE sess[t].pc \in {"deciding", "flushed"}
    BY <2>1 DEF Decide, HoldsRec
  <2>2. CASE sess[t].pc = "executing"
    BY <2>2 DEF Decide, Inv, CaseInv, SessionInv, PhaseInv, Unfinished
  <2>3. QED BY <1>14, <2>1, <2>2 DEF Holding
<1>15. x.run = r
  OBVIOUS
<1> HIDE DEF x
<1>16. QED BY <1>5, <1>12, <1>13, <1>14, <1>15, SessionStep

LEMMA DecideFlushStep ==
    ASSUME Inv, NEW s \in Sessions, DecideFlush(s)
    PROVE  CaseInv'
<1> DEFINE x == sess[s]
           z == [x EXCEPT !.pc = "flushed"]
           after == IF x.approval.decision = "approve"
                    THEN {Event("action_executed", x.run, x.approval.by)} ELSE {}
<1>1. /\ x \in Session /\ x.rec \in RecRow /\ x.pc = "deciding" /\ SessionInv(x)
  BY DEF DecideFlush, Inv, CaseInv, TypeInv, TypeOK, SessionShape
<1>2. UNCHANGED <<rows, nextRun>>
  BY DEF DecideFlush
<1>3. CASE sess' = [sess EXCEPT ![s] = IdleSession]
  BY <1>2, <1>3, IdleStep
<1>4. CASE FlushCase(s, x, {}, after)
  <2>1. /\ z.pc = "flushed" /\ z.run = x.run /\ z.target = x.target /\ z.rec = x.rec
        /\ z.approval = x.approval /\ z.row = x.row
    BY <1>1 DEF Session
  <2>2. x.rec # None
    BY <1>1, ConstantsAssumption
  <2> HIDE DEF z
  <2>3. SessionInv(z)
    BY <1>1, <2>1, <2>2 DEF SessionInv, PhaseInv, Holding, Executes
  <2>4. SessionInv([x EXCEPT !.pc = "flushed"])
    BY <2>3 DEF z
  <2>5. sess[s].pc \in Holding /\ x.run = sess[s].run
    BY <1>1 DEF Holding
  <2> HIDE DEF x, after
  <2>6. QED BY <1>1, <1>2, <1>4, <2>4, <2>5, FlushStep
<1>5. QED BY <1>3, <1>4 DEF DecideFlush

(* The new run's id has never been used, so no one works on it.            *)
LEMMA StartFlushStep ==
    ASSUME Inv, NEW s \in Sessions, StartFlush(s)
    PROVE  CaseInv'
<1> DEFINE x == sess[s]
           y == IF x.row.status = "QUEUED"
                THEN [x EXCEPT !.pc = "flushed", !.run = nextRun]
                ELSE [x EXCEPT !.pc = "executing", !.run = nextRun,
                         !.seen = [x.seen EXCEPT !.status = "INVESTIGATING", !.ver = @ + 1]]
<1>1. /\ x \in Session /\ x.pc = "starting" /\ SessionInv(x) /\ nextRun \in Runs
      /\ UNCHANGED rows
  BY DEF StartFlush, Inv, CaseInv, TypeInv, TypeOK
<1>2. CASE sess' = [sess EXCEPT ![s] = IdleSession] /\ UNCHANGED nextRun
  BY <1>1, <1>2, IdleStep
<1>3. CASE sess' = [sess EXCEPT ![s] = y] /\ nextRun' = nextRun + 1
  <2>1. /\ y.pc \in {"executing", "flushed"} /\ y.run = nextRun /\ y.rec = None
        /\ y.approval = None /\ y.target = x.target
    BY <1>1 DEF Session, SessionInv, PhaseInv
  <2> HIDE DEF y
  <2>2. \A t \in Sessions : sess'[t] = IF t = s THEN y ELSE sess[t]
    BY <1>3 DEF Inv, TypeInv, TypeOK
  <2>3. runs[nextRun] = None /\ recs[nextRun] = None /\ approvals[nextRun] = None
    BY <1>1 DEF Inv, CaseInv, TableInv, Runs
  <2>4. nextRun \in Nat /\ \A r \in Runs : r \in Nat
    BY <1>1 DEF Runs
  <2>5. \A t \in Sessions : sess[t].pc \in Holding => sess[t].run \in Runs /\ sess[t].run < nextRun
    BY DEF Inv, CaseInv, SessionInv, TypeInv, SessionShape, Holding
  <2>6. Unfinished(nextRun)
    BY <2>3 DEF Unfinished
  <2>7. x.target \notin Terminal
    <3>1. x.rec = None
      BY <1>1 DEF SessionInv, PhaseInv
    <3>2. QED BY <1>1, <3>1 DEF SessionInv, Executes
  <2>8. ASSUME NEW t \in Sessions PROVE SessionInv(sess[t])'
    <3>1. CASE t = s
      <4>1. PhaseInv(y)
        BY <2>1, <2>6 DEF PhaseInv
      <4>2. nextRun < nextRun + 1
        BY <2>4
      <4>3. QED
        BY <1>1, <1>3, <2>1, <2>2, <2>7, <3>1, <4>1, <4>2
           DEF SessionInv, PhaseInv, Unfinished, Undecided, Queued, Holding, rows
    <3>2. CASE t # s
      <4>1. SessionInv(sess[t]) /\ sess'[t] = sess[t]
        BY <2>2, <3>2 DEF Inv, CaseInv
      <4>2. sess[t].pc \in Holding => sess[t].run < nextRun + 1
        BY <2>4, <2>5
      <4>3. QED
        BY <1>1, <1>3, <4>1, <4>2
           DEF SessionInv, PhaseInv, Unfinished, Undecided, Queued, Authorised, Executes, rows
    <3>3. QED BY <3>1, <3>2
  <2>9. OneHolder'
    <3>1. \A t \in Sessions : sess[t].pc \in Holding => sess[t].run # nextRun
      BY <2>4, <2>5
    <3>2. QED BY <2>1, <2>2, <3>1 DEF Inv, CaseInv, OneHolder
  <2>10. TableInv'
    BY <1>1, <1>3, <2>4 DEF Inv, CaseInv, TableInv, Queued, Authorised, rows
  <2>11. SevereOutcomesAuthorised'
    BY <1>1 DEF Inv, CaseInv, SevereOutcomesAuthorised, ApprovedByMlro, rows
  <2>12. TerminalAlertExplained'
    BY <1>1 DEF Inv, CaseInv, TerminalAlertExplained, Executed, rows
  <2>13. QED BY <2>8, <2>9, <2>10, <2>11, <2>12 DEF CaseInv
<1>4. QED BY <1>2, <1>3 DEF StartFlush

LEMMA ScoreAlertStep ==
    ASSUME Inv, NEW a \in Alerts, ScoreAlert(a)
    PROVE  CaseInv'
<1>1. UNCHANGED <<runs, recs, approvals, strs, restricted, monitored, nextRun, sess>>
  BY DEF ScoreAlert
<1>2. ASSUME NEW s \in Sessions PROVE SessionInv(sess[s])'
  <2>1. SessionInv(sess[s])
    BY DEF Inv, CaseInv
  <2>2. QED BY <1>1, <2>1 DEF SessionInv, PhaseInv, Unfinished, Undecided, Queued, Authorised,
                             Executes
<1>3. OneHolder'
  BY <1>1 DEF Inv, CaseInv, OneHolder
<1>4. TableInv'
  BY <1>1 DEF Inv, CaseInv, TableInv, Queued, Authorised
<1>5. SevereOutcomesAuthorised'
  BY <1>1 DEF Inv, CaseInv, SevereOutcomesAuthorised, ApprovedByMlro
<1>6. \A b \in Alerts : alerts'[b].status = alerts[b].status
  <2>1. alerts[a] \in AlertRow
    BY DEF Inv, TypeInv, TypeOK
  <2>2. [alerts[a] EXCEPT !.scored = TRUE, !.ver = @ + 1].status = alerts[a].status
    BY <2>1 DEF AlertRow
  <2>3. alerts' = [alerts EXCEPT ![a] = [alerts[a] EXCEPT !.scored = TRUE, !.ver = @ + 1]]
    BY DEF ScoreAlert, Inv, TypeInv, TypeOK, AlertRow
  <2>4. QED BY <2>2, <2>3 DEF Inv, TypeInv, TypeOK
<1>7. TerminalAlertExplained'
  BY <1>1, <1>6 DEF Inv, CaseInv, TerminalAlertExplained, Executed
<1>8. QED BY <1>2, <1>3, <1>4, <1>5, <1>7 DEF CaseInv

(* What a commit does to the row of its run, and that it touches no other. *)
LEMMA CommitRow ==
    ASSUME Inv, NEW s \in Sessions, Commit(s)
    PROVE  LET x == sess[s] IN
           /\ x \in Session /\ x.row \in RunRow /\ x.run \in Runs /\ SessionInv(x)
           /\ x.pc = "flushed"
           /\ runs'[x.run] = x.row /\ recs'[x.run] = x.rec /\ approvals'[x.run] = x.approval
           /\ \A q \in Runs \ {x.run} : /\ runs'[q] = runs[q] /\ recs'[q] = recs[q]
                                       /\ approvals'[q] = approvals[q]
           /\ \A t \in Sessions : sess'[t] = IF t = s THEN IdleSession ELSE sess[t]
           /\ Unfinished(x.run) \/ Undecided(x.run)
           /\ x.rec = None => x.approval = None
           /\ x.rec # None => x.row.status # "QUEUED" /\ Authorised(x.row, x.rec, x.approval)
           /\ nextRun' = nextRun /\ x.run < nextRun
<1> DEFINE x == sess[s]
<1>1. x \in Session /\ x.row \in RunRow /\ x.run \in Runs /\ SessionInv(x) /\ x.pc = "flushed"
  BY DEF Commit, Inv, CaseInv, TypeInv, TypeOK, SessionShape
<1>2. /\ runs' = [runs EXCEPT ![x.run] = x.row]
      /\ recs' = [recs EXCEPT ![x.run] = x.rec]
      /\ approvals' = [approvals EXCEPT ![x.run] = x.approval]
      /\ sess' = [sess EXCEPT ![s] = IdleSession]
      /\ nextRun' = nextRun
  BY DEF Commit
<1>3. x.run < nextRun
  BY <1>1 DEF SessionInv, Holding
<1>4. /\ Unfinished(x.run) \/ Undecided(x.run)
      /\ x.rec = None => x.approval = None
      /\ x.rec # None => x.row.status # "QUEUED" /\ Authorised(x.row, x.rec, x.approval)
  BY <1>1 DEF SessionInv, PhaseInv
<1> HIDE DEF x
<1>5. /\ runs'[x.run] = x.row /\ recs'[x.run] = x.rec /\ approvals'[x.run] = x.approval
      /\ \A q \in Runs \ {x.run} : /\ runs'[q] = runs[q] /\ recs'[q] = recs[q]
                                  /\ approvals'[q] = approvals[q]
      /\ \A t \in Sessions : sess'[t] = IF t = s THEN IdleSession ELSE sess[t]
  BY <1>1, <1>2 DEF Inv, TypeInv, TypeOK
<1>6. QED BY <1>1, <1>2, <1>3, <1>4, <1>5 DEF x

(* A severe action that takes effect was approved by an MLRO other than    *)
(* the initiator: the policy engine never applies one by itself.           *)
LEMMA SevereApproved ==
    ASSUME Inv, NEW s \in Sessions, Commit(s),
           Executes(sess[s]), sess[s].rec.action \in Severe
    PROVE  /\ sess[s].approval # None
           /\ \A r, u : r = sess[s].run /\ u = sess[s].approval.by => ApprovedByMlro(r, u)'
<1>0. PICK x : x = sess[s]
  OBVIOUS
<1>1. /\ x \in Session /\ x.row \in RunRow /\ x.run \in Runs /\ x.rec # None
      /\ runs'[x.run] = x.row /\ recs'[x.run] = x.rec /\ approvals'[x.run] = x.approval
      /\ Authorised(x.row, x.rec, x.approval)
  BY <1>0, CommitRow DEF Executes
<1>2. x.rec.status = "EXECUTED"
  BY <1>0, <1>1 DEF Executes, Authorised, RequiresApproval
<1>3. /\ x.rec.verified /\ x.approval # None /\ x.approval.decision = "approve"
      /\ x.approval.by # x.row.by /\ RoleOf[x.approval.by] \in ApprovalAuthority[x.rec.action]
  BY <1>1, <1>2 DEF Authorised
<1>4. RoleOf[x.approval.by] = "mlro"
  BY <1>0, <1>3 DEF ApprovalAuthority, Actions, Severe
<1>5. x.approval = [by |-> x.approval.by, decision |-> "approve"]
  BY <1>1, <1>3 DEF Session, ApprovalRow
<1>6. x.row # None
  BY <1>1, ConstantsAssumption
<1>7. QED BY <1>0, <1>1, <1>2, <1>3, <1>4, <1>5, <1>6 DEF ApprovedByMlro

LEMMA CommitStep ==
    ASSUME Inv, NEW s \in Sessions, Commit(s)
    PROVE  CaseInv'
<1>0. PICK x, r : x = sess[s] /\ r = x.run
  OBVIOUS
<1>1. /\ x \in Session /\ x.row \in RunRow /\ r \in Runs /\ SessionInv(x) /\ x.pc = "flushed"
      /\ runs'[r] = x.row /\ recs'[r] = x.rec /\ approvals'[r] = x.approval
      /\ \A q \in Runs \ {r} : /\ runs'[q] = runs[q] /\ recs'[q] = recs[q]
                              /\ approvals'[q] = approvals[q]
      /\ \A t \in Sessions : sess'[t] = IF t = s THEN IdleSession ELSE sess[t]
      /\ Unfinished(r) \/ Undecided(r)
      /\ x.rec = None => x.approval = None
      /\ x.rec # None => x.row.status # "QUEUED" /\ Authorised(x.row, x.rec, x.approval)
      /\ nextRun' = nextRun /\ r < nextRun
  BY <1>0, CommitRow
<1>2. x.row # None /\ x.row.alert \in Alerts
  BY <1>1, ConstantsAssumption DEF RunRow
<1>3. ~Executed(r)
  BY <1>1 DEF Executed, Unfinished, Undecided
<1>4. (x.rec # None /\ x.rec.status \in {"EXECUTED", "AUTO_APPLIED"}) <=> Executed(r)'
  BY <1>1 DEF Executed
<1>5. ASSUME NEW t \in Sessions PROVE SessionInv(sess[t])'
  <2>1. CASE t = s
    <3>1. sess'[t].pc = "idle"
      BY <1>1, <2>1 DEF IdleSession
    <3>2. QED BY <3>1 DEF SessionInv, PhaseInv, Holding
  <2>2. CASE t # s
    <3>1. sess'[t] = sess[t] /\ SessionInv(sess[t])
      BY <1>1, <2>2 DEF Inv, CaseInv
    <3>2. sess[t].pc \in Holding => sess[t].run \in Runs \ {r}
      <4>1. sess[t].pc \in Holding => sess[t].run \in Runs
        BY DEF Inv, TypeInv, SessionShape, Holding
      <4>2. sess[t].pc \in Holding => sess[t].run # r
        BY <1>0, <1>1, <2>2 DEF Inv, CaseInv, OneHolder, Holding
      <4>3. QED BY <4>1, <4>2
    <3>3. QED
      BY <1>1, <3>1, <3>2
         DEF SessionInv, PhaseInv, Unfinished, Undecided, Queued, Authorised, Executes, Holding
  <2>3. QED BY <2>1, <2>2
<1>6. OneHolder'
  BY <1>1 DEF Inv, CaseInv, OneHolder, IdleSession, Holding
<1>7. TableInv'
  <2> SUFFICES ASSUME NEW q \in Runs
               PROVE  /\ runs'[q] # None => q < nextRun
                      /\ runs'[q] = None \/ Queued(q)' => recs'[q] = None /\ approvals'[q] = None
                      /\ recs'[q] # None => Authorised(runs'[q], recs'[q], approvals'[q])
    BY <1>1 DEF TableInv, Authorised
  <2>1. CASE q = r
    BY <1>1, <1>2, <2>1 DEF Queued
  <2>2. CASE q # r
    BY <1>1, <2>2 DEF Inv, CaseInv, TableInv, Queued
  <2>3. QED BY <2>1, <2>2
<1>8. ASSUME NEW q \in Runs, NEW u, ApprovedByMlro(q, u)
      PROVE  ApprovedByMlro(q, u)' /\ runs'[q] = runs[q] /\ recs'[q] = recs[q]
  <2>1. q # r
    BY <1>3, <1>8 DEF ApprovedByMlro, Executed
  <2>2. QED BY <1>1, <1>8, <2>1 DEF ApprovedByMlro
<1>9. SevereOutcomesAuthorised'
  <2>1. ASSUME NEW y \in strs'
        PROVE  ApprovedByMlro(y.run, y.by)' /\ runs'[y.run].alert = y.alert
    <3>1. CASE y \in strs
      BY <1>8, <3>1 DEF Inv, CaseInv, SevereOutcomesAuthorised, TypeInv, TypeOK, Report
    <3>2. CASE y \notin strs
      <4>1. /\ Executes(x) /\ x.rec.action \in Severe
            /\ y = [run |-> r, alert |-> x.row.alert,
                    by |-> IF x.approval = None THEN None ELSE x.approval.by]
        BY <1>0, <3>2 DEF Commit
      <4>2. x.approval # None /\ ApprovedByMlro(r, x.approval.by)'
        BY <1>0, <4>1, SevereApproved
      <4>3. QED BY <1>1, <4>1, <4>2
    <3>3. QED BY <3>1, <3>2
  <2>2. ASSUME NEW c \in restricted'
        PROVE  \E q \in Runs, u \in Users :
                  /\ ApprovedByMlro(q, u)' /\ recs'[q].action = "RESTRICT_ACCOUNT"
                  /\ CustomerOf[runs'[q].alert] = c
    <3>1. CASE c \in restricted
      BY <1>8, <3>1 DEF Inv, CaseInv, SevereOutcomesAuthorised
    <3>2. CASE c \notin restricted
      <4>1. Executes(x) /\ x.rec.action = "RESTRICT_ACCOUNT" /\ c = CustomerOf[x.row.alert]
        BY <1>0, <3>2 DEF Commit, Customer
      <4>2. x.approval # None /\ ApprovedByMlro(r, x.approval.by)'
        BY <1>0, <4>1, SevereApproved DEF Severe
      <4>3. x.approval.by \in Users
        BY <1>1, <4>2 DEF Session, ApprovalRow
      <4>4. QED BY <1>1, <4>1, <4>2, <4>3
    <3>3. QED BY <3>1, <3>2
  <2>3. QED BY <2>1, <2>2 DEF SevereOutcomesAuthorised
<1>10. TerminalAlertExplained'
  <2> SUFFICES ASSUME NEW b \in Alerts, alerts'[b].status \in Terminal
               PROVE  \E q \in Runs : /\ Executed(q)' /\ runs'[q].alert = b
                                      /\ OutcomeStatus[recs'[q].action] = alerts'[b].status
    BY DEF TerminalAlertExplained, Terminal
  <2>1. CASE alerts'[b] = alerts[b]
    <3>1. PICK q \in Runs : /\ Executed(q) /\ runs[q].alert = b
                            /\ OutcomeStatus[recs[q].action] = alerts[b].status
      BY <2>1 DEF Inv, CaseInv, TerminalAlertExplained
    <3>2. q # r
      BY <1>3, <3>1
    <3>3. QED BY <1>1, <2>1, <3>1, <3>2 DEF Executed
  <2>2. CASE alerts'[b] # alerts[b]
    <3> DEFINE y == [x.seen EXCEPT !.status = x.target, !.ver = @ + 1]
    <3>1. x.seen \in AlertRow /\ x.target \in AlertStatus
      BY <1>0, <1>1 DEF Inv, TypeInv, SessionShape
    <3>2. y.status = x.target
      BY <3>1, NextVersion
    <3>3. alerts' = alerts \/ alerts' = [alerts EXCEPT ![x.row.alert] = y]
      BY <1>0 DEF Commit
    <3> HIDE DEF y
    <3>4. b = x.row.alert /\ alerts'[b].status = x.target
      BY <1>2, <2>2, <3>2, <3>3 DEF Inv, TypeInv, TypeOK
    <3>5. Executes(x) /\ OutcomeStatus[x.rec.action] = x.target
      BY <1>1, <3>4 DEF SessionInv
    <3>6. QED BY <1>1, <1>4, <3>4, <3>5 DEF Executes
  <2>3. QED BY <2>1, <2>2
<1>11. QED BY <1>5, <1>6, <1>7, <1>9, <1>10 DEF CaseInv

LEMMA StepInv == Inv /\ [Next]_vars => Inv'
<1> SUFFICES ASSUME Inv, [Next]_vars PROVE CaseInv'
  BY StepTypeInv DEF Inv
<1> USE DEF Sessions
<1>1. ASSUME NEW a \in Alerts, ScoreAlert(a) PROVE CaseInv'
  BY <1>1, ScoreAlertStep
<1>2. ASSUME NEW s \in Requests, StartRequest(s) PROVE CaseInv'
  BY <1>2, StartReadStep DEF StartRequest
<1>3. ASSUME NEW s \in Requests, StartFlush(s) PROVE CaseInv'
  BY <1>3, StartFlushStep
<1>4. ASSUME NEW s \in Requests, DecideRequest(s) PROVE CaseInv'
  BY <1>4, DecideStep DEF DecideRequest
<1>5. ASSUME NEW s \in Requests, DecideFlush(s) PROVE CaseInv'
  BY <1>5, DecideFlushStep
<1>6. ASSUME NEW w \in Workers, ClaimOldest(w) PROVE CaseInv'
  BY <1>6, ClaimStep DEF ClaimOldest
<1>7. ASSUME NEW s \in Sessions, Finish(s) PROVE CaseInv'
  BY <1>7, EscalateStep, RecommendStep, RecommendUnauditedStep, ApplyUnauditedStep
     DEF Finish
<1>8. ASSUME NEW s \in Sessions, Commit(s) PROVE CaseInv'
  BY <1>8, CommitStep
<1>9. ASSUME NEW s \in Sessions, Abort(s) PROVE CaseInv'
  BY <1>9, IdleStep DEF Abort
<1>10. CASE UNCHANGED vars
  <2>1. UNCHANGED <<alerts, runs, recs, approvals, strs, restricted, monitored, trail, nextRun, sess>>
    BY <1>10 DEF vars
  <2>2. \A s \in Sessions : SessionInv(sess[s])'
    BY <2>1 DEF Inv, CaseInv, SessionInv, PhaseInv, Unfinished, Undecided, Queued, Authorised,
                Executes
  <2>3. OneHolder'
    BY <2>1 DEF Inv, CaseInv, OneHolder
  <2>4. TableInv'
    BY <2>1 DEF Inv, CaseInv, TableInv, Queued, Authorised
  <2>5. SevereOutcomesAuthorised'
    BY <2>1 DEF Inv, CaseInv, SevereOutcomesAuthorised, ApprovedByMlro
  <2>6. TerminalAlertExplained'
    BY <2>1 DEF Inv, CaseInv, TerminalAlertExplained, Executed
  <2>7. QED BY <2>2, <2>3, <2>4, <2>5, <2>6 DEF CaseInv
<1>11. QED
  BY <1>1, <1>2, <1>3, <1>4, <1>5, <1>6, <1>7, <1>8, <1>9, <1>10 DEF Next

(* CaseInv holds in every reachable state; in particular no two sessions   *)
(* ever work on the same run.                                              *)
THEOREM Invariance == Spec => []Inv
<1>1. Init => Inv
  BY InitTypeInv, InitCaseInv DEF Inv
<1>2. QED BY <1>1, StepInv, PTL DEF Spec

(* The inductive invariant that the runs check is one of every instance.   *)
THEOREM CaseInvCorrect == Spec => []CaseInv
<1>1. Inv => CaseInv
  BY DEF Inv
<1>2. QED BY <1>1, Invariance, PTL

(* Every report filed and every account restricted was approved by an MLRO *)
(* who did not start the investigation.                                    *)
THEOREM SevereAuthorised == Spec => []SevereOutcomesAuthorised
<1>1. Inv => SevereOutcomesAuthorised
  BY DEF Inv, CaseInv
<1>2. QED BY <1>1, Invariance, PTL

(* An alert in a terminal status has an executed recommendation for it.    *)
THEOREM TerminalExplained == Spec => []TerminalAlertExplained
<1>1. Inv => TerminalAlertExplained
  BY DEF Inv, CaseInv
<1>2. QED BY <1>1, Invariance, PTL

(* Nothing takes effect unverified, and nothing severe, flagged or of high *)
(* risk takes effect without a human.                                      *)
THEOREM FailsClosed == Spec => []NothingFailsOpen
<1>1. Inv => NothingFailsOpen
  <2> SUFFICES ASSUME Inv, NEW r \in Runs, Executed(r)
               PROVE  /\ recs[r].verified
                      /\ approvals[r] = None => /\ recs[r].action \notin Severe
                                                /\ ~recs[r].case.flagged
                                                /\ ~recs[r].case.highRisk
    BY DEF NothingFailsOpen
  <2>1. Authorised(runs[r], recs[r], approvals[r]) /\ recs[r] \in RecRow
    BY DEF Executed, Inv, CaseInv, TableInv, TypeInv, TypeOK
  <2>2. CASE recs[r].status = "EXECUTED"
    BY <2>1, <2>2 DEF Authorised
  <2>3. CASE recs[r].status = "AUTO_APPLIED"
    <3>1. /\ recs[r].action \notin Severe
          /\ Blockers(recs[r].action, recs[r].case, recs[r].verified) = {}
      BY <2>1, <2>3 DEF Authorised, RequiresApproval
    <3>2. /\ "verification_failed" \notin Blockers(recs[r].action, recs[r].case, recs[r].verified)
          /\ "injection_indicators" \notin Blockers(recs[r].action, recs[r].case, recs[r].verified)
          /\ "high_risk_or_pep" \notin Blockers(recs[r].action, recs[r].case, recs[r].verified)
      BY <3>1
    <3>3. recs[r].verified /\ ~recs[r].case.flagged /\ ~recs[r].case.highRisk
      BY <3>2 DEF Blockers
    <3>4. QED BY <3>1, <3>3
  <2>4. QED BY <2>2, <2>3 DEF Executed
<1>2. QED BY <1>1, Invariance, PTL

(* A run that has left the queue never returns to it and gets no second    *)
(* result; a decision is never replaced by another.                        *)
THEOREM RunsExecutedOnce == Spec => ExecutedOnce
<1>1. Inv /\ [Next]_vars =>
        [\A r \in Runs :
          /\ runs[r] # None /\ ~Queued(r) => ~Queued(r)' /\ runs'[r] # None
          /\ runs[r] # None /\ ~Queued(r) /\ recs[r] = None =>
                runs'[r] = runs[r] /\ recs'[r] = None
          /\ recs[r] # None /\ recs[r].status # "PENDING_APPROVAL" =>
                recs'[r] = recs[r] /\ approvals'[r] = approvals[r]]_vars
  <2> SUFFICES ASSUME Inv, Next, NEW r \in Runs
               PROVE
          /\ runs[r] # None /\ ~Queued(r) => ~Queued(r)' /\ runs'[r] # None
          /\ runs[r] # None /\ ~Queued(r) /\ recs[r] = None =>
                runs'[r] = runs[r] /\ recs'[r] = None
          /\ recs[r] # None /\ recs[r].status # "PENDING_APPROVAL" =>
                recs'[r] = recs[r] /\ approvals'[r] = approvals[r]
    OBVIOUS
  <2>1. CASE UNCHANGED <<runs, recs, approvals>>
    BY <2>1 DEF Queued
  <2>2. ASSUME NEW s \in Sessions, Commit(s), sess[s].run = r
        PROVE  /\ Unfinished(r) \/ Undecided(r)
               /\ Undecided(r) => ~Queued(r)' /\ runs'[r] # None
    <3>1. /\ runs'[r] = sess[s].row /\ sess[s].row \in RunRow
          /\ Unfinished(r) \/ Undecided(r)
          /\ Undecided(r) => sess[s].row.status # "QUEUED"
      <4>1. SessionInv(sess[s]) /\ sess[s].pc = "flushed"
        BY <2>2 DEF Commit, Inv, CaseInv
      <4>2. Undecided(r) => sess[s].row.status # "QUEUED"
        BY <2>2, <4>1 DEF SessionInv, PhaseInv, Unfinished, Undecided
      <4>3. QED BY <2>2, <4>2, CommitRow
    <3>2. QED BY <3>1, ConstantsAssumption DEF Queued
  <2>3. ASSUME NEW s \in Sessions, Commit(s), sess[s].run # r
        PROVE  UNCHANGED <<runs[r], recs[r], approvals[r]>>
    BY <2>3, CommitRow
  <2>4. ASSUME NEW s \in Sessions, Commit(s)
        PROVE
          /\ runs[r] # None /\ ~Queued(r) => ~Queued(r)' /\ runs'[r] # None
          /\ runs[r] # None /\ ~Queued(r) /\ recs[r] = None =>
                runs'[r] = runs[r] /\ recs'[r] = None
          /\ recs[r] # None /\ recs[r].status # "PENDING_APPROVAL" =>
                recs'[r] = recs[r] /\ approvals'[r] = approvals[r]
    BY <2>2, <2>3, <2>4 DEF Unfinished, Undecided, Queued
  <2>5. (\E s \in Sessions : Commit(s)) \/ UNCHANGED <<runs, recs, approvals>>
    <3>1. ASSUME NEW a \in Alerts, ScoreAlert(a) PROVE UNCHANGED <<runs, recs, approvals>>
      BY <3>1 DEF ScoreAlert
    <3>2. ASSUME NEW s, StartRequest(s) \/ StartFlush(s) PROVE UNCHANGED rows
      BY <3>2 DEF StartRequest, StartRead, StartFlush
    <3>3. ASSUME NEW s, DecideRequest(s) \/ DecideFlush(s) PROVE UNCHANGED rows
      BY <3>3 DEF DecideRequest, Decide, DecideFlush
    <3>4. ASSUME NEW w, ClaimOldest(w) PROVE UNCHANGED rows
      BY <3>4 DEF ClaimOldest, Claim
    <3>5. ASSUME NEW s, Finish(s) \/ Abort(s) PROVE UNCHANGED rows
      BY <3>5 DEF Finish, Escalate, Recommend, RecommendUnaudited, ApplyUnaudited, Abort
    <3>6. UNCHANGED rows => UNCHANGED <<runs, recs, approvals>>
      BY DEF rows
    <3>7. QED BY <3>1, <3>2, <3>3, <3>4, <3>5, <3>6 DEF Next
  <2>6. QED BY <2>1, <2>4, <2>5
<1>2. QED BY <1>1, Invariance, PTL DEF Spec, ExecutedOnce
-----------------------------------------------------------------------------
(* The records.  RecordsInv is inductive relative to Inv; one lemma says   *)
(* what a session may do without a commit, one what its flush may be.      *)

LEMMA InitRecords == Init => RecordsInv
<1> SUFFICES ASSUME Init PROVE RecordsInv
  OBVIOUS
<1>1. \A s \in Sessions : sess[s].pc = "idle"
  BY DEF Init, IdleSession
<1>2. \A s \in Sessions : StoryOf(sess[s], trail) /\ Latest(sess[s])
  BY <1>1 DEF StoryOf, Latest, Locks, Holding
<1>3. \A r \in Runs : runs[r] = None /\ RunStory(r, trail)
  BY DEF Init, RunStory
<1>4. OneLock
  BY <1>1 DEF OneLock, Locks
<1>5. KeyInv
  BY <1>1, <1>3 DEF KeyInv, Owns, OneRunPerKey
<1>6. WaitInv
  BY DEF WaitInv, Init
<1>7. QED BY <1>2, <1>3, <1>4, <1>5, <1>6 DEF RecordsInv

(* What an audit trail has it keeps.                                       *)
LEMMA TrailGrows ==
    ASSUME NEW T, T \subseteq trail'
    PROVE  /\ \A x : StoryOf(x, T) => StoryOf(x, trail')
           /\ \A r : RunStory(r, T) => RunStory(r, trail')
  BY DEF StoryOf, RunStory, Audited, CarriedOut

LEMMA MoveStep ==
    ASSUME Inv, RecordsInv, NEW s \in Sessions, NEW y \in Session,
           sess' = [sess EXCEPT ![s] = y], UNCHANGED rows, trail \subseteq trail',
           StoryOf(y, trail'), Latest(y),
           Owns(y) => /\ ~KeyTaken(y.row.key)
                      /\ \A t \in Sessions \ {s} :
                            Owns(sess[t]) /\ y.row.key # None => sess[t].row.key # y.row.key,
           \A a \in Alerts : Locks(y, a) => \A t \in Sessions \ {s} : ~Locks(sess[t], a),
           \A a \in Alerts : Tended(a, y.run) /\ alerts[a].status = "INVESTIGATING" =>
              /\ y.pc = "executing" => y.seen.status = "INVESTIGATING"
              /\ y.pc = "flushed" => MovesOn(y, "INVESTIGATING"),
           \A a \in Alerts : Awaited(a, y.run) /\ alerts[a].status = "PENDING_APPROVAL" =>
              /\ y.pc = "deciding" => y.seen.status = "PENDING_APPROVAL"
              /\ y.pc = "flushed" => MovesOn(y, "PENDING_APPROVAL")
    PROVE  RecordsInv'
<1>1. \A t \in Sessions : sess'[t] = IF t = s THEN y ELSE sess[t]
  BY DEF Inv, TypeInv, TypeOK
<1>2. /\ alerts' = alerts /\ runs' = runs /\ recs' = recs /\ approvals' = approvals
  BY DEF rows
<1>3. ASSUME NEW t \in Sessions PROVE (StoryOf(sess[t], trail) /\ Latest(sess[t]))'
  <2>1. StoryOf(sess'[t], trail') /\ Latest(sess'[t])
    BY <1>1, TrailGrows DEF RecordsInv
  <2>2. QED BY <1>2, <2>1 DEF StoryOf, Latest, Owns, Locks
<1>4. ASSUME NEW r \in Runs PROVE RunStory(r, trail)'
  <2>1. RunStory(r, trail')
    BY TrailGrows DEF RecordsInv
  <2>2. QED BY <1>2, <2>1 DEF RunStory
<1>5. OneLock'
  <2>1. ASSUME NEW t \in Sessions, NEW u \in Sessions, NEW a \in Alerts,
               Locks(sess'[t], a), Locks(sess'[u], a)
        PROVE  t = u
    BY <1>1, <2>1 DEF RecordsInv, OneLock
  <2>2. QED BY <1>2, <2>1 DEF OneLock, Locks, Owns
<1>6. KeyInv'
  <2>1. OneRunPerKey'
    BY <1>2 DEF RecordsInv, KeyInv, OneRunPerKey
  <2>2. ASSUME NEW t \in Sessions, Owns(sess'[t]) PROVE ~KeyTaken(sess'[t].row.key)
    BY <1>1, <2>2 DEF RecordsInv, KeyInv
  <2>3. ASSUME NEW t \in Sessions, NEW u \in Sessions, Owns(sess'[t]), Owns(sess'[u]),
               sess'[t].row.key = sess'[u].row.key, sess'[t].row.key # None
        PROVE  t = u
    BY <1>1, <2>3 DEF RecordsInv, KeyInv
  <2>4. QED BY <1>2, <2>1, <2>2, <2>3 DEF KeyInv, Owns, KeyTaken
<1>7. WaitInv'
  <2>1. ASSUME NEW a \in Alerts, alerts[a].status = "INVESTIGATING"
        PROVE  \E r \in Runs : Tended(a, r)'
    <3>1. PICK r \in Runs : Tended(a, r)
      BY <2>1 DEF RecordsInv, WaitInv
    <3>2. ASSUME NEW t \in Sessions, sess'[t].run = r
          PROVE  /\ sess'[t].pc = "executing" => sess'[t].seen.status = "INVESTIGATING"
                 /\ sess'[t].pc = "flushed" => MovesOn(sess'[t], "INVESTIGATING")
      BY <1>1, <2>1, <3>1, <3>2 DEF Tended
    <3>3. QED BY <1>2, <3>1, <3>2 DEF Tended, Queued, MovesOn, WritesAlert
  <2>2. ASSUME NEW a \in Alerts, alerts[a].status = "PENDING_APPROVAL"
        PROVE  \E r \in Runs : Awaited(a, r)'
    <3>1. PICK r \in Runs : Awaited(a, r)
      BY <2>2 DEF RecordsInv, WaitInv
    <3>2. ASSUME NEW t \in Sessions, sess'[t].run = r
          PROVE  /\ sess'[t].pc = "deciding" => sess'[t].seen.status = "PENDING_APPROVAL"
                 /\ sess'[t].pc = "flushed" => MovesOn(sess'[t], "PENDING_APPROVAL")
      BY <1>1, <2>2, <3>1, <3>2 DEF Awaited
    <3>3. QED BY <1>2, <3>1, <3>2 DEF Awaited, MovesOn, WritesAlert
  <2>3. QED BY <1>2, <2>1, <2>2 DEF WaitInv
<1>8. QED BY <1>3, <1>4, <1>5, <1>6, <1>7 DEF RecordsInv

LEMMA IdleMove ==
    ASSUME Inv, RecordsInv, NEW s \in Sessions, sess' = [sess EXCEPT ![s] = IdleSession],
           UNCHANGED rows, trail \subseteq trail'
    PROVE  RecordsInv'
<1>1. PICK y : y = IdleSession
  OBVIOUS
<1>2. y \in Session /\ y.pc = "idle"
  BY <1>1, IdleInSession DEF IdleSession
<1>3. StoryOf(y, trail') /\ Latest(y) /\ ~Owns(y) /\ \A a : ~Locks(y, a)
  BY <1>2 DEF StoryOf, Latest, Owns, Locks, Holding
<1>4. sess' = [sess EXCEPT ![s] = y]
  BY <1>1
<1>5. QED BY <1>2, <1>3, <1>4, MoveStep

(* A session that executes or decides flushes what it has decided on.      *)
LEMMA FlushMove ==
    ASSUME Inv, RecordsInv, NEW s \in Sessions, NEW y \in Session,
           sess' = [sess EXCEPT ![s] = y], UNCHANGED rows, trail \subseteq trail',
           sess[s].pc \in {"executing", "deciding"},
           y.pc = "flushed", y.run = sess[s].run, SameRun(y.row, sess[s].row),
           y.seen \in AlertRow, y.seen.ver >= sess[s].seen.ver,
           StoryOf(y, trail'),
           WritesAlert(y) =>
              /\ AlertFree(s, y.row.alert)
              /\ OwnsNewRun(s) \/ alerts[y.row.alert].ver <= y.seen.ver,
           y.target # "INVESTIGATING",
           sess[s].pc = "deciding" => y.target # "PENDING_APPROVAL",
           sess[s].seen.status # y.target => WritesAlert(y)
    PROVE  RecordsInv'
<1>1. PICK x : x = sess[s]
  OBVIOUS
<1>2. /\ x \in Session /\ x.row \in RunRow /\ x.seen \in AlertRow /\ x.run \in Runs
      /\ SessionInv(x) /\ StoryOf(x, trail) /\ Latest(x)
  BY <1>1 DEF RecordsInv, Inv, CaseInv, TypeInv, TypeOK, SessionShape
<1>3. Owns(y) => Owns(x) /\ x.pc = "executing"
  BY <1>1, <1>2 DEF Owns, SessionInv, PhaseInv, Undecided
<1>4. x.row.alert = y.row.alert /\ x.row.key = y.row.key /\ x.row.alert \in Alerts
  BY <1>1, <1>2 DEF SameRun, RunRow
<1>5. Latest(y)
  <2>1. alerts[x.row.alert].ver \in Nat /\ x.seen.ver \in Nat /\ y.seen.ver \in Nat
    BY <1>2, <1>4 DEF Inv, TypeInv, TypeOK, AlertRow
  <2>2. CASE Owns(y)
    <3>1. x.seen.ver >= alerts[x.row.alert].ver + 1
      BY <1>2, <1>3, <2>2 DEF Latest, Locks, StoryOf, Owns
    <3>2. QED BY <1>1, <1>4, <2>1, <3>1 DEF Latest
  <2>3. CASE ~Owns(y)
    BY <1>1, <1>4, <2>1, <2>3 DEF Latest, Locks, Owns, OwnsNewRun
  <2>4. QED BY <2>2, <2>3
<1>6. Owns(y) => /\ ~KeyTaken(y.row.key)
                 /\ \A t \in Sessions \ {s} :
                       Owns(sess[t]) /\ y.row.key # None => sess[t].row.key # y.row.key
  BY <1>1, <1>3, <1>4 DEF RecordsInv, KeyInv
<1>7. ASSUME NEW a \in Alerts, Locks(y, a), NEW t \in Sessions \ {s} PROVE ~Locks(sess[t], a)
  <2>1. CASE Owns(y)
    <3>1. Locks(x, a)
      BY <1>3, <1>4, <1>7, <2>1 DEF Locks
    <3>2. QED BY <1>1, <3>1 DEF RecordsInv, OneLock
  <2>2. CASE WritesAlert(y)
    BY <1>7, <2>2 DEF Locks, AlertFree, HoldsAlert, OwnsNewRun, Owns
  <2>3. QED BY <1>7, <2>1, <2>2 DEF Locks
<1>8. ASSUME NEW a \in Alerts, Tended(a, y.run)
      PROVE  MovesOn(y, "INVESTIGATING")
  <2>1. x.pc = "executing"
    BY <1>1, <1>2, <1>8 DEF Tended, SessionInv, PhaseInv, Undecided
  <2>2. x.seen.status = "INVESTIGATING"
    BY <1>1, <1>8, <2>1 DEF Tended
  <2>3. QED BY <1>1, <2>2 DEF MovesOn
<1>9. ASSUME NEW a \in Alerts, Awaited(a, y.run)
      PROVE  MovesOn(y, "PENDING_APPROVAL")
  <2>1. x.pc = "deciding"
    BY <1>1, <1>2, <1>9 DEF Awaited, SessionInv, PhaseInv, Unfinished
  <2>2. x.seen.status = "PENDING_APPROVAL"
    BY <1>1, <1>9, <2>1 DEF Awaited
  <2>3. QED BY <1>1, <2>1, <2>2 DEF MovesOn
<1>10. QED BY <1>5, <1>6, <1>7, <1>8, <1>9, MoveStep
LEMMA StartReadMove ==
    ASSUME Inv, RecordsInv, NEW s \in Sessions, NEW u \in Users, NEW a \in Alerts,
           NEW k \in Keys \cup {None}, NEW status \in Modes, StartRead(s, u, a, k, status)
    PROVE  RecordsInv'
<1> DEFINE row == [alert |-> a, status |-> status, by |-> u, key |-> k]
<1>1. PICK y : y = [IdleSession EXCEPT !.pc = "starting", !.row = row, !.seen = alerts[a],
                                       !.target = "INVESTIGATING"]
  OBVIOUS
<1>2. row \in RunRow
  BY ConstantsAssumption DEF RunRow, WorkflowStatus
<1>3. /\ y \in Session /\ y.pc = "starting" /\ y.target = "INVESTIGATING"
  BY <1>1, <1>2, IdleInSession DEF Inv, Session, PCs, AlertStatus, TypeInv, TypeOK, IdleSession
<1>4. sess' = [sess EXCEPT ![s] = y] /\ UNCHANGED rows /\ trail' = trail
  BY <1>1 DEF StartRead
<1>5. StoryOf(y, trail') /\ Latest(y) /\ ~Owns(y) /\ \A b : ~Locks(y, b)
  BY <1>3 DEF StoryOf, Latest, Owns, Locks, Holding
<1>6. QED BY <1>3, <1>4, <1>5, MoveStep

(* The new run's key is nobody else's, committed or not.                   *)
LEMMA StartFlushMove ==
    ASSUME Inv, RecordsInv, NEW s \in Sessions, StartFlush(s)
    PROVE  RecordsInv'
<1>1. PICK x : x = sess[s]
  OBVIOUS
<1>2. PICK y : y = IF x.row.status = "QUEUED"
                   THEN [x EXCEPT !.pc = "flushed", !.run = nextRun]
                   ELSE [x EXCEPT !.pc = "executing", !.run = nextRun,
                            !.seen = [x.seen EXCEPT !.status = "INVESTIGATING", !.ver = @ + 1]]
  OBVIOUS
<1>3. /\ x \in Session /\ x.pc = "starting" /\ x.row \in RunRow /\ x.seen \in AlertRow
      /\ x.target = "INVESTIGATING" /\ x.rec = None /\ x.approval = None
      /\ nextRun \in Runs /\ UNCHANGED rows
  BY <1>1 DEF StartFlush, Inv, CaseInv, TypeInv, TypeOK, SessionShape, RecordsInv, StoryOf,
              SessionInv, PhaseInv
<1>4. CASE sess' = [sess EXCEPT ![s] = IdleSession] /\ UNCHANGED trail
  BY <1>3, <1>4, IdleMove
<1>5. CASE /\ sess' = [sess EXCEPT ![s] = y]
           /\ trail' = trail \cup {Event("investigation_started", nextRun, x.row.by)}
           /\ alerts[x.row.alert].ver = x.seen.ver /\ ~KeyTaken(x.row.key)
  <2>1. PICK seen \in AlertRow :
              /\ seen = [x.seen EXCEPT !.status = "INVESTIGATING", !.ver = @ + 1]
              /\ seen.ver = x.seen.ver + 1
    <3> DEFINE seen == [x.seen EXCEPT !.status = "INVESTIGATING", !.ver = @ + 1]
    <3>1. "INVESTIGATING" \in AlertStatus
      BY DEF AlertStatus
    <3>2. seen \in AlertRow /\ seen.ver = x.seen.ver + 1
      BY <1>3, <3>1, NextVersion
    <3>3. QED BY <3>2
  <2>2. /\ y \in Session /\ y.run = nextRun /\ y.row = x.row /\ y.target = "INVESTIGATING"
        /\ y.rec = None /\ y.approval = None
        /\ \/ y.pc = "flushed" /\ x.row.status = "QUEUED" /\ y.seen = x.seen
           \/ y.pc = "executing" /\ x.row.status # "QUEUED" /\ y.seen = seen
    BY <1>2, <1>3, <2>1 DEF Session, PCs
  <2>3. runs[nextRun] = None /\ recs[nextRun] = None
    BY <1>3 DEF Inv, CaseInv, TableInv, Runs
  <2>4. /\ alerts[y.row.alert].ver \in Nat /\ y.row.alert \in Alerts
        /\ Event("investigation_started", nextRun, x.row.by) \in trail'
    BY <1>3, <1>5, <2>2 DEF Inv, TypeInv, TypeOK, AlertRow, RunRow
  <2>5. Latest(y)
    <3>1. x.seen.ver = alerts[y.row.alert].ver
      BY <1>5, <2>2
    <3>2. CASE y.row.status = "QUEUED"
      BY <2>2, <2>4, <3>1, <3>2 DEF Latest
    <3>3. CASE y.row.status # "QUEUED"
      <4>1. y.seen.ver = alerts[y.row.alert].ver + 1
        BY <2>1, <2>2, <3>1, <3>3
      <4>2. QED BY <2>4, <4>1 DEF Latest
    <3>4. QED BY <3>2, <3>3
  <2>6. StoryOf(y, trail')
    <3>1. Agree(y.row, y.rec, y.approval) \/ y.pc = "executing"
      BY <2>2 DEF Agree
    <3>2. CASE y.pc = "flushed"
      <4>1. Audited(y.run, y.row, y.rec, y.approval, trail')
        BY <2>2, <2>4, <3>2 DEF Audited
      <4>2. QED BY <2>2, <2>3, <3>1, <3>2, <4>1 DEF StoryOf, CarriedOut
    <3>3. CASE y.pc = "executing"
      BY <2>2, <2>3, <2>4, <3>3 DEF StoryOf
    <3>4. QED BY <2>2, <3>2, <3>3
  <2>7. /\ ~KeyTaken(y.row.key)
        /\ \A t \in Sessions \ {s} :
              Owns(sess[t]) /\ y.row.key # None => sess[t].row.key # y.row.key
    BY <1>1, <1>5, <2>2 DEF StartFlush, KeyPending, OwnsNewRun, Owns
  <2>8. \A a \in Alerts : Locks(y, a) => \A t \in Sessions \ {s} : ~Locks(sess[t], a)
    BY <1>1, <2>2 DEF StartFlush, AlertFree, HoldsAlert, OwnsNewRun, Owns, Locks
  <2>9. \A a \in Alerts : ~Tended(a, y.run) /\ ~Awaited(a, y.run)
    BY <2>2, <2>3 DEF Tended, Awaited, Queued
  <2>10. QED BY <1>3, <1>5, <2>2, <2>5, <2>6, <2>7, <2>8, <2>9, MoveStep
<1>6. QED BY <1>1, <1>2, <1>4, <1>5 DEF StartFlush

(* Whoever claims a run sees its alert as it is.                           *)
LEMMA ClaimMove ==
    ASSUME Inv, RecordsInv, NEW s \in Sessions, NEW r \in Runs, Claim(s, r)
    PROVE  RecordsInv'
<1>1. PICK y : y = [IdleSession EXCEPT !.pc = "executing", !.run = r, !.row = runs[r],
                                       !.seen = alerts[runs[r].alert]]
  OBVIOUS
<1>2. runs[r] \in RunRow /\ alerts[runs[r].alert] \in AlertRow /\ runs[r] # None
  BY DEF Inv, Claim, Queued, TypeInv, TypeOK, RunRow
<1>3. /\ y \in Session /\ y.pc = "executing" /\ y.run = r /\ y.row = runs[r]
      /\ y.seen = alerts[runs[r].alert]
  BY <1>1, <1>2, IdleInSession DEF Session, PCs, IdleSession
<1>4. sess' = [sess EXCEPT ![s] = y] /\ UNCHANGED rows /\ trail' = trail
  BY <1>1 DEF Claim
<1>5. ~Owns(y) /\ Latest(y) /\ \A a : ~Locks(y, a)
  BY <1>2, <1>3 DEF Owns, Latest, Locks
<1>6. StoryOf(y, trail')
  <2>1. Event("investigation_started", r, runs[r].by) \in trail
    BY <1>2 DEF RecordsInv, RunStory, Audited
  <2>2. QED BY <1>3, <1>4, <1>5, <2>1 DEF StoryOf, SameRun
<1>7. \A a \in Alerts : Tended(a, y.run) /\ alerts[a].status = "INVESTIGATING" =>
         y.seen.status = "INVESTIGATING"
  BY <1>3 DEF Tended
<1>8. QED BY <1>3, <1>4, <1>5, <1>6, <1>7, MoveStep

LEMMA DecideMove ==
    ASSUME Inv, RecordsInv, NEW s \in Sessions, NEW u \in Users, NEW r \in Runs,
           NEW decision \in {"approve", "reject"}, Decide(s, u, r, decision)
    PROVE  RecordsInv'
<1> DEFINE status == IF decision = "approve" THEN "COMPLETED" ELSE "NEEDS_MANUAL_REVIEW"
           target == IF decision = "approve" THEN OutcomeStatus[recs[r].action]
                     ELSE "NEEDS_MANUAL_REVIEW"
           row == [runs[r] EXCEPT !.status = status]
           rec == [recs[r] EXCEPT !.status = DecidedStatus(decision)]
           approval == [by |-> u, decision |-> decision]
           event == Event(IF decision = "approve" THEN "recommendation_approve"
                          ELSE "recommendation_reject", r, u)
<1>1. PICK y : y = [pc |-> "deciding", run |-> r, row |-> row,
                    seen |-> alerts[runs[r].alert], target |-> target, rec |-> rec,
                    approval |-> approval]
  OBVIOUS
<1>2. /\ recs[r] \in RecRow /\ runs[r] \in RunRow /\ alerts[runs[r].alert] \in AlertRow
      /\ runs[r] # None /\ recs[r] # None /\ ~Queued(r)
  BY ConstantsAssumption
     DEF Inv, CaseInv, TableInv, Decide, TypeInv, TypeOK, RecHasRun, RunRow
<1>3. row \in RunRow /\ row.status = status /\ SameRun(row, runs[r])
  BY <1>2 DEF RunRow, WorkflowStatus, SameRun
<1>4. /\ rec \in RecRow /\ rec.status = DecidedStatus(decision)
      /\ rec.verified = recs[r].verified
  BY <1>2 DEF RecRow, RecStatus, DecidedStatus
<1>5. target \in AlertStatus /\ target \notin {"INVESTIGATING", "PENDING_APPROVAL"}
  BY <1>2 DEF RecRow, OutcomeStatus, Actions, AlertStatus
<1>6. approval \in ApprovalRow /\ approval.by = u /\ approval.decision = decision
  BY DEF ApprovalRow
<1>7. sess' = [sess EXCEPT ![s] = y] /\ UNCHANGED rows /\ trail' = trail \cup {event}
  BY <1>1 DEF Decide
<1>8. rec # None /\ approval # None
  BY <1>4, <1>6, ConstantsAssumption
<1>9. Agree(row, rec, approval)
  BY <1>3, <1>4, <1>6, <1>8 DEF Agree, DecidedStatus
<1>10. Audited(r, row, rec, approval, trail')
  <2>1. Audited(r, runs[r], recs[r], approvals[r], trail) /\ runs[r].status # "QUEUED"
    BY <1>2 DEF RecordsInv, RunStory, Queued
  <2>2. QED BY <1>2, <1>3, <1>6, <1>7, <1>8, <2>1 DEF Audited, SameRun
<1> HIDE DEF row, rec, target, approval, event
<1>11. /\ y \in Session /\ y.pc = "deciding" /\ y.run = r /\ y.row = row /\ y.rec = rec
       /\ y.seen = alerts[runs[r].alert] /\ y.target = target /\ y.approval = approval
  BY <1>1, <1>2, <1>3, <1>4, <1>5, <1>6 DEF Session, PCs
<1>12. ~Owns(y) /\ Latest(y) /\ \A a : ~Locks(y, a)
  BY <1>11 DEF Owns, Latest, Locks
<1>13. StoryOf(y, trail')
  BY <1>3, <1>5, <1>9, <1>10, <1>11 DEF StoryOf
<1>14. \A a \in Alerts : Awaited(a, y.run) /\ alerts[a].status = "PENDING_APPROVAL" =>
          y.seen.status = "PENDING_APPROVAL"
  BY <1>11 DEF Awaited
<1>15. QED BY <1>7, <1>11, <1>12, <1>13, <1>14, MoveStep

LEMMA DecideFlushMove ==
    ASSUME Inv, RecordsInv, NEW s \in Sessions, DecideFlush(s)
    PROVE  RecordsInv'
<1>1. PICK x : x = sess[s]
  OBVIOUS
<1>2. PICK y : y = [x EXCEPT !.pc = "flushed"]
  OBVIOUS
<1> DEFINE after == IF x.approval.decision = "approve"
                    THEN {Event("action_executed", x.run, x.approval.by)} ELSE {}
<1>3. /\ x \in Session /\ x.row \in RunRow /\ x.seen \in AlertRow /\ x.run \in Runs
      /\ x.rec \in RecRow /\ x.approval \in ApprovalRow /\ x.pc = "deciding"
      /\ SessionInv(x) /\ StoryOf(x, trail) /\ UNCHANGED rows
  BY <1>1 DEF DecideFlush, RecordsInv, Inv, CaseInv, TypeInv, TypeOK, SessionShape
<1>4. CASE sess' = [sess EXCEPT ![s] = IdleSession] /\ trail \subseteq trail'
  BY <1>3, <1>4, IdleMove
<1>5. CASE /\ FlushCase(s, x, {}, after) /\ Fresh(s, x)
  <2>1. /\ y \in Session /\ y.pc = "flushed" /\ y.run = x.run /\ y.row = x.row
        /\ y.seen = x.seen /\ y.target = x.target /\ y.rec = x.rec
        /\ y.approval = x.approval
    BY <1>2, <1>3 DEF Session, PCs
  <2>2. sess' = [sess EXCEPT ![s] = y] /\ trail' = trail \cup after
    BY <1>2, <1>5 DEF FlushCase
  <2>3. StoryOf(x, trail')
    BY <1>3, <2>2 DEF StoryOf, Audited
  <2>4. x.rec # None /\ x.approval # None
    BY <1>3, ConstantsAssumption
  <2>5. CarriedOut(x.run, x.row, x.rec, x.approval, trail')
    <3>1. CASE x.approval.decision = "approve"
      BY <2>2, <2>4, <3>1 DEF CarriedOut
    <3>2. CASE x.approval.decision # "approve"
      <4>1. Agree(x.row, x.rec, x.approval) /\ x.row.status # "QUEUED" /\ Undecided(x.run)
        BY <1>3 DEF StoryOf, SessionInv, PhaseInv
      <4>2. Authorised(x.row, x.rec, x.approval)
        BY <1>3, <2>4 DEF SessionInv
      <4>3. x.rec.status # "EXECUTED"
        BY <3>2, <4>2 DEF Authorised
      <4>4. x.approval.decision = "reject"
        BY <1>3, <3>2 DEF ApprovalRow
      <4>5. x.row.status = "FAILED" \/ x.rec.status = "REJECTED"
        BY <2>4, <4>1, <4>4 DEF Agree
      <4>6. QED BY <4>5 DEF CarriedOut
    <3>3. QED BY <3>1, <3>2
  <2>6. StoryOf(y, trail')
    BY <1>3, <2>1, <2>3, <2>5 DEF StoryOf, Holding
  <2>7. x.seen.ver \in Nat
    BY <1>3 DEF AlertRow
  <2>8. WritesAlert(y) => /\ AlertFree(s, y.row.alert)
                          /\ OwnsNewRun(s) \/ alerts[y.row.alert].ver <= y.seen.ver
    BY <1>5, <2>1, <2>7 DEF FlushCase, Fresh, WritesAlert
  <2>9. SameRun(y.row, x.row) /\ (x.seen.status # y.target => WritesAlert(y))
    BY <2>1 DEF SameRun, WritesAlert
  <2>10. y.target \notin {"INVESTIGATING", "PENDING_APPROVAL"}
    BY <1>3, <2>1 DEF StoryOf
  <2>11. y.seen.ver >= x.seen.ver
    BY <2>1, <2>7
  <2>12. trail \subseteq trail'
    BY <2>2
  <2>13. QED BY <1>1, <1>3, <2>1, <2>2, <2>6, <2>8, <2>9, <2>10, <2>11, <2>12, FlushMove
<1>6. QED BY <1>1, <1>3, <1>4, <1>5 DEF DecideFlush, FlushCase
(* A session that executes: what its end writes besides its own fields.    *)
LEMMA ExecutingSession ==
    ASSUME Inv, RecordsInv, NEW s \in Sessions, sess[s].pc = "executing"
    PROVE  LET x == sess[s] IN
           /\ x \in Session /\ x.row \in RunRow /\ x.seen \in AlertRow /\ x.run \in Runs
           /\ x.rec = None /\ x.approval = None /\ StoryOf(x, trail)
  BY DEF RecordsInv, Inv, CaseInv, TypeInv, TypeOK, SessionShape, SessionInv, PhaseInv

(* The end of an execution, with or without a recommendation.              *)
LEMMA FinishMove ==
    ASSUME Inv, RecordsInv, NEW s \in Sessions, sess[s].pc = "executing", UNCHANGED rows,
           NEW y \in Session, sess' = [sess EXCEPT ![s] = y], trail \subseteq trail',
           y.pc = "flushed", y.run = sess[s].run, y.row \in RunRow,
           SameRun(y.row, sess[s].row), y.row.status # "QUEUED", y.approval = None,
           y.seen \in AlertRow, y.seen.ver >= sess[s].seen.ver,
           sess[s].seen.status # y.target => y.seen.status # y.target,
           y.target # "INVESTIGATING",
           y.target = "PENDING_APPROVAL" =>
              y.rec # None /\ y.rec.status = "PENDING_APPROVAL" /\ y.rec.verified,
           Agree(y.row, y.rec, None), CarriedOut(y.run, y.row, y.rec, None, trail'),
           \/ y.rec # None /\ Event("recommendation_created", y.run, None) \in trail'
           \/ Event("workflow_escalated_to_human", y.run, None) \in trail',
           y.row.status = "FAILED" => Event("workflow_escalated_to_human", y.run, None) \in trail',
           WritesAlert(y) => /\ AlertFree(s, y.row.alert)
                             /\ OwnsNewRun(s) \/ alerts[y.row.alert].ver <= y.seen.ver
    PROVE  RecordsInv'
<1>1. PICK x : x = sess[s]
  OBVIOUS
<1>2. /\ x \in Session /\ x.row \in RunRow /\ x.run \in Runs /\ StoryOf(x, trail)
      /\ x.pc = "executing"
  BY <1>1, ExecutingSession
<1>3. SameRun(y.row, x.row) /\ y.run = x.run
  BY <1>1
<1>4. Audited(y.run, y.row, y.rec, None, trail')
  BY <1>2, <1>3 DEF Audited, StoryOf, SameRun
<1>5. runs[x.run] # None => SameRun(y.row, runs[x.run])
  BY <1>2, <1>3 DEF StoryOf, SameRun, Holding
<1>6. StoryOf(y, trail')
  BY <1>3, <1>4, <1>5 DEF StoryOf
<1>7. sess[s].seen.status # y.target => WritesAlert(y)
  BY DEF WritesAlert
<1>8. QED BY <1>6, <1>7, FlushMove

(* What FlushCase makes of an execution.                                   *)
LEMMA EndMove ==
    ASSUME Inv, RecordsInv, NEW s \in Sessions, sess[s].pc = "executing", UNCHANGED rows,
           NEW status \in WorkflowStatus, NEW target \in AlertStatus,
           NEW rec \in RecRow \cup {None}, NEW before, NEW after,
           NEW x,
           x = [sess[s] EXCEPT !.row = [sess[s].row EXCEPT !.status = status],
                               !.target = target, !.rec = rec],
           FlushCase(s, x, before, after),
           status # "QUEUED", target # "INVESTIGATING",
           Agree([sess[s].row EXCEPT !.status = status], rec, None),
           target = "PENDING_APPROVAL" =>
              rec # None /\ rec.status = "PENDING_APPROVAL" /\ rec.verified,
           \/ rec # None /\ Event("recommendation_created", sess[s].run, None) \in before
           \/ Event("workflow_escalated_to_human", sess[s].run, None) \in before,
           status = "FAILED" =>
              Event("workflow_escalated_to_human", sess[s].run, None) \in before,
           rec # None /\ rec.status \in {"EXECUTED", "AUTO_APPLIED"} /\ status # "FAILED" =>
              Event("action_executed", sess[s].run, None) \in after
    PROVE  RecordsInv'
<1>1. PICK z, row, seen, y :
         /\ z = sess[s] /\ row = [z.row EXCEPT !.status = status] /\ seen = z.seen
         /\ y = [x EXCEPT !.pc = "flushed"]
  OBVIOUS
<1>2. /\ z \in Session /\ z.row \in RunRow /\ seen \in AlertRow /\ z.run \in Runs
      /\ z.rec = None /\ z.approval = None
  BY <1>1, ExecutingSession
<1>3. row \in RunRow /\ row.status = status
  BY <1>1, <1>2 DEF RunRow
<1>4. y = [pc |-> "flushed", run |-> z.run, row |-> row, seen |-> seen,
           target |-> target, rec |-> rec, approval |-> None]
  BY <1>1, <1>2 DEF Session
<1>5. y \in Session
  BY <1>2, <1>3, <1>4 DEF Session, PCs
<1>6. x.target = target /\ x.seen = seen /\ x.row = row
  BY <1>1, <1>2 DEF Session
<1>7. CASE Fresh(s, x)
  <2>1. sess' = [sess EXCEPT ![s] = y] /\ trail' = trail \cup before \cup after
    BY <1>1, <1>7 DEF FlushCase
  <2>2. seen.ver \in Nat
    BY <1>2 DEF AlertRow
  <2>3. WritesAlert(y) => /\ AlertFree(s, y.row.alert)
                          /\ OwnsNewRun(s) \/ alerts[y.row.alert].ver <= seen.ver
    BY <1>4, <1>6, <1>7, <2>2 DEF FlushCase, Fresh, WritesAlert
  <2>4. CarriedOut(y.run, row, rec, None, trail')
    <3>1. /\ rec # None /\ rec.status \in {"EXECUTED", "AUTO_APPLIED"} /\ status # "FAILED"
          => Event("action_executed", z.run, None) \in trail'
      BY <1>1, <2>1
    <3>2. y.run = z.run
      BY <1>4
    <3>3. QED BY <1>3, <3>1, <3>2 DEF CarriedOut
  <2>5. seen.ver >= z.seen.ver /\ trail \subseteq trail'
    BY <1>1, <2>1, <2>2
  <2>6. /\ \/ rec # None /\ Event("recommendation_created", y.run, None) \in trail'
           \/ Event("workflow_escalated_to_human", y.run, None) \in trail'
        /\ status = "FAILED" => Event("workflow_escalated_to_human", y.run, None) \in trail'
    BY <1>1, <1>4, <2>1
  <2>7. Agree(row, rec, None)
    BY <1>1
  <2>8. SameRun(row, z.row)
    BY <1>1, <1>2 DEF SameRun, RunRow
  <2>9. /\ y.pc = "flushed" /\ y.run = z.run /\ y.row = row /\ y.seen = seen
        /\ y.target = target /\ y.rec = rec /\ y.approval = None
    BY <1>4
  <2>10. z = sess[s] /\ seen = z.seen
    BY <1>1
  <2>11. /\ y.run = sess[s].run /\ SameRun(y.row, sess[s].row) /\ y.seen.ver >= sess[s].seen.ver
         /\ (sess[s].seen.status # y.target => y.seen.status # y.target)
    BY <2>5, <2>8, <2>9, <2>10
  <2>12. /\ y.row \in RunRow /\ y.row.status = status /\ y.seen \in AlertRow
         /\ Agree(y.row, y.rec, None) /\ CarriedOut(y.run, y.row, y.rec, None, trail')
    BY <1>2, <1>3, <2>4, <2>7, <2>9
  <2>13. QED
    BY <1>5, <2>1, <2>3, <2>5, <2>6, <2>9, <2>11, <2>12, FinishMove
<1>8. CASE ~Fresh(s, x)
  <2>1. sess' = [sess EXCEPT ![s] = IdleSession] /\ trail \subseteq trail'
    BY <1>8 DEF FlushCase
  <2>2. QED BY <2>1, IdleMove
<1>9. QED BY <1>7, <1>8
LEMMA EscalateMove ==
    ASSUME Inv, RecordsInv, NEW s \in Sessions, NEW status \in {"NEEDS_MANUAL_REVIEW", "FAILED"},
           Escalate(s, status)
    PROVE  RecordsInv'
<1>1. PICK x : x = [sess[s] EXCEPT !.row.status = status, !.target = "NEEDS_MANUAL_REVIEW"]
  OBVIOUS
<1>2. PICK before : before = {Event("workflow_escalated_to_human", sess[s].run, None)}
  OBVIOUS
<1>3. /\ sess[s].pc = "executing" /\ UNCHANGED rows /\ FlushCase(s, x, before, {})
  BY <1>1, <1>2 DEF Escalate
<1>4. sess[s] \in Session /\ sess[s].row \in RunRow /\ sess[s].rec = None
  BY <1>3, ExecutingSession
<1>5. x = [sess[s] EXCEPT !.row = [sess[s].row EXCEPT !.status = status],
                          !.target = "NEEDS_MANUAL_REVIEW", !.rec = None]
  BY <1>1, <1>4 DEF Session
<1>6. Agree([sess[s].row EXCEPT !.status = status], None, None)
  BY <1>4 DEF Agree, RunRow
<1>7. status \in WorkflowStatus /\ "NEEDS_MANUAL_REVIEW" \in AlertStatus /\ status # "QUEUED"
  BY DEF WorkflowStatus, AlertStatus
<1>8. QED BY <1>2, <1>3, <1>5, <1>6, <1>7, EndMove

(* A new recommendation, the run's status and the alert's fit together.    *)
LEMMA NewRecAgrees ==
    ASSUME NEW action \in Actions, NEW c \in Cases, NEW verified \in BOOLEAN,
           NEW row \in RunRow
    PROVE  LET rec == NewRec(action, c, verified) IN
           /\ row.status = RunAfter(rec) => Agree(row, rec, None)
           /\ row.status = "FAILED" => Agree(row, rec, None)
           /\ RunAfter(rec) \notin {"QUEUED", "FAILED"}
           /\ AlertAfter(rec) # "INVESTIGATING"
           /\ AlertAfter(rec) = "PENDING_APPROVAL" =>
                 rec.status = "PENDING_APPROVAL" /\ rec.verified
<1>1. PICK rec : rec = NewRec(action, c, verified)
  OBVIOUS
<1>2. /\ rec \in RecRow /\ rec # None /\ rec.action = action /\ rec.verified = verified
      /\ rec.status = IF RequiresApproval(action, c, verified)
                       THEN "PENDING_APPROVAL" ELSE "AUTO_APPLIED"
  BY <1>1, NewRecType, ConstantsAssumption DEF NewRec
<1>3. ~verified => rec.status = "PENDING_APPROVAL"
  <2>1. ~verified => Blockers(action, c, verified) # {}
    BY DEF Blockers
  <2>2. QED BY <1>2, <2>1 DEF RequiresApproval
<1>4. rec.status \in {"PENDING_APPROVAL", "AUTO_APPLIED"}
  BY <1>2
<1>5. OutcomeStatus[action] \notin {"INVESTIGATING", "PENDING_APPROVAL"}
  BY DEF OutcomeStatus, Actions
<1>6. /\ RunAfter(rec) \notin {"QUEUED", "FAILED"}
      /\ AlertAfter(rec) # "INVESTIGATING"
      /\ AlertAfter(rec) = "PENDING_APPROVAL" => rec.status = "PENDING_APPROVAL" /\ rec.verified
  BY <1>2, <1>5 DEF RunAfter, AlertAfter
<1>7. row.status = RunAfter(rec) => Agree(row, rec, None)
  BY <1>2, <1>3, <1>4 DEF Agree, RunAfter
<1>8. row.status = "FAILED" => Agree(row, rec, None)
  BY <1>2 DEF Agree
<1>9. QED BY <1>1, <1>6, <1>7, <1>8

LEMMA RecommendMove ==
    ASSUME Inv, RecordsInv, NEW s \in Sessions, NEW action \in Proposals, NEW c \in Cases,
           NEW verified \in BOOLEAN, Recommend(s, action, c, verified)
    PROVE  RecordsInv'
<1>1. PICK rec : rec = NewRec(action, c, verified)
  OBVIOUS
<1>2. PICK status, target : status = RunAfter(rec) /\ target = AlertAfter(rec)
  OBVIOUS
<1>3. PICK x, before, after :
         /\ x = [sess[s] EXCEPT !.row.status = status, !.target = target, !.rec = rec]
         /\ before = {Event("recommendation_created", sess[s].run, None)}
         /\ after = IF rec.status = "AUTO_APPLIED"
                    THEN {Event("action_executed", sess[s].run, None)} ELSE {}
  OBVIOUS
<1>4. /\ sess[s].pc = "executing" /\ UNCHANGED rows /\ FlushCase(s, x, before, after)
  BY <1>1, <1>2, <1>3 DEF Recommend
<1>5. sess[s] \in Session /\ sess[s].row \in RunRow
  BY <1>4, ExecutingSession
<1>6. action \in Actions
  BY ConstantsAssumption
<1>7. rec \in RecRow /\ status \in WorkflowStatus /\ target \in AlertStatus /\ rec # None
  BY <1>1, <1>2, <1>6, NewRecType, ConstantsAssumption
<1>8. x = [sess[s] EXCEPT !.row = [sess[s].row EXCEPT !.status = status],
                          !.target = target, !.rec = rec]
  BY <1>3, <1>5 DEF Session
<1>9. [sess[s].row EXCEPT !.status = status] \in RunRow
  BY <1>5, <1>7 DEF RunRow
<1>10. [sess[s].row EXCEPT !.status = status].status = status
  BY <1>5 DEF RunRow
<1>11. /\ Agree([sess[s].row EXCEPT !.status = status], rec, None)
       /\ status \notin {"QUEUED", "FAILED"} /\ target # "INVESTIGATING"
       /\ target = "PENDING_APPROVAL" => rec.status = "PENDING_APPROVAL" /\ rec.verified
  BY <1>1, <1>2, <1>6, <1>9, <1>10, NewRecAgrees
<1>12. rec.status \in {"PENDING_APPROVAL", "AUTO_APPLIED"}
  BY <1>1 DEF NewRec
<1>13. /\ Event("recommendation_created", sess[s].run, None) \in before
       /\ rec.status \in {"EXECUTED", "AUTO_APPLIED"} =>
             Event("action_executed", sess[s].run, None) \in after
  BY <1>3, <1>12
<1>14. QED BY <1>4, <1>7, <1>8, <1>11, <1>13, EndMove

LEMMA RecommendUnauditedMove ==
    ASSUME Inv, RecordsInv, NEW s \in Sessions, NEW action \in Proposals, NEW c \in Cases,
           NEW verified \in BOOLEAN, RecommendUnaudited(s, action, c, verified)
    PROVE  RecordsInv'
<1>1. PICK rec : rec = NewRec(action, c, verified)
  OBVIOUS
<1>2. PICK x, before :
         /\ x = Failed(sess[s], rec)
         /\ before = {Event("workflow_escalated_to_human", sess[s].run, None)}
  OBVIOUS
<1>3. /\ sess[s].pc = "executing" /\ UNCHANGED rows /\ FlushCase(s, x, before, {})
  BY <1>1, <1>2 DEF RecommendUnaudited
<1>4. sess[s] \in Session /\ sess[s].row \in RunRow
  BY <1>3, ExecutingSession
<1>5. action \in Actions
  BY ConstantsAssumption
<1>6. rec \in RecRow /\ rec # None
  BY <1>1, <1>5, NewRecType, ConstantsAssumption
<1>7. x = [sess[s] EXCEPT !.row = [sess[s].row EXCEPT !.status = "FAILED"],
                          !.target = "NEEDS_MANUAL_REVIEW", !.rec = rec]
  BY <1>2, <1>4 DEF Session, Failed
<1>8. /\ [sess[s].row EXCEPT !.status = "FAILED"] \in RunRow
      /\ [sess[s].row EXCEPT !.status = "FAILED"].status = "FAILED"
  BY <1>4 DEF RunRow, WorkflowStatus
<1>9. Agree([sess[s].row EXCEPT !.status = "FAILED"], rec, None)
  BY <1>1, <1>5, <1>8, NewRecAgrees
<1>10. "FAILED" \in WorkflowStatus /\ "NEEDS_MANUAL_REVIEW" \in AlertStatus
  BY DEF WorkflowStatus, AlertStatus
<1>11. Event("workflow_escalated_to_human", sess[s].run, None) \in before
  BY <1>2
<1>12. QED BY <1>3, <1>6, <1>7, <1>9, <1>10, <1>11, EndMove

LEMMA ApplyUnauditedMove ==
    ASSUME Inv, RecordsInv, NEW s \in Sessions, NEW action \in Proposals, NEW c \in Cases,
           ApplyUnaudited(s, action, c)
    PROVE  RecordsInv'
<1>1. PICK x, rec, outcome : /\ x = sess[s] /\ rec = NewRec(action, c, TRUE)
                             /\ outcome = OutcomeStatus[action]
  OBVIOUS
<1>2. PICK row, seen :
         /\ row = [x.row EXCEPT !.status = "FAILED"]
         /\ seen = IF x.seen.status = outcome THEN x.seen
                   ELSE [x.seen EXCEPT !.status = outcome, !.ver = @ + 1]
  OBVIOUS
<1>3. PICK y : y = [Failed(x, rec) EXCEPT !.pc = "flushed", !.seen = seen]
  OBVIOUS
<1>4. /\ x.pc = "executing" /\ UNCHANGED rows
      /\ AlertFree(s, x.row.alert)
      /\ trail \subseteq trail'
      /\ \/ /\ OwnsNewRun(s) \/ alerts[x.row.alert].ver = x.seen.ver
            /\ sess' = [sess EXCEPT ![s] = y]
            /\ Event("workflow_escalated_to_human", x.run, None) \in trail'
         \/ sess' = [sess EXCEPT ![s] = IdleSession]
  BY <1>1, <1>2, <1>3 DEF ApplyUnaudited
<1>5. /\ x \in Session /\ x.row \in RunRow /\ x.seen \in AlertRow /\ x.run \in Runs
      /\ x.approval = None
  BY <1>1, <1>4, ExecutingSession
<1>6. action \in Actions
  BY ConstantsAssumption
<1>7. rec \in RecRow /\ rec # None
  BY <1>1, <1>6, NewRecType, ConstantsAssumption
<1>8. row \in RunRow /\ row.status = "FAILED" /\ row.alert = x.row.alert
  BY <1>2, <1>5 DEF RunRow, WorkflowStatus
<1>9. outcome \in AlertStatus /\ outcome # "NEEDS_MANUAL_REVIEW"
  BY <1>1, <1>6 DEF OutcomeStatus, Actions, AlertStatus
<1>10. seen \in AlertRow /\ seen.status = outcome /\ seen.ver >= x.seen.ver
  <2>1. x.seen.ver \in Nat
    BY <1>5 DEF AlertRow
  <2>2. CASE x.seen.status = outcome
    BY <1>2, <1>5, <2>1, <2>2
  <2>3. CASE x.seen.status # outcome
    <3>1. seen \in AlertRow /\ seen.status = outcome /\ seen.ver = x.seen.ver + 1
      <4>1. seen = [x.seen EXCEPT !.status = outcome, !.ver = @ + 1]
        BY <1>2, <2>3
      <4>2. QED BY <1>5, <1>9, <4>1, NextVersion
    <3>2. QED BY <2>1, <3>1
  <2>4. QED BY <2>2, <2>3
<1>11. y = [pc |-> "flushed", run |-> x.run, row |-> row, seen |-> seen,
            target |-> "NEEDS_MANUAL_REVIEW", rec |-> rec, approval |-> None]
  BY <1>2, <1>3, <1>5 DEF Failed, Session
<1>12. y \in Session
  BY <1>5, <1>7, <1>8, <1>10, <1>11 DEF Session, PCs, AlertStatus
<1>13. Agree(row, rec, None)
  BY <1>1, <1>6, <1>8, NewRecAgrees
<1>14. CASE /\ OwnsNewRun(s) \/ alerts[x.row.alert].ver = x.seen.ver
            /\ sess' = [sess EXCEPT ![s] = y]
            /\ Event("workflow_escalated_to_human", x.run, None) \in trail'
  <2>1. CarriedOut(y.run, row, rec, None, trail')
    BY <1>8 DEF CarriedOut
  <2>2. AlertFree(s, y.row.alert) /\ (OwnsNewRun(s) \/ alerts[y.row.alert].ver <= seen.ver)
    BY <1>4, <1>8, <1>10, <1>11, <1>14
  <2>3. "FAILED" \in WorkflowStatus /\ "NEEDS_MANUAL_REVIEW" \in AlertStatus /\ y.run = x.run
    BY <1>11 DEF WorkflowStatus, AlertStatus
  <2>4. seen.status # "NEEDS_MANUAL_REVIEW"
    BY <1>9, <1>10
  <2>5. SameRun(row, x.row)
    BY <1>2, <1>5 DEF SameRun, RunRow
  <2>6. /\ y.pc = "flushed" /\ y.run = sess[s].run /\ y.row = row /\ y.seen = seen
        /\ y.target = "NEEDS_MANUAL_REVIEW" /\ y.rec = rec /\ y.approval = None
    BY <1>1, <1>11
  <2>7. Event("workflow_escalated_to_human", y.run, None) \in trail'
    BY <1>14, <2>3
  <2>8. QED
    BY <1>1, <1>4, <1>7, <1>8, <1>10, <1>12, <1>13, <1>14, <2>1, <2>2, <2>4, <2>5, <2>6, <2>7,
       FinishMove
<1>15. CASE sess' = [sess EXCEPT ![s] = IdleSession]
  BY <1>4, <1>15, IdleMove
<1>16. QED BY <1>4, <1>14, <1>15
LEMMA ScoreAlertMove ==
    ASSUME Inv, RecordsInv, NEW a \in Alerts, ScoreAlert(a)
    PROVE  RecordsInv'
<1>1. UNCHANGED <<runs, recs, approvals, trail, sess>>
  BY DEF ScoreAlert
<1>2. PICK row \in AlertRow : /\ row.status = alerts[a].status
                              /\ alerts' = [alerts EXCEPT ![a] = row]
  <2> DEFINE row == [alerts[a] EXCEPT !.scored = TRUE, !.ver = @ + 1]
  <2>1. alerts[a] \in AlertRow
    BY DEF Inv, TypeInv, TypeOK
  <2>2. row \in AlertRow
    BY <2>1, NextVersion DEF AlertStatus
  <2>3. row.status = alerts[a].status
    BY <2>1 DEF AlertRow
  <2>4. alerts' = [alerts EXCEPT ![a] = row]
    BY DEF ScoreAlert, Inv, TypeInv, TypeOK, AlertRow
  <2>5. QED BY <2>2, <2>3, <2>4
<1>3. \A b \in Alerts : /\ alerts'[b].status = alerts[b].status
                        /\ b # a => alerts'[b] = alerts[b]
  BY <1>2 DEF Inv, TypeInv, TypeOK
<1>4. ASSUME NEW t \in Sessions PROVE (StoryOf(sess[t], trail) /\ Latest(sess[t]))'
  <2>1. StoryOf(sess[t], trail) /\ Latest(sess[t])
    BY DEF RecordsInv
  <2>2. StoryOf(sess[t], trail)'
    BY <1>1, <2>1 DEF StoryOf, Owns
  <2>3. ASSUME Locks(sess[t], sess[t].row.alert)
        PROVE  alerts'[sess[t].row.alert] = alerts[sess[t].row.alert]
    <3>1. sess[t].row.alert \in Alerts
      BY <2>3 DEF Locks, Inv, TypeInv, SessionShape, RunRow
    <3>2. sess[t].row.alert # a
      BY <2>3 DEF ScoreAlert, HoldsAlert, OwnsNewRun, Locks, Owns
    <3>3. QED BY <1>3, <3>1, <3>2
  <2>4. Latest(sess[t])'
    BY <1>1, <2>1, <2>3 DEF Latest, Locks, Owns
  <2>5. QED BY <2>2, <2>4
<1>5. \A r \in Runs : RunStory(r, trail)'
  BY <1>1 DEF RecordsInv, RunStory
<1>6. OneLock'
  BY <1>1 DEF RecordsInv, OneLock, Locks, Owns
<1>7. KeyInv'
  BY <1>1 DEF RecordsInv, KeyInv, OneRunPerKey, KeyTaken, Owns
<1>8. WaitInv'
  <2>1. \A b \in Alerts, r \in Runs : /\ Tended(b, r) => Tended(b, r)'
                                      /\ Awaited(b, r) => Awaited(b, r)'
    BY <1>1 DEF Tended, Awaited, Queued, MovesOn
  <2>2. QED BY <1>3, <2>1 DEF RecordsInv, WaitInv
<1>9. QED BY <1>4, <1>5, <1>6, <1>7, <1>8 DEF RecordsInv

(* What a commit does to the alerts.                                       *)
LEMMA CommitAlert ==
    ASSUME Inv, NEW s \in Sessions, Commit(s), NEW a \in Alerts
    PROVE  LET x == sess[s] IN
           /\ ~Locks(x, a) => alerts'[a] = alerts[a]
           /\ Locks(x, a) => /\ alerts'[a].status = x.target /\ x.row.alert = a
                             /\ alerts'[a].ver = x.seen.ver + 1
<1>1. PICK x, row : x = sess[s] /\ row = [x.seen EXCEPT !.status = x.target, !.ver = @ + 1]
  OBVIOUS
<1>2. x.seen \in AlertRow /\ x.target \in AlertStatus /\ x.row.alert \in Alerts
  BY <1>1 DEF Commit, Inv, TypeInv, SessionShape, RunRow
<1>3. row.status = x.target /\ row.ver = x.seen.ver + 1
  BY <1>1, <1>2, NextVersion
<1>4. alerts' = IF Locks(x, x.row.alert) THEN [alerts EXCEPT ![x.row.alert] = row] ELSE alerts
  BY <1>1 DEF Commit, HoldsAlert, OwnsNewRun, Locks, Owns
<1>5. Locks(x, a) <=> a = x.row.alert /\ Locks(x, x.row.alert)
  BY DEF Locks
<1>6. QED BY <1>1, <1>2, <1>3, <1>4, <1>5 DEF Inv, TypeInv, TypeOK

LEMMA CommitMove ==
    ASSUME Inv, RecordsInv, NEW s \in Sessions, Commit(s)
    PROVE  RecordsInv'
<1>1. PICK x, r : x = sess[s] /\ r = x.run
  OBVIOUS
<1>2. /\ x.row \in RunRow /\ x.row # None /\ r \in Runs /\ x.pc = "flushed"
      /\ runs'[r] = x.row /\ recs'[r] = x.rec /\ approvals'[r] = x.approval
      /\ \A q \in Runs \ {r} : /\ runs'[q] = runs[q] /\ recs'[q] = recs[q]
                              /\ approvals'[q] = approvals[q]
      /\ \A t \in Sessions : sess'[t] = IF t = s THEN IdleSession ELSE sess[t]
      /\ StoryOf(x, trail) /\ trail' = trail
  BY <1>1, CommitRow, ConstantsAssumption DEF RecordsInv, Commit
<1>3. \A a \in Alerts : /\ ~Locks(x, a) => alerts'[a] = alerts[a]
                        /\ Locks(x, a) => alerts'[a].status = x.target /\ x.row.alert = a
  BY <1>1, CommitAlert
<1>4. ASSUME NEW t \in Sessions \ {s}, sess[t].pc \in Holding
      PROVE  /\ sess[t].run \in Runs \ {r} /\ runs'[sess[t].run] = runs[sess[t].run]
             /\ sess[t].row \in RunRow
  <2>1. sess[t].run \in Runs /\ sess[t].row \in RunRow
    BY <1>4 DEF Inv, TypeInv, SessionShape, Holding
  <2>2. sess[t].run # r
    BY <1>1, <1>2, <1>4 DEF Inv, CaseInv, OneHolder, Holding
  <2>3. QED BY <1>2, <2>1, <2>2
<1>5. sess'[s].pc = "idle"
  BY <1>2 DEF IdleSession
<1>6. ASSUME NEW t \in Sessions
      PROVE  /\ Owns(sess[t])' <=> t # s /\ Owns(sess[t])
             /\ \A a : Locks(sess[t], a)' <=> t # s /\ Locks(sess[t], a)
  <2>1. CASE t = s
    BY <1>5, <2>1 DEF Owns, Locks
  <2>2. CASE t # s
    BY <1>2, <1>4, <2>2 DEF Owns, Locks, Holding
  <2>3. QED BY <2>1, <2>2
<1>7. ASSUME NEW t \in Sessions PROVE (StoryOf(sess[t], trail) /\ Latest(sess[t]))'
  <2>1. CASE t = s
    BY <1>5, <1>6, <2>1 DEF StoryOf, Latest, Holding
  <2>2. CASE t # s
    <3>1. sess'[t] = sess[t] /\ StoryOf(sess[t], trail) /\ Latest(sess[t])
      BY <1>2, <2>2 DEF RecordsInv
    <3>2. StoryOf(sess[t], trail)'
      BY <1>2, <1>4, <1>6, <2>2, <3>1 DEF StoryOf
    <3>3. ASSUME Locks(sess[t], sess[t].row.alert)
          PROVE  alerts'[sess[t].row.alert] = alerts[sess[t].row.alert]
      <4>1. sess[t].row.alert \in Alerts
        BY <1>4, <2>2, <3>3 DEF Locks, Holding, RunRow
      <4>2. ~Locks(x, sess[t].row.alert)
        BY <1>1, <2>2, <3>3, <4>1 DEF RecordsInv, OneLock
      <4>3. QED BY <1>3, <4>1, <4>2
    <3>4. Latest(sess[t])'
      BY <1>6, <3>1, <3>3 DEF Latest
    <3>5. QED BY <3>2, <3>4
  <2>3. QED BY <2>1, <2>2
<1>8. ASSUME NEW q \in Runs PROVE RunStory(q, trail)'
  <2>1. CASE q = r
    BY <1>1, <1>2, <2>1 DEF RunStory, StoryOf
  <2>2. CASE q # r
    BY <1>2, <2>2 DEF RecordsInv, RunStory
  <2>3. QED BY <2>1, <2>2
<1>9. OneLock'
  BY <1>6 DEF RecordsInv, OneLock
<1>10. KeyInv'
  <2>1. Owns(x) \/ (runs[r] # None /\ x.row.key = runs[r].key)
    BY <1>1, <1>2 DEF Owns, StoryOf, SameRun, Holding
  <2>2. ASSUME NEW q \in Runs \ {r}, runs[q] # None, x.row.key # None
        PROVE  runs[q].key # x.row.key
    BY <1>1, <1>2, <2>1, <2>2 DEF RecordsInv, KeyInv, KeyTaken, OneRunPerKey
  <2>3. OneRunPerKey'
    BY <1>2, <2>2 DEF RecordsInv, KeyInv, OneRunPerKey
  <2>4. ASSUME NEW t \in Sessions \ {s}, Owns(sess[t])
        PROVE  ~KeyTaken(sess[t].row.key)'
    <3>1. sess'[t] = sess[t] /\ ~KeyTaken(sess[t].row.key)
      BY <1>2, <2>4 DEF RecordsInv, KeyInv
    <3>2. sess[t].row.key # None => sess[t].row.key # x.row.key
      BY <1>1, <1>2, <2>1, <2>4, <3>1 DEF RecordsInv, KeyInv, KeyTaken
    <3>3. QED BY <1>2, <3>1, <3>2 DEF KeyTaken
  <2>5. ASSUME NEW t \in Sessions \ {s}, NEW u \in Sessions \ {s}, Owns(sess[t]), Owns(sess[u]),
               sess[t].row.key = sess[u].row.key, sess[t].row.key # None
        PROVE  t = u
    BY <2>5 DEF RecordsInv, KeyInv
  <2>6. QED BY <1>2, <1>6, <2>3, <2>4, <2>5 DEF KeyInv
<1>11. WaitInv'
  <2>1. ASSUME NEW t \in Sessions, sess'[t].pc \in Holding
        PROVE  t # s /\ sess'[t] = sess[t] /\ sess'[t].run # r
    BY <1>2, <1>4, <1>5, <2>1 DEF Holding
  <2>2. ASSUME NEW a \in Alerts, alerts'[a].status = "INVESTIGATING"
        PROVE  \E q \in Runs : Tended(a, q)'
    <3>1. CASE Locks(x, a)
      <4>1. x.row.status = "QUEUED" /\ x.row.alert = a
        BY <1>2, <1>3, <2>2, <3>1 DEF StoryOf
      <4>2. Tended(a, r)'
        BY <1>2, <2>1, <4>1 DEF Tended, Queued, Holding
      <4>3. QED BY <1>2, <4>2
    <3>2. CASE ~Locks(x, a)
      <4>1. PICK q \in Runs : Tended(a, q)
        BY <1>3, <2>2, <3>2 DEF RecordsInv, WaitInv
      <4>2. q # r
        BY <1>1, <1>2, <3>2, <4>1
           DEF Tended, Queued, MovesOn, Locks, StoryOf, SameRun, Holding
      <4>3. Tended(a, q)'
        BY <1>2, <2>1, <4>1, <4>2 DEF Tended, Queued, Holding, MovesOn
      <4>4. QED BY <4>3
    <3>3. QED BY <3>1, <3>2
  <2>3. ASSUME NEW a \in Alerts, alerts'[a].status = "PENDING_APPROVAL"
        PROVE  \E q \in Runs : Awaited(a, q)'
    <3>1. CASE Locks(x, a)
      <4>1. /\ x.rec # None /\ x.rec.status = "PENDING_APPROVAL" /\ x.rec.verified
            /\ x.row.alert = a
        BY <1>2, <1>3, <2>3, <3>1 DEF StoryOf
      <4>2. Awaited(a, r)'
        BY <1>2, <2>1, <4>1 DEF Awaited, Holding
      <4>3. QED BY <1>2, <4>2
    <3>2. CASE ~Locks(x, a)
      <4>1. PICK q \in Runs : Awaited(a, q)
        BY <1>3, <2>3, <3>2 DEF RecordsInv, WaitInv
      <4>2. runs[q] # None
        BY <4>1, ConstantsAssumption DEF Awaited, Inv, TypeInv, RecHasRun
      <4>3. q # r
        BY <1>1, <1>2, <3>2, <4>1, <4>2
           DEF Awaited, MovesOn, Locks, StoryOf, SameRun, Holding
      <4>4. Awaited(a, q)'
        BY <1>2, <2>1, <4>1, <4>3 DEF Awaited, Holding, MovesOn
      <4>5. QED BY <4>4
    <3>3. QED BY <3>1, <3>2
  <2>4. QED BY <2>2, <2>3 DEF WaitInv
<1>12. QED BY <1>7, <1>8, <1>9, <1>10, <1>11 DEF RecordsInv

LEMMA StepRecords == Inv /\ RecordsInv /\ [Next]_vars => RecordsInv'
<1> SUFFICES ASSUME Inv, RecordsInv, [Next]_vars PROVE RecordsInv'
  OBVIOUS
<1> USE DEF Sessions
<1>1. ASSUME NEW a \in Alerts, ScoreAlert(a) PROVE RecordsInv'
  BY <1>1, ScoreAlertMove
<1>2. ASSUME NEW s \in Requests, StartRequest(s) PROVE RecordsInv'
  BY <1>2, StartReadMove DEF StartRequest
<1>3. ASSUME NEW s \in Requests, StartFlush(s) PROVE RecordsInv'
  BY <1>3, StartFlushMove
<1>4. ASSUME NEW s \in Requests, DecideRequest(s) PROVE RecordsInv'
  BY <1>4, DecideMove DEF DecideRequest
<1>5. ASSUME NEW s \in Requests, DecideFlush(s) PROVE RecordsInv'
  BY <1>5, DecideFlushMove
<1>6. ASSUME NEW w \in Workers, ClaimOldest(w) PROVE RecordsInv'
  BY <1>6, ClaimMove DEF ClaimOldest
<1>7. ASSUME NEW s \in Sessions, Finish(s) PROVE RecordsInv'
  BY <1>7, EscalateMove, RecommendMove, RecommendUnauditedMove, ApplyUnauditedMove DEF Finish
<1>8. ASSUME NEW s \in Sessions, Commit(s) PROVE RecordsInv'
  BY <1>8, CommitMove
<1>9. ASSUME NEW s \in Sessions, Abort(s) PROVE RecordsInv'
  BY <1>9, IdleMove DEF Abort
<1>10. CASE UNCHANGED vars
  <2>1. UNCHANGED <<alerts, runs, recs, approvals, trail, sess>>
    BY <1>10 DEF vars
  <2>2. ASSUME NEW s \in Sessions PROVE (StoryOf(sess[s], trail) /\ Latest(sess[s]))'
    BY <2>1 DEF RecordsInv, StoryOf, Latest, Locks, Owns
  <2>3. ASSUME NEW r \in Runs PROVE RunStory(r, trail)'
    BY <2>1 DEF RecordsInv, RunStory
  <2>4. OneLock' /\ KeyInv'
    BY <2>1 DEF RecordsInv, OneLock, Locks, Owns, KeyInv, OneRunPerKey, KeyTaken
  <2>5. WaitInv'
    BY <2>1 DEF RecordsInv, WaitInv, Tended, Awaited, Queued, MovesOn
  <2>6. QED BY <2>2, <2>3, <2>4, <2>5 DEF RecordsInv
<1>11. QED
  BY <1>1, <1>2, <1>3, <1>4, <1>5, <1>6, <1>7, <1>8, <1>9, <1>10 DEF Next

(* Tables, audit trail, keys and alerts belong together in every reachable *)
(* state, and so do they with what each session is about to commit.        *)
THEOREM RecordsCorrect == Spec => []RecordsInv
<1>1. Init => RecordsInv
  BY InitRecords
<1>2. Inv /\ RecordsInv /\ [Next]_vars => RecordsInv'
  BY StepRecords
<1>3. QED BY <1>1, <1>2, Invariance, PTL DEF Spec

(* Run, recommendation and approval tell the same story at every commit.   *)
THEOREM RecordsAgree == Spec => []RunRecApprovalAgree
<1>1. Inv /\ RecordsInv => RunRecApprovalAgree
  <2> SUFFICES ASSUME Inv, RecordsInv, NEW r \in Runs
               PROVE  RunRecApprovalAgree!(r)
    BY DEF RunRecApprovalAgree
  <2>1. RunStory(r, trail) /\ TableInv
    BY DEF RecordsInv, Inv, CaseInv
  <2>2. QED BY <2>1 DEF RunStory, Agree, Executed, TableInv
<1>2. QED BY <1>1, Invariance, RecordsCorrect, PTL

(* Every committed fact has its audit event, by the right actor.           *)
THEOREM EverythingAudited == Spec => []OutcomesAudited
<1>1. Inv /\ RecordsInv => OutcomesAudited
  <2> SUFFICES ASSUME Inv, RecordsInv, NEW r \in Runs
               PROVE  OutcomesAudited!(r)
    BY DEF OutcomesAudited
  <2>1. RunStory(r, trail) /\ TableInv
    BY DEF RecordsInv, Inv, CaseInv
  <2>2. recs[r] # None => runs[r] # None
    BY ConstantsAssumption DEF Inv, TypeInv, RecHasRun
  <2>3. approvals[r] # None => runs[r] # None
    BY <2>1 DEF TableInv
  <2>4. QED BY <2>1, <2>2, <2>3 DEF RunStory, Audited, CarriedOut, Executed, Queued
<1>2. QED BY <1>1, Invariance, RecordsCorrect, PTL

(* An idempotency key never has two runs.                                  *)
THEOREM KeysUnique == Spec => []OneRunPerKey
<1>1. RecordsInv => OneRunPerKey
  BY DEF RecordsInv, KeyInv
<1>2. QED BY <1>1, RecordsCorrect, PTL

(* Whatever an alert waits for can still be executed or approved.          *)
THEOREM NothingOrphaned == Spec => []NoOrphanedAlert
<1>1. RecordsInv => NoOrphanedAlert
  BY DEF RecordsInv, WaitInv, Tended, Awaited, NoOrphanedAlert, NoOrphanedInvestigation,
         NoOrphanedApproval
<1>2. QED BY <1>1, RecordsCorrect, PTL

(* Every change of an alert is made on its latest version.                 *)
THEOREM NothingLost == Spec => NoLostUpdate
<1>1. ASSUME Inv, RecordsInv, Next, NEW a \in Alerts, alerts'[a] # alerts[a]
      PROVE  alerts'[a].ver >= alerts[a].ver + (IF SyncRunCommitted(a) THEN 2 ELSE 1)
  <2>0. alerts[a] \in AlertRow /\ alerts[a].ver \in Nat
    BY <1>1 DEF Inv, TypeInv, TypeOK, AlertRow
  <2>1. ASSUME NEW b \in Alerts, ScoreAlert(b)
        PROVE  alerts'[a].ver = alerts[a].ver + 1 /\ ~SyncRunCommitted(a)
    <3>1. alerts' = [alerts EXCEPT ![b] = [alerts[b] EXCEPT !.scored = TRUE, !.ver = @ + 1]]
      BY <1>1, <2>1 DEF ScoreAlert, Inv, TypeInv, TypeOK, AlertRow
    <3>2. a = b /\ alerts'[a].ver = alerts[a].ver + 1
      BY <1>1, <2>0, <3>1 DEF Inv, TypeInv, TypeOK, AlertRow
    <3>3. ~SyncRunCommitted(a)
      BY <2>1 DEF ScoreAlert, SyncRunCommitted
    <3>4. QED BY <3>2, <3>3
  <2>2. ASSUME NEW s \in Sessions, Commit(s)
        PROVE  alerts'[a].ver >= alerts[a].ver + (IF SyncRunCommitted(a) THEN 2 ELSE 1)
    <3>1. PICK x : x = sess[s]
      OBVIOUS
    <3>2. /\ Locks(x, a) /\ x.row.alert = a /\ alerts'[a].ver = x.seen.ver + 1
          /\ Latest(x) /\ x.seen.ver \in Nat
      <4>1. Latest(x) /\ x.pc = "flushed"
        BY <1>1, <2>2, <3>1 DEF RecordsInv, Commit
      <4>2. x.seen \in AlertRow
        BY <1>1, <3>1, <4>1 DEF Inv, TypeInv, SessionShape
      <4>3. x.seen.ver \in Nat
        BY <4>2 DEF AlertRow
      <4>4. /\ ~Locks(x, a) => alerts'[a] = alerts[a]
            /\ Locks(x, a) => x.row.alert = a /\ alerts'[a].ver = x.seen.ver + 1
        BY <1>1, <2>2, <3>1, CommitAlert
      <4>5. QED BY <1>1, <4>1, <4>3, <4>4
    <3>3. SyncRunCommitted(a) => Owns(x) /\ x.row.status # "QUEUED"
      <4> SUFFICES ASSUME SyncRunCommitted(a) PROVE Owns(x) /\ x.row.status # "QUEUED"
        OBVIOUS
      <4>1. PICK r \in Runs : runs[r] = None /\ runs'[r] # None /\ runs'[r].status # "QUEUED"
        BY DEF SyncRunCommitted
      <4>2. r = x.run /\ runs'[r] = x.row /\ x.pc = "flushed"
        BY <1>1, <2>2, <3>1, <4>1, CommitRow
      <4>3. QED BY <4>1, <4>2 DEF Owns
    <3>4. CASE SyncRunCommitted(a)
      <4>1. x.seen.ver >= alerts[a].ver + 1
        BY <3>2, <3>3, <3>4 DEF Latest
      <4>2. QED BY <2>0, <3>2, <3>4, <4>1
    <3>5. CASE ~SyncRunCommitted(a)
      <4>1. x.seen.ver >= alerts[a].ver
        BY <2>0, <3>2 DEF Latest
      <4>2. QED BY <2>0, <3>2, <3>5, <4>1
    <3>6. QED BY <3>4, <3>5
  <2>3. UNCHANGED alerts \/ (\E b \in Alerts : ScoreAlert(b)) \/ \E s \in Sessions : Commit(s)
    <3>1. ASSUME NEW s, StartRequest(s) \/ StartFlush(s) PROVE UNCHANGED rows
      BY <3>1 DEF StartRequest, StartRead, StartFlush
    <3>2. ASSUME NEW s, DecideRequest(s) \/ DecideFlush(s) PROVE UNCHANGED rows
      BY <3>2 DEF DecideRequest, Decide, DecideFlush
    <3>3. ASSUME NEW w, ClaimOldest(w) PROVE UNCHANGED rows
      BY <3>3 DEF ClaimOldest, Claim
    <3>4. ASSUME NEW s, Finish(s) \/ Abort(s) PROVE UNCHANGED rows
      BY <3>4 DEF Finish, Escalate, Recommend, RecommendUnaudited, ApplyUnaudited, Abort
    <3>5. UNCHANGED rows => UNCHANGED alerts
      BY DEF rows
    <3>6. QED BY <1>1, <3>1, <3>2, <3>3, <3>4, <3>5 DEF Next
  <2>4. QED BY <1>1, <2>0, <2>1, <2>2, <2>3
<1>2. Inv /\ RecordsInv /\ [Next]_vars =>
        [\A a \in Alerts : alerts'[a] # alerts[a] =>
            alerts'[a].ver >= alerts[a].ver + (IF SyncRunCommitted(a) THEN 2 ELSE 1)]_vars
  BY <1>1
<1>3. QED BY <1>2, Invariance, RecordsCorrect, PTL DEF Spec, NoLostUpdate
=============================================================================
