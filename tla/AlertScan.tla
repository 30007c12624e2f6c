----------------------------- MODULE AlertScan -----------------------------
(***************************************************************************)
(* The monitoring scan (data/alerting.py: run_scan) over the transactions  *)
(* that are loaded: jobs of their own, each in one database transaction,   *)
(* which may overlap one another and the loads.                            *)
(*                                                                         *)
(* Simplifications: the loop over the customers is one over the dates for  *)
(* all of them, for nothing of one customer is used for another; a date    *)
(* is the number of days since SIM_START; tenant_id is not given, as in    *)
(* app/pipeline.py.                                                        *)
(***************************************************************************)
EXTENDS Ingestion

CONSTANTS
    Scanners,            \* jobs that run the scan
    Dates,               \* scan_dates(): weekly from day 60 on
    OnboardedOn,         \* [Customers -> Nat], in days after SIM_START
    Sme,                 \* customers with segment "sme"
    SuppressionDays

ASSUME AlertScanAssumption ==
    /\ Dates \subseteq Nat /\ None \notin Dates /\ SuppressionDays \in Nat \ {0}
    /\ OnboardedOn \in [Customers -> Nat] /\ Sme \subseteq Customers

VARIABLES
    alerts,     \* committed: [customer, rule, date], which is the dedupe_key
    scan,       \* the scan of each job
    fired       \* history: what the rules said in scans that were committed

scanVars == <<alerts, scan, fired>>

AlertKey == [customer : Customers, rule : RuleCodes, date : Dates]

IdleScan ==
    [pc |-> "idle", frames |-> [c \in Customers |-> {}], existing |-> {}, dates |-> {},
     last |-> [k \in Customers \X RuleCodes |-> None], new |-> {}, fires |-> {}]

MovementOf(t) ==
    [id |-> t.id, day |-> t.day, amount |-> t.amount, in |-> t.in,
     channel |-> t.channel, highRisk |-> t.highRisk]

(* load_customer_frames                                                    *)
Frames ==
    [c \in Customers |->
       {MovementOf(transactions[id].row) :
          id \in {i \in Ids : transactions[i] # None /\ CustomerOf[transactions[i].row.account] = c}}]

StartScan(s) ==
    /\ scan[s].pc = "idle"
    /\ scan' = [scan EXCEPT ![s] = [IdleScan EXCEPT !.pc = "existing", !.frames = Frames]]
    /\ UNCHANGED <<alerts, fired>>

ReadExisting(s) ==
    /\ scan[s].pc = "existing"
    /\ scan' = [scan EXCEPT ![s].pc = "scanning", ![s].existing = alerts, ![s].dates = Dates]
    /\ UNCHANGED <<alerts, fired>>

(* The rules that fire for a date, each with its key.                      *)
FiresOn(s, date) ==
    UNION {{[customer |-> c, rule |-> r, date |-> date] :
              r \in Evaluate(scan[s].frames[c], date, OnboardedOn[c], c \in Sme)} :
           c \in {x \in Customers : scan[s].frames[x] # {}}}

(* Mutation: an alert of the last weeks suppresses the rule for good.      *)
SuppressedEver(s, key) == scan[s].last[<<key.customer, key.rule>>] # None

(* An alert of this scan, new or existing, is less than 28 days old.       *)
Suppressed(s, key) ==
    LET last == scan[s].last[<<key.customer, key.rule>>]
    IN  last # None /\ key.date - last < SuppressionDays

(* The dates come in order.                                                *)
ScanDate(s) ==
    \E date \in scan[s].dates :
       LET fires == FiresOn(s, date)
           raised == {k \in fires : ~ Suppressed(s, k)}
           Raised(c, r) == [customer |-> c, rule |-> r, date |-> date] \in raised
       IN  /\ scan[s].pc = "scanning"
           /\ \A d \in scan[s].dates : date <= d
           /\ scan' = [scan EXCEPT
                 ![s].dates = @ \ {date},
                 ![s].last = [k \in Customers \X RuleCodes |->
                                IF Raised(k[1], k[2]) THEN date ELSE scan[s].last[k]],
                 ![s].new = @ \cup (raised \ scan[s].existing),
                 ![s].fires = @ \cup fires]
           /\ UNCHANGED <<alerts, fired>>

(* INSERT of the alerts: it waits for another scan that has inserted one   *)
(* of them, and fails if it is there by now (dedupe_key is unique).        *)
Flush(s) ==
    /\ scan[s].pc = "scanning"
    /\ scan[s].dates = {}
    /\ scan[s].new \cap alerts = {}
    /\ \A q \in Scanners \ {s} : scan[q].pc = "flushed" => scan[q].new \cap scan[s].new = {}
    /\ scan' = [scan EXCEPT ![s].pc = "flushed"]
    /\ UNCHANGED <<alerts, fired>>

CommitScan(s) ==
    /\ scan[s].pc = "flushed"
    /\ alerts' = alerts \cup scan[s].new
    /\ fired' = fired \cup scan[s].fires
    /\ scan' = [scan EXCEPT ![s] = IdleScan]

RollbackScan(s) ==
    /\ scan[s].pc # "idle"
    /\ scan' = [scan EXCEPT ![s] = IdleScan]
    /\ UNCHANGED <<alerts, fired>>
-----------------------------------------------------------------------------
ScanInit ==
    /\ alerts = {} /\ fired = {}
    /\ scan = [s \in Scanners |-> IdleScan]

ScanStep ==
    \E s \in Scanners :
       \/ StartScan(s) \/ ReadExisting(s) \/ ScanDate(s)
       \/ Flush(s) \/ CommitScan(s) \/ RollbackScan(s)

MonitoringInit == IngestionInit /\ ScanInit

MonitoringNext ==
    \/ IngestionNext /\ UNCHANGED scanVars
    \/ ScanStep /\ UNCHANGED ingestionVars

MonitoringSpec == MonitoringInit /\ [][MonitoringNext]_<<ingestionVars, scanVars>>
-----------------------------------------------------------------------------
(* Properties                                                              *)

ScanState ==
    [pc : {"idle", "existing", "scanning", "flushed"},
     frames : [Customers -> SUBSET Movement(Ids)], existing : SUBSET AlertKey,
     dates : SUBSET Dates, last : [Customers \X RuleCodes -> Dates \cup {None}],
     new : SUBSET AlertKey, fires : SUBSET AlertKey]

ScanTypeOK ==
    /\ alerts \in SUBSET AlertKey /\ fired \in SUBSET AlertKey
    /\ scan \in [Scanners -> ScanState]

Covered(f, keys) ==
    \E a \in keys : /\ a.customer = f.customer /\ a.rule = f.rule
                    /\ a.date <= f.date /\ f.date - a.date < SuppressionDays

(* What a rule ever said of a customer in a scan that was committed is     *)
(* covered by an alert of that date or of less than 28 days before, though *)
(* scans overlap, fail and are run again with transactions loaded late     *)
(* (data/alerting.py:56-64).                                               *)
EveryFireCovered == \A f \in fired : Covered(f, alerts)
-----------------------------------------------------------------------------
(* The inductive invariant                                                 *)

(* last is the date of an alert, and before the dates to come; what fired  *)
(* so far has an alert of this scan or of those it read, which stay.       *)
ScanOk(x) ==
    /\ x.pc \in {"idle", "existing"} => x.fires = {} /\ x.new = {}
    /\ x.existing \subseteq alerts
    /\ \A c \in Customers, r \in RuleCodes : x.last[<<c, r>>] # None =>
         /\ [customer |-> c, rule |-> r, date |-> x.last[<<c, r>>]] \in x.new \cup x.existing
         /\ \A d \in x.dates : x.last[<<c, r>>] < d
         /\ x.pc \in {"scanning", "flushed"}
    /\ \A f \in x.fires : Covered(f, x.new \cup x.existing)

ScanInv == ScanTypeOK /\ EveryFireCovered /\ \A s \in Scanners : ScanOk(scan[s])

MonitoringInv == IngestionInv /\ ScanInv
=============================================================================
