-------------------------- MODULE MonitoringProofs --------------------------
(***************************************************************************)
(* Lineage is exact and no fire goes uncovered, for any files, loads and   *)
(* scans.                                                                  *)
(***************************************************************************)
EXTENDS AlertScan, FiniteSetTheorems, FunctionTheorems, TLAPS

LEMMA IdleScanOk == IdleScan \in ScanState /\ ScanOk(IdleScan)
BY DEF IdleScan, ScanState, ScanOk

LEMMA FramesType ==
    ASSUME IngestionTypeOK PROVE Frames \in [Customers -> SUBSET Movement(Ids)]
<1> SUFFICES ASSUME NEW id \in Ids, transactions[id] # None
             PROVE  MovementOf(transactions[id].row) \in Movement(Ids)
  BY DEF Frames
<1>1. transactions[id].row \in RowType
  BY IngestionAssumption DEF IngestionTypeOK, Transaction
<1>2. QED BY <1>1 DEF RowType, MovementOf, Movement

(* One scan changes, and what it relies on stays.                          *)
LEMMA OneScan ==
    ASSUME ScanInv, NEW s \in Scanners, NEW x \in ScanState, ScanOk(x),
           scan' = [scan EXCEPT ![s] = x], UNCHANGED <<alerts, fired>>
    PROVE  ScanInv'
<1>1. scan \in [Scanners -> ScanState]
  BY DEF ScanInv, ScanTypeOK
<1>2. ScanTypeOK'
  BY <1>1 DEF ScanInv, ScanTypeOK
<1>3. ASSUME NEW q \in Scanners PROVE ScanOk(scan[q])'
  BY <1>1 DEF ScanInv, ScanOk, Covered
<1>4. EveryFireCovered'
  BY DEF ScanInv, EveryFireCovered, Covered
<1>5. QED BY <1>2, <1>3, <1>4 DEF ScanInv

LEMMA StartScanStep ==
    ASSUME MonitoringInv, NEW s \in Scanners, StartScan(s)
    PROVE  ScanInv'
<1> DEFINE x == [IdleScan EXCEPT !.pc = "existing", !.frames = Frames]
<1>1. x \in ScanState
  BY FramesType, IdleScanOk DEF IdleScan, ScanState, MonitoringInv, IngestionInv
<1>2. ScanOk(x)
  BY DEF IdleScan, ScanOk
<1>3. scan' = [scan EXCEPT ![s] = x]
  BY DEF StartScan
<1> HIDE DEF x
<1>4. QED BY <1>1, <1>2, <1>3, OneScan DEF StartScan, MonitoringInv

LEMMA ReadExistingStep ==
    ASSUME ScanInv, NEW s \in Scanners, ReadExisting(s)
    PROVE  ScanInv'
<1> DEFINE y == scan[s]
           x == [y EXCEPT !.pc = "scanning", !.existing = alerts, !.dates = Dates]
<1>1. y \in ScanState /\ ScanOk(y) /\ alerts \in SUBSET AlertKey /\ y.pc = "existing"
  BY DEF ScanInv, ScanTypeOK, ReadExisting
<1>2. x \in ScanState
  BY <1>1 DEF ScanState
<1>3. /\ x.existing = alerts /\ x.last = y.last /\ x.new = y.new /\ x.fires = y.fires
      /\ x.pc = "scanning"
  BY <1>1 DEF ScanState
<1>4. ScanOk(x)
  BY <1>1, <1>3 DEF ScanOk, Covered
<1>5. scan' = [scan EXCEPT ![s] = x] /\ UNCHANGED <<alerts, fired>>
  BY DEF ReadExisting
<1> HIDE DEF x
<1>6. QED BY <1>2, <1>4, <1>5, OneScan

(* A fire is raised, or suppressed by an alert that covers it.             *)
LEMMA ScanDateStep ==
    ASSUME ScanInv, NEW s \in Scanners, ScanDate(s)
    PROVE  ScanInv'
<1>0. PICK date \in scan[s].dates : ScanDate(s)!(date)
  BY DEF ScanDate
<1> DEFINE y == scan[s]
           fires == FiresOn(s, date)
           raised == {k \in fires : ~ Suppressed(s, k)}
           Raised(c, r) == [customer |-> c, rule |-> r, date |-> date] \in raised
           last == [k \in Customers \X RuleCodes |-> IF Raised(k[1], k[2]) THEN date ELSE y.last[k]]
           x == [y EXCEPT !.dates = @ \ {date}, !.last = last,
                          !.new = @ \cup (raised \ y.existing), !.fires = @ \cup fires]
<1>1. /\ y \in ScanState /\ ScanOk(y) /\ y.pc = "scanning" /\ y.dates \subseteq Dates /\ date \in Nat
      /\ date \in Dates /\ \A d \in y.dates : date <= d /\ d \in Nat
  BY <1>0, AlertScanAssumption DEF ScanInv, ScanTypeOK, ScanState
<1>2. scan' = [scan EXCEPT ![s] = x] /\ UNCHANGED <<alerts, fired>>
  BY <1>0
<1>3. \A k \in fires : k \in AlertKey /\ k.date = date
  BY <1>1 DEF FiresOn, AlertKey, Evaluate
<1>4. last \in [Customers \X RuleCodes -> Dates \cup {None}]
  BY <1>1 DEF ScanState
<1>5. x \in ScanState
  <2>1. raised \subseteq AlertKey
    BY <1>3
  <2> HIDE DEF last, raised, fires
  <2>2. QED BY <1>1, <1>3, <1>4, <2>1 DEF ScanState
<1>6. /\ x.pc = "scanning" /\ x.dates = y.dates \ {date} /\ x.last = last /\ x.existing = y.existing
      /\ x.new = y.new \cup (raised \ y.existing) /\ x.fires = y.fires \cup fires
  <2> HIDE DEF last, raised, fires
  <2>1. QED BY <1>1 DEF ScanState
<1>7. x.new \cup x.existing = y.new \cup y.existing \cup raised
  BY <1>6
<1>8. \A c \in Customers, r \in RuleCodes :
         last[<<c, r>>] = IF Raised(c, r) THEN date ELSE y.last[<<c, r>>]
  <2> HIDE DEF raised
  <2>1. QED OBVIOUS
<1> HIDE DEF x
<1>9. ASSUME NEW c \in Customers, NEW r \in RuleCodes, x.last[<<c, r>>] # None
      PROVE  /\ [customer |-> c, rule |-> r, date |-> x.last[<<c, r>>]] \in x.new \cup x.existing
             /\ \A d \in x.dates : x.last[<<c, r>>] < d
  <2>1. CASE Raised(c, r)
    <3>1. x.last[<<c, r>>] = date
      BY <1>6, <1>8, <2>1
    <3>2. \A d \in x.dates : date < d
      BY <1>1, <1>6
    <3> HIDE DEF raised
    <3>3. QED BY <1>7, <2>1, <3>1, <3>2
  <2>2. CASE ~ Raised(c, r)
    <3>1. x.last[<<c, r>>] = y.last[<<c, r>>]
      BY <1>6, <1>8, <2>2
    <3> HIDE DEF raised
    <3>2. QED BY <1>1, <1>6, <1>7, <1>9, <3>1 DEF ScanOk
  <2>3. QED BY <2>1, <2>2
<1>10. ASSUME NEW k \in fires PROVE Covered(k, x.new \cup x.existing)
  <2>1. k \in AlertKey /\ k.date = date /\ k.customer \in Customers /\ k.rule \in RuleCodes
    BY <1>3 DEF AlertKey
  <2>2. CASE k \in raised
    <3>1. k \in x.new \cup x.existing
      BY <1>7, <2>2
    <3>2. QED BY <1>1, <2>1, <3>1, AlertScanAssumption DEF Covered
  <2>3. CASE k \notin raised
    <3> DEFINE l == y.last[<<k.customer, k.rule>>]
               a == [customer |-> k.customer, rule |-> k.rule, date |-> l]
    <3>1. l # None /\ date - l < SuppressionDays
      BY <2>1, <2>3 DEF Suppressed
    <3>2. a \in y.new \cup y.existing /\ l < date
      BY <1>0, <1>1, <2>1, <3>1 DEF ScanOk
    <3>3. l \in Nat
      BY <1>1, <2>1, <3>1, AlertScanAssumption DEF ScanState
    <3>4. a.customer = k.customer /\ a.rule = k.rule /\ a.date <= k.date
          /\ k.date - a.date < SuppressionDays
      BY <1>1, <2>1, <3>1, <3>2, <3>3
    <3>5. a \in x.new \cup x.existing
      BY <1>7, <3>2
    <3> HIDE DEF a
    <3>6. QED BY <3>4, <3>5 DEF Covered
  <2>4. QED BY <2>2, <2>3
<1>11. \A f \in y.fires : Covered(f, x.new \cup x.existing)
  BY <1>1, <1>7 DEF ScanOk, Covered
<1>12. \A f \in x.fires : Covered(f, x.new \cup x.existing)
  <2> HIDE DEF fires
  <2>1. QED BY <1>6, <1>10, <1>11
<1>13. ScanOk(x)
  BY <1>1, <1>6, <1>9, <1>12 DEF ScanOk
<1>14. QED BY <1>2, <1>5, <1>13, OneScan

LEMMA FlushStep ==
    ASSUME ScanInv, NEW s \in Scanners, Flush(s)
    PROVE  ScanInv'
<1> DEFINE y == scan[s]
           x == [y EXCEPT !.pc = "flushed"]
<1>1. y \in ScanState /\ ScanOk(y) /\ y.pc = "scanning"
  BY DEF ScanInv, ScanTypeOK, Flush
<1>2. x \in ScanState
  BY <1>1 DEF ScanState
<1>3. /\ x.pc = "flushed" /\ x.dates = y.dates /\ x.last = y.last /\ x.existing = y.existing
      /\ x.new = y.new /\ x.fires = y.fires
  BY <1>1 DEF ScanState
<1>4. ScanOk(x)
  BY <1>1, <1>3 DEF ScanOk, Covered
<1>5. scan' = [scan EXCEPT ![s] = x] /\ UNCHANGED <<alerts, fired>>
  BY DEF Flush
<1> HIDE DEF x
<1>6. QED BY <1>2, <1>4, <1>5, OneScan

LEMMA CommitScanStep ==
    ASSUME ScanInv, NEW s \in Scanners, CommitScan(s)
    PROVE  ScanInv'
<1> DEFINE y == scan[s]
<1>1. /\ y \in ScanState /\ ScanOk(y) /\ alerts' = alerts \cup y.new /\ fired' = fired \cup y.fires
      /\ scan' = [scan EXCEPT ![s] = IdleScan] /\ scan \in [Scanners -> ScanState]
  BY DEF ScanInv, ScanTypeOK, CommitScan
<1>2. ScanTypeOK'
  BY <1>1, IdleScanOk DEF ScanInv, ScanTypeOK, ScanState
<1>3. EveryFireCovered'
  BY <1>1 DEF ScanInv, EveryFireCovered, ScanOk, Covered
<1>4. ASSUME NEW q \in Scanners PROVE ScanOk(scan[q])'
  <2>1. CASE q = s
    BY <1>1, <2>1 DEF ScanOk, IdleScan
  <2>2. CASE q # s
    BY <1>1, <2>2 DEF ScanInv, ScanOk, Covered
  <2>3. QED BY <2>1, <2>2
<1>5. QED BY <1>2, <1>3, <1>4 DEF ScanInv

LEMMA ScanInductive ==
    ASSUME MonitoringInv, ScanStep
    PROVE  ScanInv'
<1>1. ASSUME NEW s \in Scanners, RollbackScan(s) PROVE ScanInv'
  BY <1>1, IdleScanOk, OneScan DEF RollbackScan, MonitoringInv
<1>2. QED BY <1>1, StartScanStep, ReadExistingStep, ScanDateStep, FlushStep, CommitScanStep
          DEF ScanStep, MonitoringInv
-----------------------------------------------------------------------------
LEMMA IdleLoadOk == IdleLoad \in LoadState /\ LoadOk(IdleLoad) /\ \A x : Apart(IdleLoad, x) /\ Apart(x, IdleLoad)
BY DEF IdleLoad, LoadState, LoadOk, Loading, Apart

LEMMA FileType ==
    ASSUME NEW file \in Files
    PROVE  /\ file.rows \in Seq(Rows) /\ file.columns \in BOOLEAN
           /\ DOMAIN file.rows = 1..Len(file.rows) /\ Len(file.rows) \in Nat
           /\ IsFiniteSet(DOMAIN file.rows)
           /\ Cardinality(DOMAIN file.rows) = Len(file.rows)
           /\ \A i \in DOMAIN file.rows : file.rows[i] \in RowType /\ file.rows[i] \in Rows
<1>1. file.rows \in Seq(Rows) /\ file.columns \in BOOLEAN
  BY IngestionAssumption
<1>2. DOMAIN file.rows = 1..Len(file.rows) /\ Len(file.rows) \in Nat
  BY <1>1
<1>3. IsFiniteSet(1..Len(file.rows)) /\ Cardinality(1..Len(file.rows)) = Len(file.rows)
  BY <1>2, FS_Interval
<1>4. \A i \in DOMAIN file.rows : file.rows[i] \in Rows
  BY <1>1
<1>5. QED BY <1>1, <1>2, <1>3, <1>4, IngestionAssumption

(* Cleaning leaves no two rows with one id.                                *)
LEMMA CleanIds ==
    ASSUME NEW file \in Files, NEW valid, valid \subseteq DOMAIN file.rows
    PROVE  /\ Clean(file, valid) \subseteq valid
           /\ \A i, j \in Clean(file, valid) : file.rows[i].id = file.rows[j].id => i = j
<1>1. DOMAIN file.rows \subseteq Int
  BY FileType
<1>2. QED BY <1>1 DEF Clean, DistinctIds

LEMMA FiniteParts ==
    ASSUME NEW file \in Files, NEW s, s \subseteq DOMAIN file.rows
    PROVE  IsFiniteSet(s) /\ Cardinality(s) \in Nat /\ s \in SUBSET Nat
BY FileType, FS_Subset, FS_CardinalityType

(* A loader changes, and nothing that is committed.                        *)
LEMMA OneLoad ==
    ASSUME IngestionInv, NEW p \in Loaders, NEW x \in LoadState,
           load' = [load EXCEPT ![p] = x], UNCHANGED <<customers, accounts, transactions, batches>>,
           nextBatch' \in Nat, nextBatch <= nextBatch',
           LoadOk(x), x.pc # "idle" => x.batch < nextBatch',
           \A q \in Loaders \ {p} : Apart(x, load[q]) /\ Apart(load[q], x)
    PROVE  IngestionInv'
<1>1. load \in [Loaders -> LoadState] /\ nextBatch \in Nat /\ batches \in SUBSET BatchType
      /\ transactions \in [Ids -> Transaction \cup {None}]
  BY DEF IngestionInv, IngestionTypeOK
<1>2. \A q \in Loaders : load'[q] = IF q = p THEN x ELSE load[q]
  BY <1>1
<1>3. IngestionTypeOK'
  BY <1>1 DEF IngestionInv, IngestionTypeOK
<1>4. LineageExact' /\ TransactionsOwned' /\ \A a \in accounts' : CustomerOf[a] \in customers'
  BY DEF IngestionInv, LineageExact, TransactionsOwned
<1>5. \A b \in batches' : b.id < nextBatch'
  BY <1>1 DEF IngestionInv, BatchType
<1>6. \A id \in Ids : transactions'[id] # None => transactions'[id].batch < nextBatch'
  BY <1>1, TransactionAssumption DEF IngestionInv, Transaction
<1>7. ASSUME NEW q \in Loaders PROVE LoadOk(load[q])'
  <2>1. LoadOk(load'[q])
    BY <1>2 DEF IngestionInv
  <2>2. QED BY <2>1 DEF LoadOk, Loading, BatchOk, Valid, Clean, DistinctIds, Near
<1>8. ASSUME NEW q \in Loaders, NEW r \in Loaders, q # r PROVE Apart(load[q], load[r])'
  <2>1. Apart(load'[q], load'[r])
    BY <1>2, <1>8 DEF IngestionInv
  <2>2. QED BY <2>1 DEF Apart
<1>9. \A q \in Loaders : load'[q].pc # "idle" => load'[q].batch < nextBatch'
  BY <1>1, <1>2 DEF IngestionInv, LoadState
<1>10. QED BY <1>3, <1>4, <1>5, <1>6, <1>7, <1>8, <1>9 DEF IngestionInv

LEMMA StartStep ==
    ASSUME IngestionInv, NEW p \in Loaders, NEW x \in LoadState,
           load[p].pc = "idle", load' = [load EXCEPT ![p] = x], nextBatch' = nextBatch + 1,
           UNCHANGED <<customers, accounts, transactions, batches>>,
           x.pc = "received", x.file \in Files, x.batch = nextBatch,
           x.valid = {}, x.todo = {}, x.inserted = {},
           \A a \in x.accounts : CustomerOf[a] \in customers \cup x.customers,
           \A b \in x.finished : b.id = nextBatch /\ b.entity # "transactions"
    PROVE  IngestionInv'
<1>1. nextBatch \in Nat /\ batches \in SUBSET BatchType /\ load \in [Loaders -> LoadState]
      /\ transactions \in [Ids -> Transaction \cup {None}]
  BY DEF IngestionInv, IngestionTypeOK
<1>2. LoadOk(x)
  <2>1. \A b \in batches : b.id # nextBatch
    BY <1>1 DEF IngestionInv, BatchType
  <2>2. \A id \in Ids : transactions[id] # None => transactions[id].batch # nextBatch
    BY <1>1, TransactionAssumption DEF IngestionInv, Transaction
  <2>3. QED BY <2>1, <2>2 DEF LoadOk, Loading
<1>3. \A q \in Loaders \ {p} : Apart(x, load[q]) /\ Apart(load[q], x)
  BY <1>1 DEF IngestionInv, Apart, LoadState
<1>4. nextBatch' \in Nat /\ nextBatch <= nextBatch' /\ x.batch < nextBatch'
  BY <1>1
<1>5. QED BY <1>2, <1>3, <1>4, OneLoad

LEMMA ReceiveStep ==
    ASSUME IngestionInv, NEW p \in Requests, NEW file \in Files, Receive(p, file)
    PROVE  IngestionInv'
<1> DEFINE x == Start(file, nextBatch)
<1>1. /\ x.pc = "received" /\ x.file = file /\ x.batch = nextBatch /\ x.valid = {} /\ x.todo = {}
      /\ x.inserted = {} /\ x.accounts = {} /\ x.customers = {} /\ x.finished = {}
  BY DEF Start, IdleLoad
<1>2. x \in LoadState
  BY DEF Start, IdleLoad, LoadState, IngestionInv, IngestionTypeOK
<1>3. /\ load' = [load EXCEPT ![p] = x] /\ nextBatch' = nextBatch + 1 /\ load[p].pc = "idle"
      /\ UNCHANGED <<customers, accounts, transactions, batches>> /\ p \in Loaders
  BY DEF Receive, Loaders
<1> HIDE DEF x
<1>4. /\ \A a \in x.accounts : CustomerOf[a] \in customers \cup x.customers
      /\ \A b \in x.finished : b.id = nextBatch /\ b.entity # "transactions"
      /\ x.file \in Files
  BY <1>1
<1>5. QED BY <1>1, <1>2, <1>3, <1>4, StartStep

LEMMA RollbackLoadStep ==
    ASSUME IngestionInv, NEW p \in Loaders, RollbackLoad(p)
    PROVE  IngestionInv'
<1>1. nextBatch' = nextBatch /\ nextBatch \in Nat
  BY DEF RollbackLoad, IngestionInv, IngestionTypeOK
<1>2. IdleLoad.pc = "idle"
  BY DEF IdleLoad
<1>3. /\ load' = [load EXCEPT ![p] = IdleLoad]
      /\ UNCHANGED <<customers, accounts, transactions, batches>>
  BY DEF RollbackLoad
<1>4. nextBatch' \in Nat /\ nextBatch <= nextBatch'
  BY <1>1
<1>5. QED BY <1>2, <1>3, <1>4, IdleLoadOk, OneLoad

LEMMA StartDirectoryStep ==
    ASSUME IngestionInv, StartDirectory
    PROVE  IngestionInv'
<1> DEFINE newCustomers == Directory.customers \ customers
           newAccounts == Directory.accounts \ accounts
           finished ==
              {Batch(nextBatch, "customers", "SUCCEEDED",
                     Cardinality(Directory.customers) + Directory.badCustomers,
                     Cardinality(newCustomers), Directory.badCustomers,
                     Cardinality(Directory.customers \ newCustomers)),
               Batch(nextBatch, "accounts", "SUCCEEDED",
                     Cardinality(Directory.accounts) + Directory.badAccounts,
                     Cardinality(newAccounts), Directory.badAccounts, 0)}
           x == [Start(Directory.transactions, nextBatch) EXCEPT
                   !.customers = newCustomers, !.accounts = newAccounts, !.finished = finished]
<1>1. /\ Directory.customers \subseteq Customers /\ Directory.accounts \subseteq Accounts
      /\ Directory.badCustomers \in Nat /\ Directory.badAccounts \in Nat
      /\ Directory.transactions \in Files /\ nextBatch \in Nat
  BY IngestionAssumption DEF IngestionInv, IngestionTypeOK
<1>2. \A s : s \subseteq Directory.customers \/ s \subseteq Directory.accounts => Cardinality(s) \in Nat
  <2> SUFFICES ASSUME NEW s, s \in SUBSET Customers \/ s \in SUBSET Accounts
               PROVE  Cardinality(s) \in Nat
    BY <1>1
  <2>1. IsFiniteSet(s)
    BY IngestionAssumption, FS_Subset
  <2>2. QED BY <2>1, FS_CardinalityType
<1>3. finished \in SUBSET BatchType /\ \A b \in finished : b.id = nextBatch /\ b.entity # "transactions"
  BY <1>1, <1>2 DEF Batch, BatchType
<1>4. /\ load' = [load EXCEPT ![Job] = x] /\ nextBatch' = nextBatch + 1 /\ load[Job].pc = "idle"
      /\ UNCHANGED <<customers, accounts, transactions, batches>> /\ Job \in Loaders
  BY DEF StartDirectory, Loaders
<1> HIDE DEF finished
<1>5. /\ x.pc = "received" /\ x.file = Directory.transactions /\ x.batch = nextBatch /\ x.valid = {}
      /\ x.todo = {} /\ x.inserted = {} /\ x.accounts = newAccounts /\ x.customers = newCustomers
      /\ x.finished = finished
  BY DEF Start, IdleLoad
<1>6. x \in LoadState
  BY <1>1, <1>3 DEF Start, IdleLoad, LoadState
<1>7. \A a \in x.accounts : CustomerOf[a] \in customers \cup x.customers
  BY <1>5, IngestionAssumption
<1>8. /\ \A b \in x.finished : b.id = nextBatch /\ b.entity # "transactions"
      /\ x.file \in Files
  BY <1>1, <1>3, <1>5
<1> HIDE DEF x
<1>9. QED BY <1>4, <1>5, <1>6, <1>7, <1>8, StartStep

(* A batch that has failed, or counts what was inserted, closes a load.    *)
LEMMA FinishStep ==
    ASSUME IngestionInv, NEW p \in Loaders, NEW status, NEW loaded, NEW rejected, NEW duplicate,
           load' = [load EXCEPT ![p] = Finished(p, status, loaded, rejected, duplicate)],
           UNCHANGED <<customers, accounts, transactions, batches, nextBatch>>,
           load[p].pc \in {"received", "loading"},
           Batch(load[p].batch, "transactions", status, Len(load[p].file.rows), loaded, rejected,
                 duplicate) \in BatchType,
           loaded = Cardinality(load[p].inserted),
           status = "SUCCEEDED" => loaded + rejected + duplicate = Len(load[p].file.rows),
           status # "SUCCEEDED" => load[p].inserted = {}
    PROVE  IngestionInv'
<1> DEFINE y == load[p]
           new == Batch(y.batch, "transactions", status, Len(y.file.rows), loaded, rejected, duplicate)
           x == Finished(p, status, loaded, rejected, duplicate)
<1>1. y \in LoadState /\ LoadOk(y) /\ nextBatch \in Nat /\ y.batch < nextBatch
  BY DEF IngestionInv, IngestionTypeOK
<1>2. /\ x.pc = "finished" /\ x.finished = y.finished \cup {new} /\ x.file = y.file
      /\ x.batch = y.batch /\ x.valid = y.valid /\ x.todo = y.todo /\ x.inserted = y.inserted
      /\ x.customers = y.customers /\ x.accounts = y.accounts
  BY <1>1 DEF Finished, LoadState
<1>3. x \in LoadState
  BY <1>1 DEF Finished, LoadState
<1>4. /\ new.id = y.batch /\ new.entity = "transactions" /\ new.status = status
      /\ new.loaded = loaded /\ new.rejected = rejected /\ new.duplicate = duplicate
      /\ new.received = Len(y.file.rows)
  BY DEF Batch
<1> HIDE DEF x, new
<1>5. BatchOk(x, new)
  BY <1>2, <1>4 DEF BatchOk
<1>6. \A b \in y.finished : b.entity # "transactions" /\ b.id = y.batch
  BY <1>1 DEF LoadOk
<1>7. y.pc = "received" => y.inserted = {}
  BY <1>1 DEF LoadOk, Loading
<1>8. LoadOk(x)
  BY <1>1, <1>2, <1>4, <1>5, <1>6, <1>7 DEF LoadOk, Loading
<1>9. \A q \in Loaders \ {p} : Apart(x, load[q]) /\ Apart(load[q], x)
  BY <1>2 DEF IngestionInv, Apart
<1>10. /\ nextBatch' \in Nat /\ nextBatch <= nextBatch' /\ x.batch < nextBatch'
       /\ load' = [load EXCEPT ![p] = x]
  BY <1>1, <1>2 DEF x
<1>11. QED BY <1>3, <1>8, <1>9, <1>10, OneLoad

LEMMA ValidateStep ==
    ASSUME IngestionInv, NEW p \in Loaders, Validate(p)
    PROVE  IngestionInv'
<1> DEFINE y == load[p]
           file == y.file
           valid == ValidRows(file, accounts \cup y.accounts)
           rejected == Cardinality(DOMAIN file.rows \ valid)
<1>1. /\ y \in LoadState /\ LoadOk(y) /\ y.pc = "received" /\ nextBatch \in Nat /\ y.batch < nextBatch
      /\ UNCHANGED <<customers, accounts, transactions, batches, nextBatch>>
  BY DEF IngestionInv, IngestionTypeOK, Validate
<1>2. file \in Files /\ y.inserted = {} /\ y.batch \in Nat
  BY <1>1 DEF LoadOk, Loading, LoadState
<1>3. valid \subseteq DOMAIN file.rows
  BY DEF ValidRows
<1>4. rejected \in Nat /\ Len(file.rows) \in Nat /\ valid \in SUBSET Nat /\ Cardinality(y.inserted) = 0
  <2>1. DOMAIN file.rows \ valid \subseteq DOMAIN file.rows
    OBVIOUS
  <2> HIDE DEF valid
  <2>2. rejected \in Nat /\ valid \in SUBSET Nat
    BY <1>2, <1>3, <2>1, FiniteParts
  <2>3. Len(file.rows) \in Nat
    BY <1>2, FileType
  <2>4. Cardinality(y.inserted) = 0
    BY <1>2, FS_EmptySet
  <2>5. QED BY <2>2, <2>3, <2>4
<1>5. CASE load' = [load EXCEPT ![p] = Finished(p, "FAILED_SCHEMA", 0, 0, 0)]
  <2>1. Batch(y.batch, "transactions", "FAILED_SCHEMA", Len(file.rows), 0, 0, 0) \in BatchType
    BY <1>2, <1>4 DEF Batch, BatchType
  <2>2. QED BY <1>1, <1>2, <1>4, <1>5, <2>1, FinishStep
<1>6. CASE load' = [load EXCEPT ![p] = Finished(p, "FAILED_QUALITY_GATE", 0, rejected, 0)]
  <2> HIDE DEF rejected
  <2>1. Batch(y.batch, "transactions", "FAILED_QUALITY_GATE", Len(file.rows), 0, rejected, 0) \in BatchType
    BY <1>2, <1>4 DEF Batch, BatchType
  <2>2. QED BY <1>1, <1>2, <1>4, <1>6, <2>1, FinishStep
<1>7. CASE load' = [load EXCEPT ![p].pc = "loading", ![p].valid = valid,
                                ![p].todo = Clean(file, valid)]
  <2> DEFINE clean == Clean(file, valid)
             x == [y EXCEPT !.pc = "loading", !.valid = valid, !.todo = clean]
  <2>1. clean \subseteq valid
    BY <1>2, <1>3, CleanIds
  <2>2. \A i \in valid : Valid(file.rows[i], accounts \cup y.accounts)
    BY DEF ValidRows
  <2>3. load' = [load EXCEPT ![p] = x]
    BY <1>7
  <2> HIDE DEF valid, clean
  <2>4. x \in LoadState
    BY <1>1, <1>4, <2>1 DEF LoadState
  <2>5. /\ x.pc = "loading" /\ x.valid = valid /\ x.todo = clean /\ x.file = file
        /\ x.batch = y.batch /\ x.inserted = y.inserted /\ x.customers = y.customers
        /\ x.accounts = y.accounts /\ x.finished = y.finished
    BY <1>1 DEF LoadState
  <2> HIDE DEF x
  <2>6. LoadOk(x)
    BY <1>1, <1>2, <1>3, <2>1, <2>2, <2>5 DEF LoadOk, Loading, clean
  <2>7. \A q \in Loaders \ {p} : Apart(x, load[q]) /\ Apart(load[q], x)
    BY <1>1, <1>2, <2>5 DEF IngestionInv, Apart
  <2>8. nextBatch' \in Nat /\ nextBatch <= nextBatch' /\ x.batch < nextBatch'
    BY <1>1, <2>5
  <2>9. QED BY <1>1, <2>3, <2>4, <2>6, <2>7, <2>8, OneLoad
<1>8. QED BY <1>5, <1>6, <1>7 DEF Validate

(* The row that is inserted has an id that nobody has, committed or not.   *)
LEMMA InsertStep ==
    ASSUME IngestionInv, NEW p \in Loaders, Insert(p)
    PROVE  IngestionInv'
<1> DEFINE y == load[p]
<1>0. PICK i \in y.todo : Insert(p)!(i)
  BY DEF Insert
<1> DEFINE id == y.file.rows[i].id
           inserted == IF transactions[id] = None THEN y.inserted \cup {i} ELSE y.inserted
           x == [y EXCEPT !.todo = @ \ {i}, !.inserted = inserted]
<1>1. /\ y \in LoadState /\ LoadOk(y) /\ y.pc = "loading" /\ nextBatch \in Nat /\ y.batch < nextBatch
      /\ UNCHANGED <<customers, accounts, transactions, batches, nextBatch>>
      /\ \A q \in Loaders \ {p} : id \notin Uncommitted(q)
  BY <1>0 DEF IngestionInv, IngestionTypeOK
<1>2. load' = [load EXCEPT ![p] = x]
  BY <1>0
<1>3. /\ y.file \in Files /\ y.inserted \cup y.todo \subseteq Clean(y.file, y.valid)
      /\ i \in y.valid /\ i \in Nat /\ y.valid \subseteq DOMAIN y.file.rows
  BY <1>1 DEF LoadOk, LoadState
<1>4. x \in LoadState
  BY <1>1, <1>3 DEF LoadState
<1>5. /\ x.pc = "loading" /\ x.valid = y.valid /\ x.todo = y.todo \ {i} /\ x.file = y.file
      /\ x.batch = y.batch /\ x.inserted = inserted /\ x.customers = y.customers
      /\ x.accounts = y.accounts /\ x.finished = y.finished
  BY <1>1 DEF LoadState
<1> HIDE DEF x
<1>6. LoadOk(x)
  <2>1. \A j \in inserted : transactions[y.file.rows[j].id] = None
    BY <1>1 DEF LoadOk
  <2>2. inserted \cap (y.todo \ {i}) = {} /\ inserted \cup (y.todo \ {i}) \subseteq Clean(y.file, y.valid)
        /\ inserted \subseteq y.valid
    BY <1>1, <1>3 DEF LoadOk
  <2> HIDE DEF inserted
  <2>3. QED BY <1>1, <1>3, <1>5, <2>1, <2>2 DEF LoadOk, Loading
<1>7. ASSUME NEW q \in Loaders \ {p} PROVE Apart(x, load[q]) /\ Apart(load[q], x)
  <2>1. \A j \in load[q].inserted : load[q].file.rows[j].id # id
    BY <1>1 DEF Uncommitted, RowsOf
  <2>2. Apart(y, load[q]) /\ Apart(load[q], y)
    BY DEF IngestionInv
  <2>3. QED BY <1>1, <1>5, <2>1, <2>2 DEF Apart
<1>8. nextBatch' \in Nat /\ nextBatch <= nextBatch' /\ x.batch < nextBatch'
  BY <1>1, <1>5
<1>9. QED BY <1>1, <1>2, <1>4, <1>6, <1>7, <1>8, OneLoad

(* Every row received is rejected, a duplicate or inserted.                *)
LEMMA EndLoadStep ==
    ASSUME IngestionInv, NEW p \in Loaders, EndLoad(p)
    PROVE  IngestionInv'
<1> DEFINE y == load[p]
           rows == DOMAIN y.file.rows
           clean == Clean(y.file, y.valid)
           rejected == Cardinality(rows \ y.valid)
           loaded == Cardinality(y.inserted)
           duplicate == Cardinality(y.valid \ clean) + Cardinality(clean) - loaded
<1>1. /\ y \in LoadState /\ LoadOk(y) /\ y.pc = "loading"
      /\ UNCHANGED <<customers, accounts, transactions, batches, nextBatch>>
      /\ load' = [load EXCEPT ![p] = Finished(p, "SUCCEEDED", loaded, rejected, duplicate)]
  BY DEF IngestionInv, IngestionTypeOK, EndLoad, Loaded
<1>2. y.file \in Files /\ y.valid \subseteq rows /\ y.inserted \subseteq clean /\ y.batch \in Nat
  BY <1>1 DEF LoadOk, LoadState
<1>3. clean \subseteq y.valid
  BY <1>2, CleanIds
<1>4. IsFiniteSet(rows) /\ Cardinality(rows) = Len(y.file.rows) /\ Len(y.file.rows) \in Nat
  BY <1>2, FileType
<1>5. IsFiniteSet(y.valid) /\ IsFiniteSet(clean) /\ Cardinality(y.valid) \in Nat
      /\ Cardinality(clean) \in Nat /\ loaded \in Nat /\ rejected \in Nat
      /\ Cardinality(y.valid \ clean) \in Nat
  BY <1>2, <1>3, FiniteParts
<1>6. rejected = Len(y.file.rows) - Cardinality(y.valid)
  <2>1. rows \cap y.valid = y.valid
    BY <1>2
  <2> HIDE DEF rows
  <2>2. rejected = Cardinality(rows) - Cardinality(rows \cap y.valid)
    BY <1>4, FS_Difference
  <2>3. QED BY <1>4, <2>1, <2>2
<1>7. Cardinality(y.valid \ clean) = Cardinality(y.valid) - Cardinality(clean)
  <2>1. y.valid \cap clean = clean
    BY <1>3
  <2>2. QED BY <1>5, <2>1, FS_Difference
<1>8. loaded <= Cardinality(clean)
  BY <1>2, <1>5, FS_Subset
<1> HIDE DEF rejected, loaded, clean
<1>9. duplicate \in Nat /\ loaded + rejected + duplicate = Len(y.file.rows)
  <2> DEFINE v == Cardinality(y.valid)
             c == Cardinality(clean)
             n == Len(y.file.rows)
  <2>1. v \in Nat /\ c \in Nat /\ n \in Nat /\ loaded \in Nat /\ loaded <= c /\ rejected = n - v
        /\ rejected \in Nat /\ v - c \in Nat
    BY <1>4, <1>5, <1>6, <1>7, <1>8
  <2>2. duplicate = (v - c) + c - loaded
    BY <1>7
  <2> HIDE DEF v, c, n, duplicate
  <2>3. duplicate \in Nat /\ loaded + rejected + duplicate = n
    BY <2>1, <2>2
  <2>4. QED BY <2>3 DEF n
<1> HIDE DEF duplicate
<1>10. Batch(y.batch, "transactions", "SUCCEEDED", Len(y.file.rows), loaded, rejected, duplicate)
          \in BatchType
  BY <1>2, <1>4, <1>5, <1>9 DEF Batch, BatchType
<1>11. loaded = Cardinality(y.inserted)
  BY DEF loaded
<1>12. QED BY <1>1, <1>9, <1>10, <1>11, FinishStep

(* The ids of the rows inserted are as many as the rows.                   *)
LEMMA UncommittedCount ==
    ASSUME IngestionInv, NEW p \in Loaders, load[p].pc # "idle"
    PROVE  /\ Uncommitted(p) \subseteq Ids
           /\ Cardinality(Uncommitted(p)) = Cardinality(load[p].inserted)
<1> DEFINE y == load[p]
           f == [i \in y.inserted |-> y.file.rows[i].id]
<1>1. LoadOk(y) /\ y.file \in Files
  BY DEF IngestionInv, LoadOk
<1>2. /\ y.inserted \subseteq DOMAIN y.file.rows /\ y.inserted \subseteq Clean(y.file, y.valid)
      /\ y.valid \subseteq DOMAIN y.file.rows
  BY <1>1 DEF LoadOk
<1>3. IsFiniteSet(y.inserted)
  BY <1>1, <1>2, FiniteParts
<1>4. Uncommitted(p) = {y.file.rows[i].id : i \in y.inserted}
  BY DEF Uncommitted, RowsOf
<1>5. f \in [y.inserted -> Uncommitted(p)]
  BY <1>4
<1>6. \A i, j \in y.inserted : f[i] = f[j] => i = j
  BY <1>1, <1>2, CleanIds
<1>7. \A id \in Uncommitted(p) : \E i \in y.inserted : f[i] = id
  BY <1>4
<1>8. f \in Bijection(y.inserted, Uncommitted(p))
  BY <1>5, <1>6, <1>7, Fun_IsBij
<1>9. Cardinality(Uncommitted(p)) = Cardinality(y.inserted)
  <2>1. ExistsBijection(y.inserted, Uncommitted(p))
    BY <1>8 DEF ExistsBijection
  <2> HIDE DEF f
  <2>2. QED BY <1>3, <2>1, FS_Bijection
<1>10. Uncommitted(p) \subseteq Ids
  BY <1>1, <1>2, <1>4, FileType DEF RowType
<1>11. QED BY <1>9, <1>10

(* A commit adds the rows inserted, under their batch, and changes none.   *)
LEMMA CommitLoadStep ==
    ASSUME IngestionInv, NEW p \in Loaders, CommitLoad(p)
    PROVE  IngestionInv'
<1> DEFINE y == load[p]
           U == Uncommitted(p)
           RowWith(id) == CHOOSE row \in RowsOf(p, y.inserted) : row.id = id
<1>1. /\ y \in LoadState /\ LoadOk(y) /\ y.pc = "finished" /\ nextBatch \in Nat /\ y.batch < nextBatch
      /\ batches \in SUBSET BatchType /\ transactions \in [Ids -> Transaction \cup {None}]
      /\ load \in [Loaders -> LoadState]
      /\ customers \in SUBSET Customers /\ accounts \in SUBSET Accounts
  BY DEF IngestionInv, IngestionTypeOK, CommitLoad
<1>2. /\ \A id \in Ids : transactions'[id] = IF id \in U THEN [row |-> RowWith(id), batch |-> y.batch]
                                                         ELSE transactions[id]
      /\ DOMAIN transactions' = Ids
      /\ transactions' = [id \in Ids |-> transactions'[id]]
  BY DEF CommitLoad
<1>3. /\ customers' = customers \cup y.customers /\ accounts' = accounts \cup y.accounts
      /\ batches' = batches \cup y.finished /\ nextBatch' = nextBatch
      /\ load' = [load EXCEPT ![p] = IdleLoad]
  BY DEF CommitLoad
<1>4. \A q \in Loaders : load'[q] = IF q = p THEN IdleLoad ELSE load[q]
  BY <1>1, <1>3
<1>5. y.file \in Files /\ y.inserted \subseteq y.valid /\ y.valid \subseteq DOMAIN y.file.rows
  BY <1>1 DEF LoadOk
<1>6. U \subseteq Ids /\ Cardinality(U) = Cardinality(y.inserted)
  BY <1>1, UncommittedCount
<1>7. ASSUME NEW id \in U
      PROVE  \E i \in y.inserted : RowWith(id) = y.file.rows[i] /\ y.file.rows[i].id = id
  <2>1. \E row \in RowsOf(p, y.inserted) : row.id = id
    BY DEF Uncommitted
  <2>2. RowWith(id) \in RowsOf(p, y.inserted) /\ RowWith(id).id = id
    BY <2>1
  <2>3. QED BY <2>2 DEF RowsOf
<1> HIDE DEF RowWith
<1>8. ASSUME NEW id \in U
      PROVE  /\ transactions[id] = None
             /\ RowWith(id) \in Rows /\ Valid(RowWith(id), accounts \cup y.accounts)
  <2>1. PICK i \in y.inserted : RowWith(id) = y.file.rows[i] /\ y.file.rows[i].id = id
    BY <1>7
  <2>2. transactions[y.file.rows[i].id] = None /\ Valid(y.file.rows[i], accounts \cup y.accounts)
    BY <1>1, <1>5, <2>1 DEF LoadOk
  <2>3. y.file.rows[i] \in Rows
    BY <1>5, <2>1, FileType
  <2>4. QED BY <2>1, <2>2, <2>3
<1>9. \A id \in U : transactions'[id].row = RowWith(id) /\ transactions'[id].batch = y.batch
                    /\ transactions'[id] \in Transaction
  BY <1>1, <1>2, <1>6, <1>8 DEF Transaction, LoadState
<1>10. IngestionTypeOK'
  <2>1. transactions' \in [Ids -> Transaction \cup {None}]
    BY <1>1, <1>2, <1>9
  <2>2. load' \in [Loaders -> LoadState]
    BY <1>1, <1>3, IdleLoadOk
  <2>3. customers' \in SUBSET Customers /\ accounts' \in SUBSET Accounts /\ batches' \in SUBSET BatchType
    BY <1>1, <1>3 DEF LoadState
  <2>4. QED BY <1>1, <1>3, <2>1, <2>2, <2>3 DEF IngestionTypeOK
<1>11. \A id \in Ids : transactions'[id] # None <=> id \in U \/ transactions[id] # None
  BY <1>1, <1>2, <1>8, <1>9, TransactionAssumption
<1>12. LineageExact'
  <2> DEFINE Of(b) == {id \in Ids : transactions[id] # None /\ transactions[id].batch = b.id}
             OfNow(b) == {id \in Ids : transactions'[id] # None /\ transactions'[id].batch = b.id}
  <2> SUFFICES ASSUME NEW b \in batches', b.entity = "transactions"
               PROVE  /\ Cardinality(OfNow(b)) = b.loaded
                      /\ b.status = "SUCCEEDED" => b.loaded + b.rejected + b.duplicate = b.received
                      /\ b.status # "SUCCEEDED" => b.loaded = 0
    BY DEF LineageExact
  <2>1. CASE b \in batches
    <3>1. b.id # y.batch
      BY <1>1, <2>1 DEF LoadOk
    <3>2. OfNow(b) = Of(b)
      BY <1>2, <1>8, <1>9, <1>11, <3>1
    <3>3. Cardinality(Of(b)) = b.loaded /\ (b.status = "SUCCEEDED" => b.loaded + b.rejected + b.duplicate = b.received)
          /\ (b.status # "SUCCEEDED" => b.loaded = 0)
      BY <2>1 DEF IngestionInv, LineageExact
    <3>4. QED BY <3>2, <3>3
  <2>2. CASE b \in y.finished
    <3>1. b.id = y.batch /\ BatchOk(y, b)
      BY <1>1, <2>2 DEF LoadOk
    <3>2. \A id \in Ids : transactions[id] # None => transactions[id].batch # y.batch
      BY <1>1 DEF LoadOk
    <3>3. OfNow(b) = U
      BY <1>2, <1>6, <1>9, <1>11, <3>1, <3>2
    <3>4. QED BY <1>6, <3>1, <3>3, FS_EmptySet DEF BatchOk
  <2>3. QED BY <1>3, <2>1, <2>2
<1>13. TransactionsOwned'
  <2> SUFFICES ASSUME NEW id \in Ids, transactions'[id] # None
               PROVE  LET t == transactions'[id]
                      IN  /\ t.row.account \in accounts' /\ CustomerOf[t.row.account] \in customers'
                          /\ TenantOf[CustomerOf[t.row.account]] = t.row.tenant
                          /\ \E b \in batches' : /\ b.id = t.batch /\ b.entity = "transactions"
                                                 /\ b.status = "SUCCEEDED"
    BY DEF TransactionsOwned
  <2>1. CASE id \in U
    <3>1. Valid(RowWith(id), accounts') /\ transactions'[id].row = RowWith(id)
          /\ transactions'[id].batch = y.batch
      BY <1>3, <1>8, <1>9, <2>1
    <3>2. CustomerOf[RowWith(id).account] \in customers'
      BY <1>1, <1>3, <3>1 DEF Valid, LoadOk, IngestionInv
    <3>3. y.inserted # {}
      BY <2>1 DEF Uncommitted, RowsOf
    <3>4. \E b \in y.finished : /\ b.id = y.batch /\ b.entity = "transactions"
                                /\ b.status = "SUCCEEDED"
      BY <1>1, <3>3 DEF LoadOk
    <3>5. QED BY <1>3, <3>1, <3>2, <3>4 DEF Valid
  <2>2. CASE id \notin U
    BY <1>2, <1>3, <1>11, <2>2 DEF IngestionInv, TransactionsOwned
  <2>3. QED BY <2>1, <2>2
<1>14. \A a \in accounts' : CustomerOf[a] \in customers'
  BY <1>1, <1>3 DEF IngestionInv, LoadOk
<1>15. \A b \in batches' : b.id < nextBatch'
  BY <1>1, <1>3 DEF IngestionInv, LoadOk
<1>16. \A id \in Ids : transactions'[id] # None => transactions'[id].batch < nextBatch'
  BY <1>1, <1>2, <1>3, <1>9, <1>11 DEF IngestionInv
<1>17. \A q \in Loaders : load'[q].pc # "idle" => load'[q].batch < nextBatch'
  BY <1>3, <1>4 DEF IngestionInv, IdleLoad
<1>18. ASSUME NEW q \in Loaders PROVE LoadOk(load[q])'
  <2>1. CASE q = p
    BY <1>4, <2>1 DEF LoadOk, IdleLoad, Loading
  <2>2. CASE q # p
    <3> DEFINE z == load[q]
    <3>1. z \in LoadState /\ LoadOk(z) /\ load'[q] = z /\ Apart(z, y)
      BY <1>1, <1>4, <2>2 DEF IngestionInv
    <3>2. \A a \in z.accounts : CustomerOf[a] \in customers' \cup z.customers
      BY <1>3, <3>1 DEF LoadOk
    <3>3. \A i \in z.valid : Valid(z.file.rows[i], accounts' \cup z.accounts)
      BY <1>3, <3>1 DEF LoadOk, Valid
    <3>4. ASSUME z.pc # "idle"
          PROVE  /\ \A b \in batches' : b.id # z.batch
                 /\ \A id \in Ids : transactions'[id] # None => transactions'[id].batch # z.batch
                 /\ \A i \in z.inserted : transactions'[z.file.rows[i].id] = None
      <4>1. z.batch # y.batch /\ \A i \in z.inserted : z.file.rows[i].id \notin U
        BY <1>1, <3>1, <3>4 DEF Apart, Uncommitted, RowsOf
      <4>2. \A i \in z.inserted : z.file.rows[i].id \in Ids
        BY <3>1, <3>4, FileType DEF LoadOk, RowType
      <4>3. \A b \in batches' : b.id # z.batch
        BY <1>1, <1>3, <3>1, <3>4, <4>1 DEF LoadOk
      <4>4. \A id \in Ids : transactions'[id] # None => transactions'[id].batch # z.batch
        BY <1>2, <1>9, <1>11, <3>1, <3>4, <4>1 DEF LoadOk
      <4>5. \A i \in z.inserted : transactions'[z.file.rows[i].id] = None
        BY <1>11, <3>1, <3>4, <4>1, <4>2 DEF LoadOk
      <4>6. QED BY <4>3, <4>4, <4>5
    <3>5. /\ z.pc # "idle" => z.file \in Files
          /\ ~ Loading(z) => z.inserted = {}
          /\ z.pc # "idle" => z.valid \subseteq DOMAIN z.file.rows
          /\ z.inserted \subseteq z.valid /\ z.todo \subseteq z.valid
          /\ z.pc # "idle" => /\ z.inserted \cup z.todo \subseteq Clean(z.file, z.valid)
                             /\ z.inserted \cap z.todo = {}
      BY <3>1 DEF LoadOk
    <3>6. /\ \A b \in z.finished :
                b.id = z.batch /\ (b.entity = "transactions" => z.pc = "finished" /\ BatchOk(z, b))
          /\ z.pc = "finished" /\ z.inserted # {} =>
               \E b \in z.finished : b.entity = "transactions" /\ b.status = "SUCCEEDED"
      BY <3>1 DEF LoadOk
    <3> HIDE DEF z
    <3>7. load'[q] = z
      BY <3>1
    <3>8. QED BY <3>2, <3>3, <3>4, <3>5, <3>6, <3>7
              DEF LoadOk, Loading, BatchOk, Clean, DistinctIds, Near, Valid
  <2>3. QED BY <2>1, <2>2
<1>19. ASSUME NEW q \in Loaders, NEW r \in Loaders, q # r PROVE Apart(load[q], load[r])'
  <2>1. Apart(load'[q], load'[r])
    BY <1>4, <1>19, IdleLoadOk DEF IngestionInv
  <2>2. QED BY <2>1 DEF Apart
<1>20. QED BY <1>10, <1>12, <1>13, <1>14, <1>15, <1>16, <1>17, <1>18, <1>19 DEF IngestionInv

LEMMA IngestionInductive ==
    ASSUME IngestionInv, IngestionNext
    PROVE  IngestionInv'
BY StartDirectoryStep, ReceiveStep, ValidateStep, InsertStep, EndLoadStep, CommitLoadStep,
   RollbackLoadStep DEF IngestionNext

LEMMA MonitoringInitial == MonitoringInit => MonitoringInv
<1> SUFFICES ASSUME MonitoringInit PROVE MonitoringInv
  OBVIOUS
<1>1. /\ customers = {} /\ accounts = {} /\ batches = {} /\ nextBatch = 1
      /\ transactions = [id \in Ids |-> None] /\ load = [p \in Loaders |-> IdleLoad]
      /\ alerts = {} /\ fired = {} /\ scan = [s \in Scanners |-> IdleScan]
  BY DEF MonitoringInit, IngestionInit, ScanInit
<1>2. IngestionTypeOK
  BY <1>1, IdleLoadOk DEF IngestionTypeOK
<1>3. LineageExact /\ TransactionsOwned
  BY <1>1 DEF LineageExact, TransactionsOwned
<1>4. \A p \in Loaders : load[p].pc = "idle" /\ LoadOk(load[p])
  BY <1>1, IdleLoadOk DEF IdleLoad
<1>5. IngestionInv
  BY <1>1, <1>2, <1>3, <1>4 DEF IngestionInv, Apart
<1>6. ScanInv
  BY <1>1, IdleScanOk DEF ScanInv, ScanTypeOK, EveryFireCovered
<1>7. QED BY <1>5, <1>6 DEF MonitoringInv

LEMMA MonitoringInductive == MonitoringInv /\ [MonitoringNext]_<<ingestionVars, scanVars>> => MonitoringInv'
<1> SUFFICES ASSUME MonitoringInv, [MonitoringNext]_<<ingestionVars, scanVars>> PROVE MonitoringInv'
  OBVIOUS
<1>1. UNCHANGED scanVars => ScanInv'
  BY DEF scanVars, MonitoringInv, ScanInv, ScanTypeOK, ScanOk, EveryFireCovered, Covered
<1>2. ASSUME UNCHANGED ingestionVars PROVE IngestionInv'
  <2>1. IngestionInv
    BY DEF MonitoringInv
  <2>2. IngestionTypeOK' /\ LineageExact' /\ TransactionsOwned'
    BY <1>2, <2>1 DEF ingestionVars, IngestionInv, IngestionTypeOK, LineageExact, TransactionsOwned
  <2>3. ASSUME NEW p \in Loaders PROVE LoadOk(load[p])'
    <3>1. LoadOk(load'[p])
      BY <1>2, <2>1 DEF ingestionVars, IngestionInv
    <3>2. UNCHANGED <<customers, accounts, transactions, batches>>
      BY <1>2 DEF ingestionVars
    <3>3. QED BY <3>1, <3>2 DEF LoadOk, Loading, BatchOk, Valid, Clean, DistinctIds, Near
  <2>4. ASSUME NEW p \in Loaders, NEW q \in Loaders, p # q PROVE Apart(load[p], load[q])'
    BY <1>2, <2>1, <2>4 DEF ingestionVars, IngestionInv, Apart
  <2>5. QED BY <1>2, <2>1, <2>2, <2>3, <2>4 DEF ingestionVars, IngestionInv
<1>3. CASE IngestionNext /\ UNCHANGED scanVars
  BY <1>1, <1>3, IngestionInductive DEF MonitoringInv
<1>4. CASE ScanStep /\ UNCHANGED ingestionVars
  BY <1>2, <1>4, ScanInductive DEF MonitoringInv
<1>5. CASE UNCHANGED <<ingestionVars, scanVars>>
  BY <1>1, <1>2, <1>5 DEF MonitoringInv
<1>6. QED BY <1>3, <1>4, <1>5 DEF MonitoringNext

(* Loads and scans keep what is committed in order, however they           *)
(* interleave.                                                             *)
THEOREM MonitoringInvariance == MonitoringSpec => []MonitoringInv
BY MonitoringInitial, MonitoringInductive, PTL DEF MonitoringSpec

(* A batch is credited with exactly the transactions it loaded.            *)
THEOREM Lineage == MonitoringSpec => []LineageExact
<1>1. MonitoringInv => LineageExact
  BY DEF MonitoringInv, IngestionInv
<1>2. QED BY <1>1, MonitoringInvariance, PTL

(* Every fire of a rule that a scan saw has its alert.                     *)
THEOREM Coverage == MonitoringSpec => []EveryFireCovered
<1>1. MonitoringInv => EveryFireCovered
  BY DEF MonitoringInv, ScanInv
<1>2. QED BY <1>1, MonitoringInvariance, PTL
=============================================================================
