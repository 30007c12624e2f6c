----------------------------- MODULE Ingestion -----------------------------
(***************************************************************************)
(* Loading transactions (data/ingestion.py, data/validation.py): requests  *)
(* of api/routes/ingestion.py in several processes, and the job that loads *)
(* customers, accounts and transactions from a directory, each in one      *)
(* database transaction.  INSERT waits for an uncommitted row with the     *)
(* same id; of two that wait for each other one is rolled back.            *)
(*                                                                         *)
(* Simplifications: what is wrong with a row by itself is one bit; rates   *)
(* are per mille and not rounded; of a rejected row only the number is     *)
(* kept; a unique violation of the job's INSERTs is a Rollback.            *)
(***************************************************************************)
EXTENDS Rules, Sequences

CONSTANTS
    Ids,            \* transaction_id
    Customers, Accounts, Tenants,
    CustomerOf,     \* [Accounts -> Customers]
    TenantOf,       \* [Customers -> Tenants]
    Rows,           \* rows of transaction files
    Files,          \* sequences of rows, and whether all required columns are there
    Requests,       \* uploads in the API's processes
    RequestTenant,  \* [Requests -> Tenants]: of the user
    Job,            \* the process that runs ingest_directory
    Directory,      \* its three files; of rows to be rejected only how many
    MaxRejectRate, MaxMissingCountryRate, MaxDuplicateRate,
    MaxBatches,     \* bound: loads ever started
    None

Loaders == Requests \cup {Job}

(* country: the counterparty's country is given.                           *)
RowType ==
    [id : Ids, account : Accounts, tenant : Tenants, day : Nat, amount : Nat, in : BOOLEAN,
     channel : Channels, highRisk : BOOLEAN, counterparty : STRING, wellFormed : BOOLEAN,
     country : BOOLEAN]

ASSUME IngestionAssumption ==
    /\ IsFiniteSet(Ids) /\ IsFiniteSet(Customers) /\ IsFiniteSet(Accounts)
    /\ CustomerOf \in [Accounts -> Customers] /\ TenantOf \in [Customers -> Tenants]
    /\ RequestTenant \in [Requests -> Tenants]
    /\ Rows \subseteq RowType
    /\ \A f \in Files : f \in [rows : Seq(Rows), columns : BOOLEAN]
    /\ Directory \in [customers : SUBSET Customers, badCustomers : Nat,
                      accounts : SUBSET Accounts, badAccounts : Nat, transactions : Files]
    /\ \A a \in Directory.accounts : CustomerOf[a] \in Directory.customers
    /\ MaxRejectRate \in 0..1000 /\ MaxMissingCountryRate \in 0..1000
    /\ MaxDuplicateRate \in 0..1000
    /\ Job \notin Requests /\ MaxBatches \in Nat

VARIABLES
    customers,      \* committed ids
    accounts,       \* committed ids
    transactions,   \* [Ids -> a committed transaction, with its batch, or None]
    batches,        \* the committed ingestion_batches
    load,           \* the database transaction of each loader
    nextBatch       \* loads started so far, plus one: the id of the next

ingestionVars == <<customers, accounts, transactions, batches, load, nextBatch>>

IdleLoad ==
    [pc |-> "idle", file |-> None, batch |-> 0, valid |-> {}, todo |-> {}, inserted |-> {},
     customers |-> {}, accounts |-> {}, finished |-> {}]

Batch(id, entity, status, received, loaded, rejected, duplicate) ==
    [id |-> id, entity |-> entity, status |-> status, received |-> received,
     loaded |-> loaded, rejected |-> rejected, duplicate |-> duplicate]

RowsOf(p, indices) == {load[p].file.rows[i] : i \in indices}

(* The ids of transactions a loader has inserted and not committed.        *)
Uncommitted(p) == {row.id : row \in RowsOf(p, load[p].inserted)}
-----------------------------------------------------------------------------
(* data/validation.py, clean_transactions and the gates                    *)

Valid(row, known) ==
    /\ row.wellFormed
    /\ row.account \in known
    /\ TenantOf[CustomerOf[row.account]] = row.tenant

ValidRows(file, known) == {i \in DOMAIN file.rows : Valid(file.rows[i], known)}

(* Of the rows with one id, the first.                                     *)
DistinctIds(file, valid) ==
    {i \in valid : \A j \in valid : j < i => file.rows[j].id # file.rows[i].id}

(* The same movement under another id.                                     *)
Near(r, s) ==
    /\ r.account = s.account /\ r.amount = s.amount /\ r.in = s.in
    /\ r.counterparty = s.counterparty /\ r.day = s.day

Clean(file, valid) ==
    LET distinct == DistinctIds(file, valid)
    IN  {i \in distinct : \A j \in distinct : j < i => ~ Near(file.rows[j], file.rows[i])}

Exceeds(count, file, rate) ==
    1000 * count > rate * (IF file.rows = <<>> THEN 1 ELSE Cardinality(DOMAIN file.rows))

GateFailure(file, valid) ==
    \/ Exceeds(Cardinality(DOMAIN file.rows \ valid), file, MaxRejectRate)
    \/ Exceeds(Cardinality({i \in valid : ~ file.rows[i].country}), file, MaxMissingCountryRate)
    \/ Exceeds(Cardinality(valid \ Clean(file, valid)), file, MaxDuplicateRate)
-----------------------------------------------------------------------------
Start(file, batch) == [IdleLoad EXCEPT !.pc = "received", !.file = file, !.batch = batch]

(* Every row of an upload is of the user's tenant.                         *)
Receive(p, file) ==
    /\ load[p].pc = "idle"
    /\ nextBatch <= MaxBatches
    /\ \A i \in DOMAIN file.rows : file.rows[i].tenant = RequestTenant[p]
    /\ load' = [load EXCEPT ![p] = Start(file, nextBatch)]
    /\ nextBatch' = nextBatch + 1
    /\ UNCHANGED <<customers, accounts, transactions, batches>>

(* ingest_customers_and_accounts: those that are not there yet.  Of the    *)
(* accounts that are there already the batch does not say how many.        *)
StartDirectory ==
    LET newCustomers == Directory.customers \ customers
        newAccounts == Directory.accounts \ accounts
        known == Cardinality(Directory.customers \ newCustomers)
        customerBatch ==
            Batch(nextBatch, "customers", "SUCCEEDED",
                  Cardinality(Directory.customers) + Directory.badCustomers,
                  Cardinality(newCustomers), Directory.badCustomers, known)
        accountBatch ==
            Batch(nextBatch, "accounts", "SUCCEEDED",
                  Cardinality(Directory.accounts) + Directory.badAccounts,
                  Cardinality(newAccounts), Directory.badAccounts, 0)
    IN  /\ load[Job].pc = "idle"
        /\ nextBatch <= MaxBatches
        /\ load' = [load EXCEPT ![Job] =
                      [Start(Directory.transactions, nextBatch) EXCEPT
                         !.customers = newCustomers, !.accounts = newAccounts,
                         !.finished = {customerBatch, accountBatch}]]
        /\ nextBatch' = nextBatch + 1
        /\ UNCHANGED <<customers, accounts, transactions, batches>>

(* _finish of the batch of transactions, and with it of the call.          *)
Finished(p, status, loaded, rejected, duplicate) ==
    [load[p] EXCEPT
       !.pc = "finished",
       !.finished = @ \cup {Batch(load[p].batch, "transactions", status,
                                  Len(load[p].file.rows), loaded, rejected, duplicate)}]

(* ingest_transactions_frame up to the load: the known accounts are read   *)
(* once.                                                                   *)
Validate(p) ==
    LET file == load[p].file
        valid == ValidRows(file, accounts \cup load[p].accounts)
        rejected == Cardinality(DOMAIN file.rows \ valid)
    IN  /\ load[p].pc = "received"
        /\ \/ /\ ~ file.columns
              /\ load' = [load EXCEPT ![p] = Finished(p, "FAILED_SCHEMA", 0, 0, 0)]
           \/ /\ file.columns
              /\ GateFailure(file, valid)
              /\ load' = [load EXCEPT ![p] = Finished(p, "FAILED_QUALITY_GATE", 0, rejected, 0)]
           \/ /\ file.columns
              /\ ~ GateFailure(file, valid)
              /\ load' = [load EXCEPT ![p].pc = "loading", ![p].valid = valid,
                                      ![p].todo = Clean(file, valid)]
        /\ UNCHANGED <<customers, accounts, transactions, batches, nextBatch>>

(* Mutation: the rows whose ids are not there yet are inserted, which      *)
(* nobody else's INSERT can delay.                                         *)
InsertUnwaiting(p) ==
    \E i \in load[p].todo :
       /\ load[p].pc = "loading"
       /\ \A j \in load[p].todo : i <= j
       /\ load' = [load EXCEPT ![p].todo = @ \ {i},
                               ![p].inserted = IF transactions[load[p].file.rows[i].id] = None
                                               THEN @ \cup {i} ELSE @]
       /\ UNCHANGED <<customers, accounts, transactions, batches, nextBatch>>

(* _idempotent_load, a row at a time: ON CONFLICT (id) DO NOTHING.         *)
Insert(p) ==
    \E i \in load[p].todo :
       LET id == load[p].file.rows[i].id
       IN  /\ load[p].pc = "loading"
           /\ \A j \in load[p].todo : i <= j
           /\ \A q \in Loaders \ {p} : id \notin Uncommitted(q)
           /\ load' = [load EXCEPT ![p].todo = @ \ {i},
                                   ![p].inserted = IF transactions[id] = None THEN @ \cup {i} ELSE @]
           /\ UNCHANGED <<customers, accounts, transactions, batches, nextBatch>>

(* The rowcount of the INSERT.                                             *)
Loaded(p) == Cardinality(load[p].inserted)

EndLoad(p) ==
    LET x == load[p]
        clean == Clean(x.file, x.valid)
        duplicate == Cardinality(x.valid \ clean) + Cardinality(clean) - Loaded(p)
    IN  /\ x.pc = "loading"
        /\ x.todo = {}
        /\ load' = [load EXCEPT ![p] = Finished(p, "SUCCEEDED", Loaded(p),
                                                Cardinality(DOMAIN x.file.rows \ x.valid), duplicate)]
        /\ UNCHANGED <<customers, accounts, transactions, batches, nextBatch>>

(* The end of the request (with its audit event) or of the job's stage.    *)
CommitLoad(p) ==
    LET x == load[p]
        RowWith(id) == CHOOSE row \in RowsOf(p, x.inserted) : row.id = id
    IN  /\ x.pc = "finished"
        /\ transactions' = [id \in Ids |-> IF id \in Uncommitted(p)
                                           THEN [row |-> RowWith(id), batch |-> x.batch]
                                           ELSE transactions[id]]
        /\ customers' = customers \cup x.customers
        /\ accounts' = accounts \cup x.accounts
        /\ batches' = batches \cup x.finished
        /\ load' = [load EXCEPT ![p] = IdleLoad]
        /\ UNCHANGED nextBatch

(* An error, a lost connection, a deadlock.                                *)
RollbackLoad(p) ==
    /\ load[p].pc # "idle"
    /\ load' = [load EXCEPT ![p] = IdleLoad]
    /\ UNCHANGED <<customers, accounts, transactions, batches, nextBatch>>
-----------------------------------------------------------------------------
IngestionInit ==
    /\ customers = {} /\ accounts = {} /\ batches = {}
    /\ transactions = [id \in Ids |-> None]
    /\ load = [p \in Loaders |-> IdleLoad]
    /\ nextBatch = 1

IngestionNext ==
    \/ StartDirectory
    \/ \E p \in Requests, file \in Files : Receive(p, file)
    \/ \E p \in Loaders : Validate(p) \/ Insert(p) \/ EndLoad(p) \/ CommitLoad(p) \/ RollbackLoad(p)

IngestionSpec == IngestionInit /\ [][IngestionNext]_ingestionVars
-----------------------------------------------------------------------------
(* Properties                                                              *)

Transaction == [row : Rows, batch : Nat]

ASSUME TransactionAssumption == None \notin Transaction

BatchType ==
    [id : Nat, entity : {"customers", "accounts", "transactions"},
     status : {"SUCCEEDED", "FAILED_SCHEMA", "FAILED_QUALITY_GATE"},
     received : Nat, loaded : Nat, rejected : Nat, duplicate : Nat]

LoadState ==
    [pc : {"idle", "received", "loading", "finished"}, file : Files \cup {None}, batch : Nat,
     valid : SUBSET Nat, todo : SUBSET Nat, inserted : SUBSET Nat,
     customers : SUBSET Customers, accounts : SUBSET Accounts, finished : SUBSET BatchType]

IngestionTypeOK ==
    /\ customers \in SUBSET Customers /\ accounts \in SUBSET Accounts
    /\ transactions \in [Ids -> Transaction \cup {None}]
    /\ batches \in SUBSET BatchType
    /\ load \in [Loaders -> LoadState]
    /\ nextBatch \in Nat

(* data/ingestion.py:154,172: a batch is credited with exactly the         *)
(* transactions that carry its id, none if it failed, and the rows it      *)
(* received are loaded, rejected or duplicates, however loads of the same  *)
(* ids interleave, fail and are sent again.                                *)
LineageExact ==
    \A b \in batches : b.entity = "transactions" =>
       /\ Cardinality({id \in Ids : transactions[id] # None /\ transactions[id].batch = b.id}) = b.loaded
       /\ b.status = "SUCCEEDED" => b.loaded + b.rejected + b.duplicate = b.received
       /\ b.status # "SUCCEEDED" => b.loaded = 0

(* A transaction is of a known account of its tenant, which the read of    *)
(* the accounts may precede by any time, and its batch succeeded           *)
(* (data/validation.py:70).                                                *)
TransactionsOwned ==
    \A id \in Ids : transactions[id] # None =>
       LET t == transactions[id]
       IN  /\ t.row.account \in accounts /\ CustomerOf[t.row.account] \in customers
           /\ TenantOf[CustomerOf[t.row.account]] = t.row.tenant
           /\ \E b \in batches :
                 b.id = t.batch /\ b.entity = "transactions" /\ b.status = "SUCCEEDED"
-----------------------------------------------------------------------------
(* The inductive invariant                                                 *)

Loading(x) == x.pc \in {"loading", "finished"}

(* The batch of transactions of a load that has finished.                  *)
BatchOk(x, b) ==
    /\ b.loaded = Cardinality(x.inserted)
    /\ b.status = "SUCCEEDED" => b.loaded + b.rejected + b.duplicate = b.received
    /\ b.status # "SUCCEEDED" => x.inserted = {}

(* What a load will commit: rows it has found valid, of accounts that it   *)
(* knows, under ids that are free; batches of its own.                     *)
LoadOk(x) ==
    /\ x.pc # "idle" => x.file \in Files
    /\ ~ Loading(x) => x.inserted = {}
    /\ \A a \in x.accounts : CustomerOf[a] \in customers \cup x.customers
    /\ x.pc # "idle" => x.valid \subseteq DOMAIN x.file.rows
    /\ \A i \in x.valid : Valid(x.file.rows[i], accounts \cup x.accounts)
    /\ x.inserted \subseteq x.valid /\ x.todo \subseteq x.valid
    /\ x.pc # "idle" =>
         /\ x.inserted \cup x.todo \subseteq Clean(x.file, x.valid)
         /\ x.inserted \cap x.todo = {}
         /\ \A i \in x.inserted : transactions[x.file.rows[i].id] = None
         /\ \A b \in batches : b.id # x.batch
         /\ \A id \in Ids : transactions[id] # None => transactions[id].batch # x.batch
    /\ \A b \in x.finished : /\ b.id = x.batch
                             /\ b.entity = "transactions" => x.pc = "finished" /\ BatchOk(x, b)
    /\ x.pc = "finished" /\ x.inserted # {} =>
         \E b \in x.finished : b.entity = "transactions" /\ b.status = "SUCCEEDED"

Apart(x, y) ==
    x.pc # "idle" /\ y.pc # "idle" =>
       /\ x.batch # y.batch
       /\ \A i \in x.inserted, j \in y.inserted : x.file.rows[i].id # y.file.rows[j].id

IngestionInv ==
    /\ IngestionTypeOK
    /\ LineageExact
    /\ TransactionsOwned
    /\ \A a \in accounts : CustomerOf[a] \in customers
    /\ \A b \in batches : b.id < nextBatch
    /\ \A p \in Loaders : load[p].pc # "idle" => load[p].batch < nextBatch
    /\ \A id \in Ids : transactions[id] # None => transactions[id].batch < nextBatch
    /\ \A p \in Loaders : LoadOk(load[p])
    /\ \A p, q \in Loaders : p # q => Apart(load[p], load[q])
=============================================================================
