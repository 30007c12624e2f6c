----------------------------- MODULE AuditChain -----------------------------
(***************************************************************************)
(* The hash-chained audit log of services/audit.py on PostgreSQL: every    *)
(* event is appended in a short transaction of its own, under an advisory  *)
(* lock per tenant, whatever becomes of the caller's transaction.          *)
(*                                                                         *)
(* SHA-256 is taken to be injective: a hash is the sequence of everything  *)
(* that went into it.                                                      *)
(***************************************************************************)
EXTENDS Integers, Sequences, Nullable

CONSTANTS
    Tenants,
    Events,    \* actor, action, entity, details and time of an audit event
    Writers,   \* threads and worker processes that call record
    MaxId     \* bound on the ids the audit_log sequence hands out

Ids == 1..MaxId

Genesis == <<>>

Entry(t, e) == [tenant |-> t, event |-> e]

(* Mutation: the digest leaves the previous hash out.                      *)
DigestUnchained(prev, t, e) == <<Entry(t, e)>>

Digest(prev, t, e) == Append(prev, Entry(t, e))

Hash == Seq([tenant : Tenants, event : Events])

AuditRow == [id : Ids, tenant : Tenants, event : Events, prev : Hash, hash : Hash]

ASSUME AuditAssumption == MaxId \in Nat /\ None \notin Writers

VARIABLES
    rows,     \* the committed rows of audit_log
    nextId,   \* the sequence behind audit_log.id
    holder,   \* [Tenants -> who holds the advisory lock]
    writer    \* [Writers -> the record call in progress]

auditVars == <<rows, nextId, holder, writer>>

(* A call of record: what it appends, and the hash it read or the row it   *)
(* has inserted and not committed.                                         *)
Call == [pc : {"idle", "opened", "locked", "read", "inserted"},
         tenant : Tenants \cup {None}, event : Events \cup {None},
         prev : Hash, id : Ids \cup {None}]

NoCall == [pc |-> "idle", tenant |-> None, event |-> None, prev |-> Genesis, id |-> None]

AuditTypeOK ==
    /\ rows \subseteq AuditRow
    /\ nextId \in 1..(MaxId + 1)
    /\ holder \in [Tenants -> Writers \cup {None}]
    /\ writer \in [Writers -> Call]
-----------------------------------------------------------------------------
RowsOf(S, t) == {r \in S : r.tenant = t}

(* h is the hash of the row with the greatest id, GENESIS if there is none *)
(* (ORDER BY id DESC LIMIT 1).                                             *)
IsLast(S, h) ==
    \/ S = {} /\ h = Genesis
    \/ \E r \in S : r.hash = h /\ \A q \in S : q.id <= r.id

(* verify_chain: in id order every row carries on from the one before, and *)
(* its hash is the digest of its content.                                  *)
Verifies(S, t) ==
    \A r \in RowsOf(S, t) :
       /\ IsLast({q \in RowsOf(S, t) : q.id < r.id}, r.prev)
       /\ r.hash = Digest(r.prev, r.tenant, r.event)
-----------------------------------------------------------------------------
(* record opens its own session; the caller goes on when it returns.       *)
Open(w, t, e) ==
    /\ writer[w].pc = "idle"
    /\ writer' = [writer EXCEPT ![w] = [NoCall EXCEPT !.pc = "opened", !.tenant = t,
                                                      !.event = e]]
    /\ UNCHANGED <<rows, nextId, holder>>

(* Mutation: no advisory lock.                                             *)
LockNever(w) ==
    /\ writer[w].pc = "opened"
    /\ writer' = [writer EXCEPT ![w].pc = "locked"]
    /\ UNCHANGED <<rows, nextId, holder>>

(* pg_advisory_xact_lock, held to the end of the transaction.              *)
Lock(w) ==
    /\ writer[w].pc = "opened"
    /\ holder[writer[w].tenant] = None
    /\ holder' = [holder EXCEPT ![writer[w].tenant] = w]
    /\ writer' = [writer EXCEPT ![w].pc = "locked"]
    /\ UNCHANGED <<rows, nextId>>

(* Mutation: the last row of any tenant.                                   *)
ReadLastAny(w) ==
    /\ writer[w].pc = "locked"
    /\ \E h \in {Genesis} \cup {r.hash : r \in rows} :
          /\ IsLast(rows, h)
          /\ writer' = [writer EXCEPT ![w].pc = "read", ![w].prev = h]
    /\ UNCHANGED <<rows, nextId, holder>>

ReadLast(w) ==
    /\ writer[w].pc = "locked"
    /\ \E h \in {Genesis} \cup {r.hash : r \in rows} :
          /\ IsLast(RowsOf(rows, writer[w].tenant), h)
          /\ writer' = [writer EXCEPT ![w].pc = "read", ![w].prev = h]
    /\ UNCHANGED <<rows, nextId, holder>>

(* The id is drawn at the INSERT, and lost if the transaction is.          *)
Insert(w) ==
    /\ writer[w].pc = "read"
    /\ nextId \in Ids
    /\ writer' = [writer EXCEPT ![w].pc = "inserted", ![w].id = nextId]
    /\ nextId' = nextId + 1
    /\ UNCHANGED <<rows, holder>>

NewRow(c) == [id |-> c.id, tenant |-> c.tenant, event |-> c.event, prev |-> c.prev,
              hash |-> Digest(c.prev, c.tenant, c.event)]

(* Mutation: an abandoned session keeps its advisory lock.                 *)
UnlockCommitted(w) ==
    [t \in Tenants |-> IF holder[t] = w /\ writer[w].pc = "inserted" THEN None
                       ELSE holder[t]]

(* The lock goes with the transaction.                                     *)
Unlock(w) == [t \in Tenants |-> IF holder[t] = w THEN None ELSE holder[t]]

CommitRow(w) ==
    /\ writer[w].pc = "inserted"
    /\ rows' = rows \cup {NewRow(writer[w])}
    /\ holder' = Unlock(w)
    /\ writer' = [writer EXCEPT ![w] = NoCall]
    /\ UNCHANGED nextId

(* The connection fails or the process dies: the transaction rolls back.   *)
Fail(w) ==
    /\ writer[w].pc # "idle"
    /\ holder' = Unlock(w)
    /\ writer' = [writer EXCEPT ![w] = NoCall]
    /\ UNCHANGED <<rows, nextId>>
-----------------------------------------------------------------------------
AuditInit ==
    /\ rows = {}
    /\ nextId = 1
    /\ holder = [t \in Tenants |-> None]
    /\ writer = [w \in Writers |-> NoCall]

AuditNext ==
    \E w \in Writers : \/ \E t \in Tenants, e \in Events : Open(w, t, e)
                       \/ Lock(w) \/ ReadLast(w) \/ Insert(w) \/ CommitRow(w) \/ Fail(w)

AuditSpec == AuditInit /\ [][AuditNext]_auditVars

(* PostgreSQL grants the lock to its waiters in turn, and a session that   *)
(* holds it goes on or fails.  A waiter need not fail.                     *)
HolderMoves(w) ==
    \/ ReadLast(w) \/ Insert(w) \/ CommitRow(w)
    \/ writer[w].pc # "opened" /\ Fail(w)

FairAuditSpec ==
    /\ AuditSpec
    /\ \A w \in Writers : SF_auditVars(Lock(w)) /\ WF_auditVars(HolderMoves(w))
-----------------------------------------------------------------------------
(* The chain of every tenant verifies at any moment: two writers never     *)
(* chain onto the same row, and none chains onto another tenant's.         *)
ChainsVerify == \A t \in Tenants : Verifies(rows, t)

(* verify_chain detects an edit of any row, and the deletion of any row    *)
(* that another one follows.                                               *)
TamperEvident ==
    \A t \in Tenants : \A r \in RowsOf(rows, t) :
       /\ \A e \in Events \ {r.event} :
             ~Verifies((rows \ {r}) \cup {[r EXCEPT !.event = e]}, t)
       /\ (\E q \in RowsOf(rows, t) : q.id > r.id) => ~Verifies(rows \ {r}, t)

(* Every call of record ends, though all writers of a tenant queue for one *)
(* lock and any of them may die holding it.                                *)
RecordsEnd == \A w \in Writers : writer[w].pc # "idle" ~> writer[w].pc = "idle"

(* The chain implements the abstract log: the last hash of a tenant is the *)
(* whole sequence of its events.                                           *)
LastHash(t) == CHOOSE h \in {Genesis} \cup {r.hash : r \in rows} : IsLast(RowsOf(rows, t), h)

Log == INSTANCE AuditLog WITH log <- [t \in Tenants |-> LastHash(t)]

AppendOnly == Log!LogSpec
=============================================================================
