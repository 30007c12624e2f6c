---------------------------- MODULE AuditProofs ----------------------------
(***************************************************************************)
(* The audit chain verifies, betrays every edit and implements the         *)
(* abstract log, for any number of tenants, writers and events.            *)
(***************************************************************************)
EXTENDS AuditChain, TLAPS

Locking == {"locked", "read", "inserted"}

(* A call under way knows its tenant, and past the lock it holds it.       *)
LockInv ==
    \A w \in Writers :
       /\ writer[w].pc # "idle" => writer[w].tenant \in Tenants /\ writer[w].event \in Events
       /\ writer[w].pc \in Locking => holder[writer[w].tenant] = w

(* What a writer has read is still the end of the chain when it commits,   *)
(* and its row comes after all the others.                                 *)
ReadInv ==
    \A w \in Writers :
       /\ writer[w].pc \in {"read", "inserted"} =>
             IsLast(RowsOf(rows, writer[w].tenant), writer[w].prev)
       /\ writer[w].pc = "inserted" =>
             /\ writer[w].id \in Ids /\ writer[w].id < nextId
             /\ \A r \in RowsOf(rows, writer[w].tenant) : r.id < writer[w].id

(* The rows of a tenant form one chain, ever longer.                       *)
ChainInv ==
    /\ \A r \in rows :
          /\ r.id < nextId
          /\ IsLast({q \in RowsOf(rows, r.tenant) : q.id < r.id}, r.prev)
          /\ r.hash = Digest(r.prev, r.tenant, r.event)
    /\ \A q, r \in rows : q.tenant = r.tenant /\ q.id <= r.id =>
          \/ q = r
          \/ q.id < r.id /\ Len(q.hash) < Len(r.hash)
    /\ \A q, r \in rows : q.tenant = r.tenant /\ q.id < r.id =>
          \E n \in rows : n.tenant = q.tenant /\ q.id < n.id /\ n.prev = q.hash

AuditInv == AuditTypeOK /\ LockInv /\ ReadInv /\ ChainInv

LEMMA InitAuditInv == AuditInit => AuditInv
<1> SUFFICES ASSUME AuditInit PROVE AuditInv
  OBVIOUS
<1>1. Genesis \in Hash
  BY DEF Genesis, Hash
<1>2. AuditTypeOK
  BY <1>1, AuditAssumption DEF AuditInit, AuditTypeOK, NoCall, Call
<1>3. LockInv /\ ReadInv
  BY DEF AuditInit, LockInv, ReadInv, NoCall, Locking
<1>4. ChainInv
  BY DEF AuditInit, ChainInv, IsLast, RowsOf
<1>5. QED BY <1>2, <1>3, <1>4 DEF AuditInv

(* A step of one writer that commits nothing.                              *)
LEMMA WriterStep ==
    ASSUME AuditInv, NEW w \in Writers, NEW c \in Call, writer' = [writer EXCEPT ![w] = c],
           UNCHANGED rows, nextId' \in 1..(MaxId + 1), nextId <= nextId',
           holder' \in [Tenants -> Writers \cup {None}],
           \A t \in Tenants, v \in Writers \ {w} : holder[t] = v => holder'[t] = v,
           c.pc # "idle" => c.tenant \in Tenants /\ c.event \in Events,
           c.pc \in Locking => holder'[c.tenant] = w,
           c.pc \in {"read", "inserted"} => IsLast(RowsOf(rows, c.tenant), c.prev),
           c.pc = "inserted" => /\ c.id \in Ids /\ c.id < nextId'
                                /\ \A r \in RowsOf(rows, c.tenant) : r.id < c.id
    PROVE  AuditInv'
<1>1. \A v \in Writers : writer'[v] = IF v = w THEN c ELSE writer[v]
  BY DEF AuditInv, AuditTypeOK
<1>2. AuditTypeOK'
  BY DEF AuditInv, AuditTypeOK
<1>3. LockInv'
  BY <1>1 DEF AuditInv, LockInv, Locking
<1>4. nextId \in Int /\ nextId' \in Int /\ \A i \in Ids : i \in Int
  BY DEF AuditInv, AuditTypeOK, Ids
<1>5. ReadInv'
  <2> SUFFICES ASSUME NEW v \in Writers
               PROVE  /\ writer'[v].pc \in {"read", "inserted"} =>
                            IsLast(RowsOf(rows, writer'[v].tenant), writer'[v].prev)
                      /\ writer'[v].pc = "inserted" =>
                            /\ writer'[v].id \in Ids /\ writer'[v].id < nextId'
                            /\ \A r \in RowsOf(rows, writer'[v].tenant) : r.id < writer'[v].id
    BY DEF ReadInv, IsLast, RowsOf
  <2>1. CASE v = w
    BY <1>1, <2>1
  <2>2. CASE v # w
    BY <1>1, <1>4, <2>2 DEF AuditInv, ReadInv
  <2>3. QED BY <2>1, <2>2
<1>6. ChainInv'
  <2>1. ASSUME NEW r \in rows PROVE r.id < nextId'
    <3>1. r \in AuditRow
      BY DEF AuditInv, AuditTypeOK
    <3>2. r.id \in Ids
      BY <3>1 DEF AuditRow
    <3>3. r.id < nextId
      BY DEF AuditInv, ChainInv
    <3>4. QED BY <1>4, <3>2, <3>3
  <2>2. QED BY <2>1 DEF AuditInv, ChainInv, IsLast, RowsOf
<1>7. QED BY <1>2, <1>3, <1>5, <1>6 DEF AuditInv

LEMMA OpenStep ==
    ASSUME AuditInv, NEW w \in Writers, NEW t \in Tenants, NEW e \in Events, Open(w, t, e)
    PROVE  AuditInv'
<1> DEFINE c == [NoCall EXCEPT !.pc = "opened", !.tenant = t, !.event = e]
<1> Genesis \in Hash
  BY DEF Hash, Genesis
<1>1. c \in Call /\ c.pc = "opened" /\ c.tenant = t /\ c.event = e
  BY DEF Call, NoCall
<1>2. writer' = [writer EXCEPT ![w] = c]
  BY DEF Open
<1> HIDE DEF c
<1>3. nextId' \in 1..(MaxId + 1) /\ nextId <= nextId' /\ UNCHANGED rows
  BY DEF AuditInv, AuditTypeOK, Open
<1>4. holder \in [Tenants -> Writers \cup {None}]
  BY DEF AuditInv, AuditTypeOK
<1>5. QED BY <1>1, <1>2, <1>3, <1>4, WriterStep DEF Open, Locking

LEMMA LockStep ==
    ASSUME AuditInv, NEW w \in Writers, Lock(w)
    PROVE  AuditInv'
<1> DEFINE c == [writer[w] EXCEPT !.pc = "locked"]
<1>1. writer[w] \in Call /\ writer[w].pc = "opened"
  BY DEF AuditInv, AuditTypeOK, Lock
<1>2. c \in Call /\ c.pc = "locked" /\ c.tenant = writer[w].tenant /\ c.event = writer[w].event
  BY <1>1 DEF Call
<1>3. writer' = [writer EXCEPT ![w] = c]
  BY <1>1 DEF Lock, AuditInv, AuditTypeOK
<1> HIDE DEF c
<1>4. c.tenant \in Tenants /\ c.event \in Events
  BY <1>1, <1>2 DEF AuditInv, LockInv
<1>5. nextId' \in 1..(MaxId + 1) /\ nextId <= nextId' /\ UNCHANGED rows
  BY DEF AuditInv, AuditTypeOK, Lock
<1>6. /\ holder' \in [Tenants -> Writers \cup {None}]
      /\ holder'[c.tenant] = w
      /\ \A t \in Tenants, v \in Writers \ {w} : holder[t] = v => holder'[t] = v
  BY <1>2, <1>4, AuditAssumption DEF Lock, AuditInv, AuditTypeOK
<1>7. QED BY <1>2, <1>3, <1>4, <1>5, <1>6, WriterStep DEF Lock

LEMMA ReadLastStep ==
    ASSUME AuditInv, NEW w \in Writers, ReadLast(w)
    PROVE  AuditInv'
<1>1. writer[w] \in Call /\ writer[w].pc = "locked"
  BY DEF AuditInv, AuditTypeOK, ReadLast
<1>2. PICK h \in {Genesis} \cup {r.hash : r \in rows} :
         /\ IsLast(RowsOf(rows, writer[w].tenant), h)
         /\ writer' = [writer EXCEPT ![w].pc = "read", ![w].prev = h]
  BY DEF ReadLast
<1>3. h \in Hash
  <2>1. Genesis \in Hash
    BY DEF Genesis, Hash
  <2>2. \A r \in rows : r.hash \in Hash
    BY DEF AuditInv, AuditTypeOK, AuditRow
  <2>3. QED BY <2>1, <2>2
<1> DEFINE c == [writer[w] EXCEPT !.pc = "read", !.prev = h]
<1>4. /\ c \in Call /\ c.pc = "read" /\ c.prev = h
      /\ c.tenant = writer[w].tenant /\ c.event = writer[w].event
  BY <1>1, <1>3 DEF Call
<1>5. writer' = [writer EXCEPT ![w] = c]
  BY <1>2 DEF AuditInv, AuditTypeOK
<1> HIDE DEF c
<1>6. c.tenant \in Tenants /\ c.event \in Events /\ holder[c.tenant] = w
  BY <1>1, <1>4 DEF AuditInv, LockInv, Locking
<1>7. nextId' \in 1..(MaxId + 1) /\ nextId <= nextId' /\ UNCHANGED rows
  BY DEF AuditInv, AuditTypeOK, ReadLast
<1>8. holder \in [Tenants -> Writers \cup {None}]
  BY DEF AuditInv, AuditTypeOK
<1>9. QED BY <1>2, <1>4, <1>5, <1>6, <1>7, <1>8, WriterStep DEF ReadLast

LEMMA InsertStep ==
    ASSUME AuditInv, NEW w \in Writers, Insert(w)
    PROVE  AuditInv'
<1>1. writer[w] \in Call /\ writer[w].pc = "read"
  BY DEF AuditInv, AuditTypeOK, Insert
<1>2. nextId \in Ids /\ nextId' = nextId + 1 /\ MaxId \in Int
  BY AuditAssumption DEF Insert
<1>3. nextId \in Int /\ nextId' \in 1..(MaxId + 1) /\ nextId < nextId'
  BY <1>2 DEF Ids
<1> DEFINE c == [writer[w] EXCEPT !.pc = "inserted", !.id = nextId]
<1>4. /\ c \in Call /\ c.pc = "inserted" /\ c.id = nextId /\ c.prev = writer[w].prev
      /\ c.tenant = writer[w].tenant /\ c.event = writer[w].event
  BY <1>1, <1>2 DEF Call
<1>5. writer' = [writer EXCEPT ![w] = c]
  BY DEF AuditInv, AuditTypeOK, Insert
<1> HIDE DEF c
<1>6. c.tenant \in Tenants /\ c.event \in Events /\ holder[c.tenant] = w
  BY <1>1, <1>4 DEF AuditInv, LockInv, Locking
<1>7. IsLast(RowsOf(rows, c.tenant), c.prev)
  BY <1>1, <1>4 DEF AuditInv, ReadInv
<1>8. \A r \in RowsOf(rows, c.tenant) : r.id < c.id
  BY <1>4 DEF AuditInv, ChainInv, RowsOf
<1>9. holder \in [Tenants -> Writers \cup {None}]
  BY DEF AuditInv, AuditTypeOK
<1>10. c.id \in Ids /\ c.id < nextId' /\ nextId <= nextId'
  BY <1>2, <1>3, <1>4
<1>11. QED BY <1>3, <1>4, <1>5, <1>6, <1>7, <1>8, <1>9, <1>10, WriterStep DEF Insert

LEMMA FailStep ==
    ASSUME AuditInv, NEW w \in Writers, Fail(w)
    PROVE  AuditInv'
<1>1. NoCall \in Call /\ NoCall.pc = "idle"
  BY DEF NoCall, Call, Genesis, Hash
<1>2. writer' = [writer EXCEPT ![w] = NoCall]
  BY DEF Fail
<1>3. nextId' \in 1..(MaxId + 1) /\ nextId <= nextId' /\ UNCHANGED rows
  BY DEF AuditInv, AuditTypeOK, Fail
<1>4. /\ holder' \in [Tenants -> Writers \cup {None}]
      /\ \A t \in Tenants, v \in Writers \ {w} : holder[t] = v => holder'[t] = v
  BY DEF Fail, Unlock, AuditInv, AuditTypeOK
<1>5. QED BY <1>1, <1>2, <1>3, <1>4, WriterStep DEF Fail, Locking

(* The row a commit adds carries on from the end of its tenant's chain.    *)
LEMMA NewRowLast ==
    ASSUME AuditInv, NEW w \in Writers, CommitRow(w), NEW n, n = NewRow(writer[w])
    PROVE  /\ n \in AuditRow /\ n.id < nextId
           /\ n.tenant = writer[w].tenant /\ n.id = writer[w].id
           /\ n.event = writer[w].event /\ n.prev = writer[w].prev
           /\ n.hash = Digest(n.prev, n.tenant, n.event)
           /\ IsLast(RowsOf(rows, n.tenant), n.prev)
           /\ \A r \in RowsOf(rows, n.tenant) : r.id < n.id /\ Len(r.hash) < Len(n.hash)
<1>1. writer[w] \in Call /\ writer[w].pc = "inserted"
  BY DEF AuditInv, AuditTypeOK, CommitRow
<1>2. /\ writer[w].tenant \in Tenants /\ writer[w].event \in Events
      /\ writer[w].id \in Ids /\ writer[w].id < nextId
      /\ IsLast(RowsOf(rows, writer[w].tenant), writer[w].prev)
      /\ \A r \in RowsOf(rows, writer[w].tenant) : r.id < writer[w].id
  BY <1>1 DEF AuditInv, LockInv, ReadInv
<1>3. writer[w].prev \in Hash
  BY <1>1 DEF Call
<1>4. Entry(writer[w].tenant, writer[w].event) \in [tenant : Tenants, event : Events]
  BY <1>2 DEF Entry
<1>5. LET h == Digest(writer[w].prev, writer[w].tenant, writer[w].event)
      IN  h \in Hash /\ Len(h) = Len(writer[w].prev) + 1
  BY <1>3, <1>4 DEF Digest, Hash
<1>6. /\ n.tenant = writer[w].tenant /\ n.id = writer[w].id
      /\ n.event = writer[w].event /\ n.prev = writer[w].prev
      /\ n.hash = Digest(n.prev, n.tenant, n.event)
  BY DEF NewRow
<1>7. n \in AuditRow
  BY <1>2, <1>3, <1>5 DEF NewRow, AuditRow
<1>8. ASSUME NEW r \in RowsOf(rows, n.tenant) PROVE Len(r.hash) < Len(n.hash)
  <2>1. PICK q \in RowsOf(rows, n.tenant) :
           q.hash = n.prev /\ \A x \in RowsOf(rows, n.tenant) : x.id <= q.id
    BY <1>2, <1>6, <1>8 DEF IsLast
  <2>2. r \in rows /\ q \in rows /\ r.tenant = q.tenant /\ r.id <= q.id
    BY <2>1, <1>8 DEF RowsOf
  <2>3. r = q \/ Len(r.hash) < Len(q.hash)
    BY <2>2 DEF AuditInv, ChainInv
  <2>4. r.hash \in Hash /\ q.hash \in Hash
    BY <2>2 DEF AuditInv, AuditTypeOK, AuditRow
  <2>5. Len(r.hash) \in Nat /\ Len(q.hash) \in Nat
    BY <2>4 DEF Hash
  <2>6. Len(n.hash) = Len(q.hash) + 1
    BY <1>5, <1>6, <2>1
  <2>7. QED BY <2>3, <2>5, <2>6
<1>9. QED BY <1>2, <1>6, <1>7, <1>8

LEMMA CommitRowStep ==
    ASSUME AuditInv, NEW w \in Writers, CommitRow(w)
    PROVE  AuditInv'
<1>1. PICK n : n = NewRow(writer[w])
  OBVIOUS
<1>2. rows' = rows \cup {n} /\ nextId' = nextId
  BY <1>1 DEF CommitRow
<1>3. /\ n \in AuditRow /\ n.id < nextId
      /\ n.tenant = writer[w].tenant /\ n.id = writer[w].id
      /\ n.event = writer[w].event /\ n.prev = writer[w].prev
      /\ n.hash = Digest(n.prev, n.tenant, n.event)
      /\ IsLast(RowsOf(rows, n.tenant), n.prev)
      /\ \A r \in RowsOf(rows, n.tenant) : r.id < n.id /\ Len(r.hash) < Len(n.hash)
  BY <1>1, NewRowLast
<1>4. NoCall \in Call /\ NoCall.pc = "idle"
  BY DEF NoCall, Call, Genesis, Hash
<1>5. \A v \in Writers : writer'[v] = IF v = w THEN NoCall ELSE writer[v]
  BY DEF CommitRow, AuditInv, AuditTypeOK
<1>6. AuditTypeOK'
  <2>1. rows' \subseteq AuditRow
    BY <1>2, <1>3 DEF AuditInv, AuditTypeOK
  <2>2. nextId' \in 1..(MaxId + 1)
    BY <1>2 DEF AuditInv, AuditTypeOK
  <2>3. holder' \in [Tenants -> Writers \cup {None}]
    BY DEF CommitRow, Unlock, AuditInv, AuditTypeOK
  <2>4. writer' \in [Writers -> Call]
    BY <1>4 DEF CommitRow, AuditInv, AuditTypeOK
  <2>5. QED BY <2>1, <2>2, <2>3, <2>4 DEF AuditTypeOK
<1>7. holder[n.tenant] = w
  BY <1>3 DEF CommitRow, AuditInv, LockInv, Locking
<1>8. \A t \in Tenants, v \in Writers \ {w} : holder[t] = v => holder'[t] = v
  BY DEF CommitRow, Unlock, AuditInv, AuditTypeOK
<1>9. LockInv'
  BY <1>4, <1>5, <1>8 DEF AuditInv, LockInv, Locking
<1>10. \A t : t # n.tenant => RowsOf(rows', t) = RowsOf(rows, t)
  BY <1>2 DEF RowsOf
<1>11. ReadInv'
  <2> SUFFICES ASSUME NEW v \in Writers, writer'[v].pc \in {"read", "inserted"}
               PROVE  /\ IsLast(RowsOf(rows', writer'[v].tenant), writer'[v].prev)
                      /\ writer'[v].pc = "inserted" =>
                            /\ writer'[v].id \in Ids /\ writer'[v].id < nextId'
                            /\ \A r \in RowsOf(rows', writer'[v].tenant) : r.id < writer'[v].id
    BY DEF ReadInv, IsLast, RowsOf
  <2>1. v # w /\ writer'[v] = writer[v]
    BY <1>4, <1>5
  <2>2. holder[writer[v].tenant] = v
    BY <2>1 DEF AuditInv, LockInv, Locking
  <2>3. RowsOf(rows', writer[v].tenant) = RowsOf(rows, writer[v].tenant)
    BY <1>7, <1>10, <2>1, <2>2
  <2>4. QED BY <1>2, <2>1, <2>3 DEF AuditInv, ReadInv
<1>12. n.id \in Int /\ \A r \in rows : r.id \in Int
  <2>1. \A r \in AuditRow : r.id \in Ids
    BY DEF AuditRow
  <2>2. \A i \in Ids : i \in Int
    BY DEF Ids
  <2>3. QED BY <2>1, <2>2, <1>3 DEF AuditInv, AuditTypeOK
<1>13. ChainInv'
  <2>1. ASSUME NEW r \in rows'
        PROVE  /\ r.id < nextId'
               /\ IsLast({q \in RowsOf(rows', r.tenant) : q.id < r.id}, r.prev)
               /\ r.hash = Digest(r.prev, r.tenant, r.event)
    <3>1. CASE r = n
      <4>1. {q \in RowsOf(rows', r.tenant) : q.id < r.id} = RowsOf(rows, n.tenant)
        BY <1>2, <1>3, <1>12, <3>1 DEF RowsOf
      <4>2. QED BY <1>2, <1>3, <3>1, <4>1
    <3>2. CASE r # n
      <4>1. r \in rows
        BY <1>2, <3>2
      <4>2. ~(r.tenant = n.tenant /\ n.id < r.id)
        BY <1>3, <1>12, <4>1 DEF RowsOf
      <4>3. {q \in RowsOf(rows', r.tenant) : q.id < r.id}
               = {q \in RowsOf(rows, r.tenant) : q.id < r.id}
        BY <1>2, <4>2 DEF RowsOf
      <4>4. QED BY <1>2, <4>1, <4>3 DEF AuditInv, ChainInv
    <3>3. QED BY <3>1, <3>2
  <2>2. ASSUME NEW q \in rows', NEW r \in rows', q.tenant = r.tenant, q.id <= r.id
        PROVE  q = r \/ (q.id < r.id /\ Len(q.hash) < Len(r.hash))
    <3>1. CASE q \in rows /\ r \in rows
      BY <2>2, <3>1 DEF AuditInv, ChainInv
    <3>2. CASE r = n /\ q # n
      BY <1>2, <1>3, <3>2, <2>2 DEF RowsOf
    <3>3. CASE q = n /\ r # n
      BY <1>2, <1>3, <1>12, <3>3, <2>2 DEF RowsOf
    <3>4. QED BY <1>2, <2>2, <3>1, <3>2, <3>3
  <2>3. ASSUME NEW q \in rows', NEW r \in rows', q.tenant = r.tenant, q.id < r.id
        PROVE  \E s \in rows' : s.tenant = q.tenant /\ q.id < s.id /\ s.prev = q.hash
    <3>1. CASE q = n
      BY <1>2, <1>3, <1>12, <2>3, <3>1 DEF RowsOf
    <3>2. CASE q # n /\ r # n
      BY <1>2, <2>3, <3>2 DEF AuditInv, ChainInv
    <3>3. CASE q # n /\ r = n
      <4>1. q \in rows /\ q \in RowsOf(rows, n.tenant)
        BY <1>2, <2>3, <3>3 DEF RowsOf
      <4>2. PICK x \in RowsOf(rows, n.tenant) :
               x.hash = n.prev /\ \A y \in RowsOf(rows, n.tenant) : y.id <= x.id
        BY <1>3, <4>1 DEF IsLast
      <4>3. x \in rows /\ x.tenant = n.tenant /\ q.id <= x.id
        BY <4>1, <4>2 DEF RowsOf
      <4>4. CASE q = x
        BY <1>2, <1>3, <2>3, <3>3, <4>2, <4>4
      <4>5. CASE q # x
        BY <1>2, <2>3, <3>3, <4>1, <4>3, <4>5 DEF AuditInv, ChainInv
      <4>6. QED BY <4>4, <4>5
    <3>4. QED BY <3>1, <3>2, <3>3
  <2>4. QED BY <2>1, <2>2, <2>3 DEF ChainInv
<1>14. QED BY <1>6, <1>9, <1>11, <1>13 DEF AuditInv

THEOREM AuditInvariance == AuditSpec => []AuditInv
<1>1. AuditInit => AuditInv
  BY InitAuditInv
<1>2. AuditInv /\ [AuditNext]_auditVars => AuditInv'
  <2> SUFFICES ASSUME AuditInv, [AuditNext]_auditVars PROVE AuditInv'
    OBVIOUS
  <2>1. CASE UNCHANGED auditVars
    BY <2>1 DEF auditVars, AuditInv, AuditTypeOK, LockInv, ReadInv, ChainInv, IsLast, RowsOf
  <2>2. ASSUME NEW w \in Writers,
               \/ \E t \in Tenants, e \in Events : Open(w, t, e)
               \/ Lock(w) \/ ReadLast(w) \/ Insert(w) \/ CommitRow(w) \/ Fail(w)
        PROVE  AuditInv'
    BY <2>2, OpenStep, LockStep, ReadLastStep, InsertStep, CommitRowStep, FailStep
  <2>3. QED BY <2>1, <2>2 DEF AuditNext
<1>3. QED BY <1>1, <1>2, PTL DEF AuditSpec

(* verify_chain accepts every tenant's chain at every moment, however many *)
(* writers append at once and whichever of them fail.                      *)
THEOREM ChainsAlwaysVerify == AuditSpec => []ChainsVerify
<1>1. AuditInv => ChainsVerify
  BY DEF AuditInv, ChainInv, ChainsVerify, Verifies, RowsOf
<1>2. QED BY <1>1, AuditInvariance, PTL

LEMMA AppendInjective ==
    ASSUME NEW S, NEW x \in Seq(S), NEW a \in S, NEW b \in S, Append(x, a) = Append(x, b)
    PROVE  a = b
<1>1. Append(x, a)[Len(x) + 1] = a /\ Append(x, b)[Len(x) + 1] = b
  OBVIOUS
<1>2. QED BY <1>1

(* An edited row, or the deletion of a row that another one follows, is    *)
(* always detected by verify_chain.                                        *)
THEOREM TamperAlwaysEvident == AuditSpec => []TamperEvident
<1>1. ASSUME AuditInv PROVE TamperEvident
  <2> SUFFICES ASSUME NEW t \in Tenants, NEW r \in RowsOf(rows, t)
               PROVE  /\ \A e \in Events \ {r.event} :
                            ~Verifies((rows \ {r}) \cup {[r EXCEPT !.event = e]}, t)
                      /\ (\E q \in RowsOf(rows, t) : q.id > r.id) => ~Verifies(rows \ {r}, t)
    BY DEF TamperEvident
  <2>1. r \in rows /\ r.tenant = t /\ r \in AuditRow
    BY <1>1 DEF RowsOf, AuditInv, AuditTypeOK
  <2>2. \A q \in rows : q.id \in Int /\ q.hash \in Hash /\ Len(q.hash) \in Nat
    <3>1. \A q \in AuditRow : q.id \in Ids /\ q.hash \in Hash
      BY DEF AuditRow
    <3>2. \A i \in Ids : i \in Int
      BY DEF Ids
    <3>3. \A h \in Hash : Len(h) \in Nat
      BY DEF Hash
    <3>4. QED BY <1>1, <3>1, <3>2, <3>3 DEF AuditInv, AuditTypeOK
  <2>3. ASSUME NEW e \in Events \ {r.event},
               Verifies((rows \ {r}) \cup {[r EXCEPT !.event = e]}, t)
        PROVE  FALSE
    <3>1. PICK f : f = [r EXCEPT !.event = e]
      OBVIOUS
    <3>2. f.tenant = t /\ f.event = e /\ f.prev = r.prev /\ f.hash = r.hash
      BY <2>1, <3>1 DEF AuditRow
    <3>3. f.hash = Digest(f.prev, f.tenant, f.event)
      BY <2>3, <3>1, <3>2 DEF Verifies, RowsOf
    <3>4. r.hash = Digest(r.prev, t, r.event)
      BY <1>1, <2>1 DEF AuditInv, ChainInv
    <3>5. Append(r.prev, Entry(t, e)) = Append(r.prev, Entry(t, r.event))
      BY <3>2, <3>3, <3>4 DEF Digest
    <3>6. r.prev \in Seq([tenant : Tenants, event : Events]) /\ r.event \in Events
      BY <2>1 DEF AuditRow, Hash
    <3>7. /\ Entry(t, e) \in [tenant : Tenants, event : Events]
          /\ Entry(t, r.event) \in [tenant : Tenants, event : Events]
      BY <3>6 DEF Entry
    <3>8. Entry(t, e) = Entry(t, r.event)
      BY <3>5, <3>6, <3>7, AppendInjective
    <3>9. QED BY <3>8 DEF Entry
  <2>4. ASSUME NEW q \in RowsOf(rows, t), q.id > r.id, Verifies(rows \ {r}, t)
        PROVE  FALSE
    <3>1. q \in rows /\ q.tenant = t /\ r.id < q.id
      BY <2>1, <2>2, <2>4 DEF RowsOf
    <3>2. PICK s \in rows : s.tenant = t /\ r.id < s.id /\ s.prev = r.hash
      BY <1>1, <2>1, <3>1 DEF AuditInv, ChainInv
    <3>3. s \in RowsOf(rows \ {r}, t)
      BY <2>2, <2>1, <3>2 DEF RowsOf
    <3>4. IsLast({x \in RowsOf(rows \ {r}, t) : x.id < s.id}, r.hash)
      BY <2>4, <3>2, <3>3 DEF Verifies
    <3>5. r.hash # Genesis
      <4>1. r.hash = Append(r.prev, Entry(t, r.event))
        BY <1>1, <2>1 DEF AuditInv, ChainInv, Digest
      <4>2. r.prev \in Hash /\ Entry(t, r.event) \in [tenant : Tenants, event : Events]
        BY <2>1 DEF AuditRow, Entry
      <4>3. Len(r.hash) = Len(r.prev) + 1 /\ Len(r.prev) \in Nat
        BY <4>1, <4>2 DEF Hash
      <4>4. Len(Genesis) = 0
        BY DEF Genesis
      <4>5. QED BY <4>3, <4>4
    <3>6. PICK x \in rows : x # r /\ x.tenant = t /\ x.hash = r.hash
      BY <3>4, <3>5 DEF IsLast, RowsOf
    <3>7. QED BY <1>1, <2>1, <2>2, <3>6 DEF AuditInv, ChainInv
  <2>5. QED BY <2>3, <2>4
<1>2. QED BY <1>1, AuditInvariance, PTL
-----------------------------------------------------------------------------
(* The end of a tenant's chain is one hash.                                *)
Ends(S, t) == {h \in {Genesis} \cup {r.hash : r \in S} : IsLast(RowsOf(S, t), h)}

EndInv == \A t \in Tenants : Ends(rows, t) # {}

LEMMA OneEnd ==
    ASSUME AuditInv, NEW t, NEW g, NEW h, IsLast(RowsOf(rows, t), g), IsLast(RowsOf(rows, t), h)
    PROVE  g = h
<1>1. CASE RowsOf(rows, t) = {}
  BY <1>1 DEF IsLast
<1>2. CASE RowsOf(rows, t) # {}
  <2>1. PICK q \in RowsOf(rows, t) : q.hash = g /\ \A x \in RowsOf(rows, t) : x.id <= q.id
    BY <1>2 DEF IsLast
  <2>2. PICK r \in RowsOf(rows, t) : r.hash = h /\ \A x \in RowsOf(rows, t) : x.id <= r.id
    BY <1>2 DEF IsLast
  <2>3. /\ q \in rows /\ r \in rows /\ q.tenant = r.tenant
        /\ q.id <= r.id /\ r.id <= q.id
    BY <2>1, <2>2 DEF RowsOf
  <2>4. q.id \in Int /\ r.id \in Int
    <3>1. \A x \in AuditRow : x.id \in Ids
      BY DEF AuditRow
    <3>2. \A i \in Ids : i \in Int
      BY DEF Ids
    <3>3. QED BY <2>3, <3>1, <3>2 DEF AuditInv, AuditTypeOK
  <2>5. q = r
    BY <2>3, <2>4 DEF AuditInv, ChainInv
  <2>6. QED BY <2>1, <2>2, <2>5
<1>3. QED BY <1>1, <1>2

LEMMA ChosenEnd ==
    ASSUME NEW S, NEW t, NEW h \in Ends(S, t), \A g : IsLast(RowsOf(S, t), g) => g = h
    PROVE  (CHOOSE g \in {Genesis} \cup {r.hash : r \in S} : IsLast(RowsOf(S, t), g)) = h
<1> DEFINE P(g) == g \in {Genesis} \cup {r.hash : r \in S} /\ IsLast(RowsOf(S, t), g)
<1>1. P(h) /\ \A g : P(g) => g = h
  BY DEF Ends
<1> HIDE DEF P
<1>2. (CHOOSE g : P(g)) = h
  BY <1>1
<1>3. QED BY <1>2 DEF P

(* Only a commit moves the end of a chain, and it moves its own tenant's   *)
(* by the one event it records.                                            *)
LEMMA CommitRecords ==
    ASSUME AuditInv, EndInv, NEW w \in Writers, CommitRow(w)
    PROVE  EndInv' /\ Log!Record(writer[w].tenant, writer[w].event)
<1>1. PICK n : n = NewRow(writer[w])
  OBVIOUS
<1>2. rows' = rows \cup {n}
  BY <1>1 DEF CommitRow
<1>3. /\ n \in AuditRow /\ n.tenant = writer[w].tenant
      /\ n.event = writer[w].event
      /\ n.hash = Digest(n.prev, n.tenant, n.event)
      /\ IsLast(RowsOf(rows, n.tenant), n.prev)
      /\ \A r \in RowsOf(rows, n.tenant) : r.id < n.id
  BY <1>1, NewRowLast
<1>4. n.tenant \in Tenants
  BY <1>3 DEF AuditRow
<1>5. n.id \in Int /\ \A r \in rows : r.id \in Int
  <2>1. \A r \in AuditRow : r.id \in Ids
    BY DEF AuditRow
  <2>2. \A i \in Ids : i \in Int
    BY DEF Ids
  <2>3. QED BY <2>1, <2>2, <1>3 DEF AuditInv, AuditTypeOK
<1>6. PICK R : R = rows'
  OBVIOUS
<1>7. n \in R /\ rows \subseteq R /\ RowsOf(R, n.tenant) = RowsOf(rows, n.tenant) \cup {n}
  BY <1>2, <1>6 DEF RowsOf
<1>8. \A t : t # n.tenant => RowsOf(R, t) = RowsOf(rows, t)
  BY <1>2, <1>6 DEF RowsOf
<1>9. n.hash \in Ends(R, n.tenant) /\ \A g : IsLast(RowsOf(R, n.tenant), g) => g = n.hash
  <2>1. \A r \in RowsOf(R, n.tenant) : r.id <= n.id /\ (n.id <= r.id => r = n)
    BY <1>3, <1>5, <1>7 DEF RowsOf
  <2>2. IsLast(RowsOf(R, n.tenant), n.hash)
    BY <1>7, <2>1 DEF IsLast
  <2>3. n.hash \in {Genesis} \cup {r.hash : r \in R}
    BY <1>7
  <2>4. \A g : IsLast(RowsOf(R, n.tenant), g) => g = n.hash
    BY <1>7, <2>1 DEF IsLast
  <2>5. QED BY <2>2, <2>3, <2>4 DEF Ends
<1>10. n.prev \in Ends(rows, n.tenant)
  BY <1>3 DEF Ends, IsLast, RowsOf
<1>11. ASSUME NEW t \in Tenants, t # n.tenant
       PROVE  \E h : h \in Ends(rows, t) /\ h \in Ends(R, t)
  <2>1. PICK h \in Ends(rows, t) : TRUE
    BY DEF EndInv
  <2>2. h \in Ends(R, t)
    BY <1>7, <1>8, <1>11, <2>1 DEF Ends
  <2>3. QED BY <2>2
<1>12. EndInv'
  <2>1. \A t \in Tenants : Ends(R, t) # {}
    BY <1>9, <1>11
  <2>2. QED BY <1>6, <2>1 DEF EndInv, Ends, IsLast, RowsOf
<1>13. ASSUME NEW t \in Tenants
       PROVE  LastHash(t)' = IF t = n.tenant THEN Append(LastHash(t), Entry(t, n.event))
                                             ELSE LastHash(t)
  <2>1. LastHash(t)' = CHOOSE g \in {Genesis} \cup {r.hash : r \in R} : IsLast(RowsOf(R, t), g)
    BY <1>6 DEF LastHash, IsLast, RowsOf
  <2>2. LastHash(t) = CHOOSE g \in {Genesis} \cup {r.hash : r \in rows} : IsLast(RowsOf(rows, t), g)
    BY DEF LastHash
  <2>3. PICK Q : Q = rows
    OBVIOUS
  <2>4. CASE t = n.tenant
    <3>1. LastHash(t)' = n.hash
      BY <1>9, <2>1, <2>4, ChosenEnd
    <3>2. \A g : IsLast(RowsOf(Q, t), g) => g = n.prev
      BY <1>3, <2>3, <2>4, OneEnd
    <3>3. LastHash(t) = n.prev
      BY <1>10, <2>2, <2>3, <2>4, <3>2, ChosenEnd
    <3>4. QED BY <1>3, <2>4, <3>1, <3>3 DEF Digest
  <2>5. CASE t # n.tenant
    <3>1. PICK h : h \in Ends(rows, t) /\ h \in Ends(R, t)
      BY <1>11, <2>5
    <3>2. \A g : IsLast(RowsOf(Q, t), g) => g = h
      BY <2>3, <3>1, OneEnd DEF Ends
    <3>3. LastHash(t) = h
      BY <2>2, <2>3, <3>1, <3>2, ChosenEnd
    <3>4. LastHash(t)' = h
      BY <1>8, <2>1, <2>3, <2>5, <3>1, <3>2, ChosenEnd
    <3>5. QED BY <2>5, <3>3, <3>4
  <2>6. QED BY <2>4, <2>5
<1>14. Log!Record(n.tenant, n.event)
  <2> DEFINE l == [t \in Tenants |-> LastHash(t)]
  <2>1. l' = [t \in Tenants |-> LastHash(t)']
    OBVIOUS
  <2>2. [l EXCEPT ![n.tenant] = Append(@, Entry(n.tenant, n.event))]
           = [t \in Tenants |-> IF t = n.tenant THEN Append(LastHash(t), Entry(t, n.event))
                                                ELSE LastHash(t)]
    BY <1>4
  <2>3. l' = [l EXCEPT ![n.tenant] = Append(@, Entry(n.tenant, n.event))]
    BY <1>13, <2>1, <2>2
  <2>4. QED BY <2>3 DEF Log!Record, Log!Entry, Entry
<1>15. QED BY <1>3, <1>12, <1>14

(* The chain has an end at any moment, and only a record moves it.         *)
LEMMA EndSteps ==
    /\ AuditInit => EndInv /\ Log!LogInit
    /\ AuditInv /\ EndInv /\ [AuditNext]_auditVars
          => EndInv' /\ [Log!LogNext]_([t \in Tenants |-> LastHash(t)])
<1>1. AuditInit => EndInv /\ Log!LogInit
  <2> SUFFICES ASSUME AuditInit PROVE EndInv /\ Log!LogInit
    OBVIOUS
  <2>1. ASSUME NEW t \in Tenants PROVE Ends(rows, t) # {} /\ LastHash(t) = <<>>
    <3>1. Genesis \in Ends(rows, t) /\ \A g : IsLast(RowsOf(rows, t), g) => g = Genesis
      BY DEF AuditInit, Ends, IsLast, RowsOf
    <3>2. PICK Q : Q = rows
      OBVIOUS
    <3>3. LastHash(t) = Genesis
      BY <3>1, <3>2, ChosenEnd DEF LastHash
    <3>4. QED BY <3>1, <3>3 DEF Genesis
  <2>2. QED BY <2>1 DEF EndInv, Log!LogInit
<1>2. AuditInv /\ EndInv /\ [AuditNext]_auditVars
         => EndInv' /\ [Log!LogNext]_([t \in Tenants |-> LastHash(t)])
  <2> SUFFICES ASSUME AuditInv, EndInv, [AuditNext]_auditVars
               PROVE  EndInv' /\ [Log!LogNext]_([t \in Tenants |-> LastHash(t)])
    OBVIOUS
  <2>1. CASE UNCHANGED rows
    BY <2>1 DEF EndInv, Ends, IsLast, RowsOf, LastHash
  <2>2. ASSUME NEW w \in Writers, CommitRow(w)
        PROVE  EndInv' /\ Log!LogNext
    <3>1. writer[w].tenant \in Tenants /\ writer[w].event \in Events
      BY <2>2 DEF CommitRow, AuditInv, LockInv
    <3>2. QED BY <2>2, <3>1, CommitRecords DEF Log!LogNext
  <2>3. QED BY <2>1, <2>2 DEF AuditNext, auditVars, Open, Lock, ReadLast, Insert, Fail
<1>3. QED BY <1>1, <1>2

LEMMA ChainHasEnd == AuditSpec => []EndInv
BY EndSteps, AuditInvariance, PTL DEF AuditSpec

(* The hash chain implements the append-only log: concurrent writers,      *)
(* failures and lost transactions never lose, reorder or change an event   *)
(* that was recorded.                                                      *)
THEOREM ImplementsLog == AuditSpec => AppendOnly
BY EndSteps, AuditInvariance, PTL DEF AuditSpec, AppendOnly, Log!LogSpec
-----------------------------------------------------------------------------
(* Ends of record, without fairness.                                       *)

(* The advisory lock of a tenant is nobody's or that of a transaction that *)
(* appends to the tenant's chain.                                          *)
HolderInv ==
    \A t \in Tenants : holder[t] # None =>
       writer[holder[t]].pc \in Locking /\ writer[holder[t]].tenant = t

(* No session keeps the lock beyond its transaction, in whichever way that *)
(* ends (record).                                                          *)
THEOREM LockGoesWithTransaction == AuditSpec => []HolderInv
<1>1. AuditInit => HolderInv
  BY DEF AuditInit, HolderInv
<1>2. AuditInv /\ HolderInv /\ [AuditNext]_auditVars => HolderInv'
  <2> SUFFICES ASSUME AuditInv, HolderInv, [AuditNext]_auditVars PROVE HolderInv'
    OBVIOUS
  <2>1. /\ writer \in [Writers -> Call] /\ holder \in [Tenants -> Writers \cup {None}]
        /\ None \notin Writers
    BY AuditAssumption DEF AuditInv, AuditTypeOK
  <2>2. CASE UNCHANGED auditVars
    BY <2>2 DEF auditVars, HolderInv
  <2>3. ASSUME NEW w \in Writers, NEW t \in Tenants, NEW e \in Events, Open(w, t, e)
        PROVE  HolderInv'
    BY <2>1, <2>3 DEF Open, HolderInv, Locking
  <2>4. ASSUME NEW w \in Writers, Lock(w) PROVE HolderInv'
    <3>1. writer[w].tenant \in Tenants /\ writer[w].pc = "opened" /\ writer[w] \in Call
      BY <2>1, <2>4 DEF Lock, AuditInv, LockInv
    <3>2. /\ writer'[w].pc = "locked" /\ writer'[w].tenant = writer[w].tenant
          /\ \A v \in Writers \ {w} : writer'[v] = writer[v]
      BY <2>1, <2>4, <3>1 DEF Lock, Call
    <3>3. \A t \in Tenants : holder'[t] = IF t = writer[w].tenant THEN w ELSE holder[t]
      BY <2>1, <2>4, <3>1 DEF Lock
    <3>4. QED BY <2>1, <3>1, <3>2, <3>3 DEF HolderInv, Locking
  <2>5. ASSUME NEW w \in Writers, ReadLast(w) \/ Insert(w) PROVE HolderInv'
    <3>1. /\ holder' = holder /\ writer'[w].pc \in Locking /\ writer'[w].tenant = writer[w].tenant
          /\ \A v \in Writers \ {w} : writer'[v] = writer[v]
      BY <2>1, <2>5 DEF ReadLast, Insert, Call, Locking
    <3>2. QED BY <2>1, <3>1 DEF HolderInv
  <2>6. ASSUME NEW w \in Writers, CommitRow(w) \/ Fail(w) PROVE HolderInv'
    <3>1. holder' = Unlock(w) /\ \A v \in Writers \ {w} : writer'[v] = writer[v]
      BY <2>1, <2>6 DEF CommitRow, Fail
    <3>2. \A t \in Tenants : holder'[t] # None => holder'[t] = holder[t] /\ holder[t] # w
      BY <3>1 DEF Unlock
    <3>3. QED BY <2>1, <3>1, <3>2 DEF HolderInv
  <2>7. QED BY <2>2, <2>3, <2>4, <2>5, <2>6 DEF AuditNext
<1>3. QED BY <1>1, <1>2, AuditInvariance, PTL DEF AuditSpec

(* What a call of record has left to do.                                   *)
RecordLeft(c) ==
    CASE c.pc = "opened" -> 4 [] c.pc = "locked" -> 3 [] c.pc = "read" -> 2
      [] c.pc = "inserted" -> 1 [] c.pc = "idle" -> 0

(* The writer can go on without waiting for another one; one that has read *)
(* the chain needs an id, of which the model's bound may leave none.       *)
CanRecord(w) ==
    \/ writer[w].pc = "opened" /\ holder[writer[w].tenant] = None
    \/ writer[w].pc = "locked" /\ Ends(rows, writer[w].tenant) # {}
    \/ writer[w].pc \in {"read", "inserted"}

(* A call of record waits for nothing, or for one writer that waits for    *)
(* nothing itself.                                                         *)
OneWaitAtMost ==
    \A w \in Writers : writer[w].pc # "idle" =>
       \/ CanRecord(w)
       \/ holder[writer[w].tenant] \in Writers /\ CanRecord(holder[writer[w].tenant])

RecordAdvances ==
    \A w \in Writers : writer[w].pc # "idle" /\ writer'[w] # writer[w] =>
       RecordLeft(writer'[w]) \in Nat /\ RecordLeft(writer'[w]) < RecordLeft(writer[w])

RecordsRunOut == [][RecordAdvances]_auditVars

(* A call of record has four steps or fewer, none of which another writer  *)
(* can undo or make it repeat, and waits for at most one other writer, who *)
(* waits for nobody: there is no deadlock, whatever fails (record).        *)
THEOREM RecordsAreBounded == AuditSpec => []OneWaitAtMost /\ RecordsRunOut
<1>1. AuditInv /\ EndInv /\ HolderInv => OneWaitAtMost
  <2> SUFFICES ASSUME AuditInv, EndInv, HolderInv, NEW w \in Writers, writer[w].pc # "idle"
               PROVE  \/ CanRecord(w)
                      \/ /\ holder[writer[w].tenant] \in Writers
                         /\ CanRecord(holder[writer[w].tenant])
    BY DEF OneWaitAtMost
  <2>1. /\ writer \in [Writers -> Call] /\ holder \in [Tenants -> Writers \cup {None}]
        /\ writer[w].tenant \in Tenants
    BY DEF AuditInv, AuditTypeOK, LockInv
  <2>2. \A v \in Writers : writer[v].pc \in Locking => CanRecord(v)
    BY DEF EndInv, AuditInv, LockInv, CanRecord, Locking
  <2>3. CASE writer[w].pc = "opened" /\ holder[writer[w].tenant] # None
    BY <2>1, <2>2, <2>3 DEF HolderInv
  <2>4. QED BY <2>1, <2>2, <2>3 DEF CanRecord, Locking, Call
<1>2. AuditInv /\ [AuditNext]_auditVars => RecordAdvances
  <2> SUFFICES ASSUME AuditInv, AuditNext, NEW v \in Writers,
                      writer[v].pc # "idle", writer'[v] # writer[v]
               PROVE  /\ RecordLeft(writer'[v]) \in Nat
                      /\ RecordLeft(writer'[v]) < RecordLeft(writer[v])
    BY DEF RecordAdvances, auditVars
  <2>1. writer \in [Writers -> Call] /\ writer[v] \in Call
    BY DEF AuditInv, AuditTypeOK
  <2>2. PICK w \in Writers :
           \/ \E t \in Tenants, e \in Events : Open(w, t, e)
           \/ Lock(w) \/ ReadLast(w) \/ Insert(w) \/ CommitRow(w) \/ Fail(w)
    BY DEF AuditNext
  <2>3. w = v /\ ~ \E t \in Tenants, e \in Events : Open(w, t, e)
    BY <2>1, <2>2 DEF Open, Lock, ReadLast, Insert, CommitRow, Fail
  <2>4. CASE Lock(v)
    BY <2>1, <2>4 DEF Lock, Call, RecordLeft
  <2>5. CASE ReadLast(v)
    BY <2>1, <2>5 DEF ReadLast, Call, RecordLeft
  <2>6. CASE Insert(v)
    BY <2>1, <2>6 DEF Insert, Call, RecordLeft
  <2>7. CASE CommitRow(v) \/ Fail(v)
    <3>1. writer'[v] = NoCall
      BY <2>1, <2>7 DEF CommitRow, Fail
    <3>2. QED BY <2>1, <3>1 DEF NoCall, Call, RecordLeft
  <2>8. QED BY <2>2, <2>3, <2>4, <2>5, <2>6, <2>7
<1>3. QED BY <1>1, <1>2, AuditInvariance, ChainHasEnd, LockGoesWithTransaction, PTL
      DEF AuditSpec, RecordsRunOut
=============================================================================
