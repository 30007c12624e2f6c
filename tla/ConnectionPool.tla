--------------------------- MODULE ConnectionPool ---------------------------
(***************************************************************************)
(* What the requests of one server process wait for: a connection of the   *)
(* pool (database/session.py) for their session, a second one for each     *)
(* audit event (services/audit.py), the lock of an alert's row, the lock   *)
(* of a tenant's audit chain, and the event loop, which starts requests    *)
(* and closes their sessions and which an upload, an async handler, keeps  *)
(* to itself.                                                              *)
(*                                                                         *)
(* Simplifications: a request locks one row; the locks of other processes  *)
(* are left out.                                                           *)
(***************************************************************************)
EXTENDS Integers, FiniteSets, Nullable

CONSTANTS
    Requests,     \* that the server handles at a time
    PoolSize,     \* pool_size + max_overflow
    Rows,         \* alerts
    Trails,
    TrailOf,      \* [Requests -> Trails]: the audit chain of the user's tenant
    MaxEvents     \* audit events of a request

Kinds == {"read", "write", "upload"}

ASSUME PoolAssumption ==
    /\ IsFiniteSet(Requests) /\ PoolSize \in Nat
    /\ TrailOf \in [Requests -> Trails]
    /\ MaxEvents \in Nat
    /\ None \notin Requests \cup Rows

VARIABLES
    req,        \* [Requests -> where it is, what it wants and the connections it has]
    rowLock,    \* [Rows -> the request that has it locked]
    trailLock,  \* [Trails -> the request whose record holds the advisory lock]
    loop        \* the upload that keeps the event loop

poolVars == <<req, rowLock, trailLock, loop>>

PCs == {"idle", "arrived", "working", "wantsRow", "wantsSecond", "locking", "appending", "done"}

Request == [pc : PCs, kind : Kinds, want : Rows \cup {None}, events : 0..MaxEvents,
            first : BOOLEAN, second : BOOLEAN]

NoRequest == [pc |-> "idle", kind |-> "read", want |-> None, events |-> 0,
              first |-> FALSE, second |-> FALSE]

PoolTypeOK ==
    /\ req \in [Requests -> Request]
    /\ rowLock \in [Rows -> Requests \cup {None}]
    /\ trailLock \in [Trails -> Requests \cup {None}]
    /\ loop \in Requests \cup {None}
-----------------------------------------------------------------------------
(* Which connection a request gets makes no difference.                   *)
InUse == Cardinality({r \in Requests : req[r].first})
         + Cardinality({r \in Requests : req[r].second})

Free == InUse < PoolSize

RowsWithout(r) == [a \in Rows |-> IF rowLock[a] = r THEN None ELSE rowLock[a]]

ChainsWithout(r) == [t \in Trails |-> IF trailLock[t] = r THEN None ELSE trailLock[t]]

LoopWithout(r) == IF loop = r THEN None ELSE loop

(* A handler begins; an upload's does not give the event loop back before  *)
(* it returns.                                                             *)
Arrive(r, k) ==
    /\ req[r].pc = "idle"
    /\ loop = None
    /\ req' = [req EXCEPT ![r].pc = "arrived", ![r].kind = k]
    /\ loop' = IF k = "upload" THEN r ELSE None
    /\ UNCHANGED <<rowLock, trailLock>>

(* The session's first statement.                                          *)
TakeFirst(r) ==
    /\ req[r].pc = "arrived"
    /\ Free
    /\ req' = [req EXCEPT ![r].pc = "working", ![r].first = TRUE]
    /\ UNCHANGED <<rowLock, trailLock, loop>>

(* SELECT ... FOR UPDATE, or the UPDATE of an alert.                       *)
WantRow(r, a) ==
    /\ req[r].pc = "working" /\ req[r].kind = "write"
    /\ req[r].want = None
    /\ req' = [req EXCEPT ![r].pc = "wantsRow", ![r].want = a]
    /\ UNCHANGED <<rowLock, trailLock, loop>>

LockRow(r) ==
    /\ req[r].pc = "wantsRow"
    /\ rowLock[req[r].want] = None
    /\ rowLock' = [rowLock EXCEPT ![req[r].want] = r]
    /\ req' = [req EXCEPT ![r].pc = "working"]
    /\ UNCHANGED <<trailLock, loop>>

(* audit.record: a session of its own on the same engine ...               *)
StartRecord(r) ==
    /\ req[r].pc = "working" /\ req[r].kind # "read"
    /\ req[r].events < MaxEvents
    /\ req' = [req EXCEPT ![r].pc = "wantsSecond"]
    /\ UNCHANGED <<rowLock, trailLock, loop>>

TakeSecond(r) ==
    /\ req[r].pc = "wantsSecond"
    /\ Free
    /\ req' = [req EXCEPT ![r].pc = "locking", ![r].second = TRUE]
    /\ UNCHANGED <<rowLock, trailLock, loop>>

LockChain(r) ==
    /\ req[r].pc = "locking"
    /\ trailLock[TrailOf[r]] = None
    /\ trailLock' = [trailLock EXCEPT ![TrailOf[r]] = r]
    /\ req' = [req EXCEPT ![r].pc = "appending"]
    /\ UNCHANGED <<rowLock, loop>>

(* Mutation: the connection goes back to the pool with its lock.           *)
UnlockedNot(r) == trailLock

Unlocked(r) == ChainsWithout(r)

(* ... whose commit gives back the lock and, at its end, the connection.   *)
AppendEvent(r) ==
    /\ req[r].pc = "appending"
    /\ trailLock' = Unlocked(r)
    /\ req' = [req EXCEPT ![r].pc = "working", ![r].second = FALSE, ![r].events = @ + 1]
    /\ UNCHANGED <<rowLock, loop>>

(* The commit of the request ends its transaction ...                      *)
CommitRequest(r) ==
    /\ req[r].pc = "working" /\ req[r].kind # "read"
    /\ req' = [req EXCEPT ![r].pc = "done", ![r].first = FALSE]
    /\ rowLock' = RowsWithout(r)
    /\ loop' = LoopWithout(r)
    /\ UNCHANGED trailLock

(* ... a handler that only reads returns with its transaction open, ...    *)
Return(r) ==
    /\ req[r].pc = "working" /\ req[r].kind = "read"
    /\ req' = [req EXCEPT ![r].pc = "done"]
    /\ UNCHANGED <<rowLock, trailLock, loop>>

Left(r) == [req[r] EXCEPT !.pc = "done", !.second = FALSE]

(* ... as does one that any statement of fails in, ...                     *)
FailRequest(r) ==
    /\ req[r].pc \in {"working", "wantsRow", "locking", "appending"}
    /\ req' = [req EXCEPT ![r] = Left(r)]
    /\ trailLock' = ChainsWithout(r)
    /\ loop' = LoopWithout(r)
    /\ UNCHANGED rowLock

(* Mutation: record waits for its connection as long as it takes.          *)
GivesUpFirst(r) == req[r].pc = "arrived" /\ ~ Free

GivesUp(r) == req[r].pc \in {"arrived", "wantsSecond"} /\ ~ Free

(* ... or that has waited too long for a connection (pool_timeout) ...     *)
PoolTimeout(r) ==
    /\ GivesUp(r)
    /\ req' = [req EXCEPT ![r] = Left(r)]
    /\ loop' = LoopWithout(r)
    /\ UNCHANGED <<rowLock, trailLock>>

(* ... and the event loop has its session closed (get_db).                 *)
Close(r) ==
    /\ req[r].pc = "done"
    /\ loop = None
    /\ req' = [req EXCEPT ![r] = NoRequest]
    /\ rowLock' = RowsWithout(r)
    /\ UNCHANGED <<trailLock, loop>>
-----------------------------------------------------------------------------
PoolInit ==
    /\ req = [r \in Requests |-> NoRequest]
    /\ rowLock = [a \in Rows |-> None]
    /\ trailLock = [t \in Trails |-> None]
    /\ loop = None

(* What a request does unless it has to wait or something fails.           *)
GoOn(r) ==
    \/ TakeFirst(r) \/ (\E a \in Rows : WantRow(r, a)) \/ LockRow(r)
    \/ StartRecord(r) \/ TakeSecond(r) \/ LockChain(r) \/ AppendEvent(r)
    \/ CommitRequest(r) \/ Return(r) \/ Close(r)

PoolNext ==
    \E r \in Requests :
       \/ GoOn(r) \/ FailRequest(r) \/ PoolTimeout(r)
       \/ \E k \in Kinds : Arrive(r, k)

PoolSpec == PoolInit /\ [][PoolNext]_poolVars

(* Threads go on, and who waits for a connection, a lock or the loop is    *)
(* served in turn, or gives up (QueuePool, PostgreSQL and asyncio queue).  *)
FairPoolSpec == PoolSpec /\ \A r \in Requests : SF_poolVars(GoOn(r) \/ PoolTimeout(r))
-----------------------------------------------------------------------------
InHandler == {"arrived", "working", "wantsSecond", "locking", "appending"}

(* Who has what, in terms of where it is.                                  *)
RequestInv(r) ==
    /\ req[r].pc = "idle" => req[r] = NoRequest
    /\ req[r].pc = "wantsRow" => req[r].want \in Rows
    /\ req[r].second <=> req[r].pc \in {"locking", "appending"}
    /\ req[r].pc \in {"wantsSecond", "locking", "appending"} => req[r].events < MaxEvents

LockInv ==
    /\ \A a \in Rows : rowLock[a] # None =>
          /\ req[rowLock[a]].want = a
          /\ req[rowLock[a]].pc \in {"working", "wantsSecond", "locking", "appending", "done"}
    /\ \A t \in Trails : trailLock[t] # None =>
          req[trailLock[t]].pc = "appending" /\ TrailOf[trailLock[t]] = t
    /\ loop # None => req[loop].pc \in InHandler /\ req[loop].kind = "upload"

(* A lock is held by a request that is where its holder must be, and       *)
(* nothing is held by one that is idle.                                    *)
PoolInv == PoolTypeOK /\ (\A r \in Requests : RequestInv(r)) /\ LockInv /\ InUse <= PoolSize

(* The request can go on, without waiting for another one.                 *)
CanGoOn(r) ==
    \/ req[r].pc \in {"working", "appending"}
    \/ req[r].pc \in {"arrived", "wantsSecond"} /\ Free
    \/ req[r].pc = "wantsRow" /\ rowLock[req[r].want] = None
    \/ req[r].pc = "locking" /\ trailLock[TrailOf[r]] = None
    \/ req[r].pc = "done" /\ loop = None

(* As long as fewer requests are under way than there are connections they *)
(* never all wait for each other, across pool, row locks, audit locks and  *)
(* event loop: who holds what another one needs can itself go on, or waits *)
(* for one that can (record, get_db).                                      *)
UnderWay == {r \in Requests : req[r].pc # "idle"}

NeverAllWaiting ==
    UnderWay # {} /\ Cardinality(UnderWay) < PoolSize =>
       \E q \in UnderWay : CanGoOn(q)

(* A request that has ended, in whichever way, has given back everything:  *)
(* connections, locks and event loop (get_db, record).                     *)
NothingLeaks ==
    \A r \in Requests : req[r].pc = "idle" =>
       /\ req[r] = NoRequest
       /\ \A a \in Rows : rowLock[a] # r
       /\ \A t \in Trails : trailLock[t] # r
       /\ loop # r

(* Every request ends, also with as many requests as connections, when all *)
(* can come to wait for a second one.                                      *)
RequestsEnd == \A r \in Requests : req[r].pc # "idle" ~> req[r].pc = "idle"
=============================================================================
