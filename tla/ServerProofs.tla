---------------------------- MODULE ServerProofs ----------------------------
(***************************************************************************)
(* What one server process keeps in memory and hands out: connections and  *)
(* locks, models, login attempts, for any number of requests, threads,     *)
(* trainings and users.                                                    *)
(***************************************************************************)
EXTENDS ConnectionPool, ModelRegistry, Access, FiniteSetTheorems, SequenceTheorems, TLAPS

(* The connections in use are counted by finite sets.                      *)
LEMMA InUseType ==
    ASSUME PoolTypeOK
    PROVE  /\ IsFiniteSet({r \in Requests : req[r].first})
           /\ IsFiniteSet({r \in Requests : req[r].second})
           /\ Cardinality({r \in Requests : req[r].first}) \in Nat
           /\ Cardinality({r \in Requests : req[r].second}) \in Nat
           /\ PoolSize \in Nat
BY PoolAssumption, FS_Subset, FS_CardinalityType

(* A step of one request that takes no connection ...                      *)
LEMMA KeepsInUse ==
    ASSUME PoolInv, NEW r \in Requests, NEW x \in Request,
           req' = [req EXCEPT ![r] = x],
           x.first => req[r].first, x.second => req[r].second
    PROVE  (InUse <= PoolSize)'
<1> DEFINE first == {q \in Requests : req[q].first}
           second == {q \in Requests : req[q].second}
<1>1. PoolTypeOK
  BY DEF PoolInv
<1>2. first' \in SUBSET first /\ second' \in SUBSET second
  BY <1>1 DEF PoolTypeOK
<1>3. IsFiniteSet(first) /\ IsFiniteSet(second)
  BY <1>1, InUseType
<1>4. Cardinality(first') <= Cardinality(first) /\ Cardinality(second') <= Cardinality(second)
  BY <1>2, <1>3, FS_Subset
<1>5. /\ Cardinality(first) \in Nat /\ Cardinality(second) \in Nat
      /\ Cardinality(first') \in Nat /\ Cardinality(second') \in Nat
  BY <1>2, <1>3, FS_Subset, FS_CardinalityType
<1>6. InUse = Cardinality(first) + Cardinality(second) /\ InUse' = Cardinality(first') + Cardinality(second')
  BY DEF InUse
<1>7. InUse <= PoolSize /\ PoolSize \in Nat
  BY PoolAssumption DEF PoolInv
<1> HIDE DEF first, second
<1>8. InUse' <= PoolSize
  BY <1>4, <1>5, <1>6, <1>7
<1>9. QED BY <1>8

(* ... and one that takes one of those that are free.                      *)
LEMMA TakesOne ==
    ASSUME PoolInv, Free, NEW r \in Requests, NEW x \in Request,
           req' = [req EXCEPT ![r] = x],
           x.first = req[r].first \/ x.second = req[r].second
    PROVE  (InUse <= PoolSize)'
<1> DEFINE first == {q \in Requests : req[q].first}
           second == {q \in Requests : req[q].second}
<1>1. PoolTypeOK
  BY DEF PoolInv
<1>2. /\ first' \in SUBSET (first \cup {r}) /\ second' \in SUBSET (second \cup {r})
      /\ first' \in SUBSET first \/ second' \in SUBSET second
  BY <1>1 DEF PoolTypeOK
<1>3. IsFiniteSet(first) /\ IsFiniteSet(second)
  BY <1>1, InUseType
<1>4. ASSUME NEW S, IsFiniteSet(S), NEW T \in SUBSET (S \cup {r})
      PROVE  /\ Cardinality(S) \in Nat /\ Cardinality(T) \in Nat
             /\ Cardinality(T) <= Cardinality(S) + 1
             /\ T \in SUBSET S => Cardinality(T) <= Cardinality(S)
  <2>0. Cardinality(S) \in Nat
    BY <1>4, FS_CardinalityType
  <2>1. IsFiniteSet(S \cup {r}) /\ Cardinality(S \cup {r}) <= Cardinality(S) + 1
    <3>1. /\ IsFiniteSet(S \cup {r})
          /\ Cardinality(S \cup {r}) = IF r \in S THEN Cardinality(S) ELSE Cardinality(S) + 1
      BY <1>4, FS_AddElement
    <3>2. QED BY <2>0, <3>1
  <2>2. /\ Cardinality(T) <= Cardinality(S \cup {r}) /\ Cardinality(T) \in Nat
        /\ Cardinality(S \cup {r}) \in Nat
    BY <2>1, FS_Subset, FS_CardinalityType
  <2>3. T \in SUBSET S => Cardinality(T) <= Cardinality(S)
    BY <1>4, FS_Subset
  <2>4. QED BY <2>0, <2>1, <2>2, <2>3
<1>5. /\ Cardinality(first) \in Nat /\ Cardinality(second) \in Nat
      /\ Cardinality(first') \in Nat /\ Cardinality(second') \in Nat
      /\ Cardinality(first') + Cardinality(second') <= Cardinality(first) + Cardinality(second) + 1
  <2>1. /\ Cardinality(first) \in Nat /\ Cardinality(first') \in Nat
        /\ Cardinality(first') <= Cardinality(first) + 1
        /\ first' \in SUBSET first => Cardinality(first') <= Cardinality(first)
    BY <1>2, <1>3, <1>4
  <2>2. /\ Cardinality(second) \in Nat /\ Cardinality(second') \in Nat
        /\ Cardinality(second') <= Cardinality(second) + 1
        /\ second' \in SUBSET second => Cardinality(second') <= Cardinality(second)
    BY <1>2, <1>3, <1>4
  <2> HIDE DEF first, second
  <2>3. QED BY <1>2, <2>1, <2>2
<1>6. InUse = Cardinality(first) + Cardinality(second) /\ InUse' = Cardinality(first') + Cardinality(second')
  BY DEF InUse
<1>7. InUse < PoolSize /\ PoolSize \in Nat
  BY PoolAssumption DEF Free
<1> HIDE DEF first, second
<1>8. InUse' <= PoolSize
  BY <1>5, <1>6, <1>7
<1>9. QED BY <1>8

(* At the beginning nothing is in use.                                     *)
LEMMA PoolStarts == PoolInit => PoolInv
<1> SUFFICES ASSUME PoolInit PROVE PoolInv
  OBVIOUS
<1> USE PoolAssumption
<1>1. NoRequest \in Request
  BY DEF NoRequest, Request, PCs, Kinds
<1>2. PoolTypeOK
  BY <1>1 DEF PoolInit, PoolTypeOK
<1>3. LockInv /\ \A r \in Requests : RequestInv(r)
  BY DEF PoolInit, LockInv, RequestInv, NoRequest
<1>5. InUse = 0
  <2> DEFINE first == {r \in Requests : req[r].first}
             second == {r \in Requests : req[r].second}
  <2>1. first = {} /\ second = {}
    BY DEF PoolInit, NoRequest
  <2>2. InUse = Cardinality(first) + Cardinality(second)
    BY DEF InUse
  <2> HIDE DEF first, second
  <2>3. Cardinality(first) = 0 /\ Cardinality(second) = 0
    BY <2>1, FS_EmptySet
  <2>4. QED BY <2>2, <2>3
<1>6. QED BY <1>2, <1>3, <1>5 DEF PoolInv

(* What the steps of a request have in common: its new state is well typed *)
(* and keeps its own invariant, the other requests are left alone.         *)
LEMMA OneRequest ==
    ASSUME PoolInv, NEW r \in Requests, NEW x \in Request,
           req' = [req EXCEPT ![r] = x],
           x.pc = "idle" => x = NoRequest,
           x.pc = "wantsRow" => x.want \in Rows,
           x.second <=> x.pc \in {"locking", "appending"},
           x.pc \in {"wantsSecond", "locking", "appending"} => x.events < MaxEvents
    PROVE  /\ req' \in [Requests -> Request]
           /\ \A q \in Requests : RequestInv(q)'
           /\ req'[r] = x
           /\ \A q \in Requests : q # r => req'[q] = req[q]
<1>1. req \in [Requests -> Request] /\ \A q \in Requests : RequestInv(q)
  BY DEF PoolInv, PoolTypeOK
<1>2. /\ req' \in [Requests -> Request] /\ req'[r] = x
      /\ \A q \in Requests : q # r => req'[q] = req[q]
  BY <1>1
<1>3. ASSUME NEW q \in Requests PROVE RequestInv(q)'
  BY <1>1, <1>2 DEF RequestInv
<1>4. QED BY <1>2, <1>3

(* A lock is held by a request, never by nobody.                           *)
LEMMA Holders ==
    ASSUME PoolInv
    PROVE  /\ \A a \in Rows : rowLock[a] = None \/ rowLock[a] \in Requests
           /\ \A t \in Trails : trailLock[t] = None \/ trailLock[t] \in Requests
           /\ loop = None \/ loop \in Requests
           /\ \A r \in Requests : r # None
           /\ \A r \in Requests : req[r] \in Request /\ TrailOf[r] \in Trails
           /\ \A a \in Rows : a # None
           /\ LockInv /\ \A r \in Requests : RequestInv(r)
BY PoolAssumption DEF PoolInv, PoolTypeOK

LEMMA ArriveStep ==
    ASSUME PoolInv, NEW r \in Requests, NEW k \in Kinds, Arrive(r, k)
    PROVE  PoolInv'
<1> DEFINE x == [req[r] EXCEPT !.pc = "arrived", !.kind = k]
<1>0. req[r] \in Request /\ req[r] = NoRequest /\ req' = [req EXCEPT ![r] = x]
  BY Holders DEF Arrive, RequestInv
<1>1. /\ x \in Request /\ x.pc = "arrived" /\ x.kind = k
      /\ x.second = FALSE /\ x.first = FALSE /\ x.events = req[r].events
  <2>1. x = [NoRequest EXCEPT !.pc = "arrived", !.kind = k] /\ NoRequest \in Request
    BY <1>0
  <2>2. x.pc = "arrived" /\ x.kind = k /\ x.second = FALSE /\ x.first = FALSE
    BY <2>1 DEF NoRequest
  <2>3. x \in Request /\ x.events = req[r].events
    BY <1>0 DEF Request, PCs
  <2>4. QED BY <2>2, <2>3
<1> HIDE DEF x
<1>2. /\ req' \in [Requests -> Request] /\ \A q \in Requests : RequestInv(q)'
      /\ req'[r] = x /\ \A q \in Requests : q # r => req'[q] = req[q]
  BY <1>0, <1>1, OneRequest
<1>3. PoolTypeOK'
  BY <1>2 DEF PoolInv, PoolTypeOK, Arrive
<1>4. LockInv'
  BY <1>0, <1>1, <1>2, Holders DEF Arrive, LockInv, InHandler
<1>5. (InUse <= PoolSize)'
  BY <1>0, <1>1, KeepsInUse
<1>6. QED BY <1>2, <1>3, <1>4, <1>5 DEF PoolInv

(* Steps that only move a request, without a lock being won or lost.       *)
LEMMA MoveStep ==
    ASSUME PoolInv, NEW r \in Requests, NEW x \in Request,
           req' = [req EXCEPT ![r] = x],
           x.pc \in {"working", "wantsSecond", "locking"},
           x.second <=> x.pc = "locking",
           x.pc \in {"wantsSecond", "locking"} => x.events < MaxEvents,
           x.want = req[r].want, x.kind = req[r].kind, req[r].pc # "appending",
           (InUse <= PoolSize)', UNCHANGED <<rowLock, trailLock, loop>>
    PROVE  PoolInv'
<1>1. /\ req' \in [Requests -> Request] /\ \A q \in Requests : RequestInv(q)'
      /\ req'[r] = x /\ \A q \in Requests : q # r => req'[q] = req[q]
  BY OneRequest
<1>2. PoolTypeOK'
  BY <1>1 DEF PoolInv, PoolTypeOK
<1>3. LockInv'
  BY <1>1, Holders DEF LockInv, InHandler
<1>4. QED BY <1>1, <1>2, <1>3 DEF PoolInv

LEMMA TakeFirstStep ==
    ASSUME PoolInv, NEW r \in Requests, TakeFirst(r)
    PROVE  PoolInv'
<1> DEFINE x == [req[r] EXCEPT !.pc = "working", !.first = TRUE]
<1>1. /\ x \in Request /\ x.pc = "working" /\ x.want = req[r].want /\ x.kind = req[r].kind
      /\ x.second = req[r].second /\ x.second = FALSE
      /\ req' = [req EXCEPT ![r] = x] /\ req[r].pc = "arrived"
  BY Holders DEF TakeFirst, Request, PCs, RequestInv
<1> HIDE DEF x
<1>2. (InUse <= PoolSize)'
  BY <1>1, TakesOne DEF TakeFirst
<1>3. QED BY <1>1, <1>2, MoveStep DEF TakeFirst

LEMMA StartRecordStep ==
    ASSUME PoolInv, NEW r \in Requests, StartRecord(r)
    PROVE  PoolInv'
<1> DEFINE x == [req[r] EXCEPT !.pc = "wantsSecond"]
<1>1. /\ x \in Request /\ x.pc = "wantsSecond" /\ x.want = req[r].want /\ x.kind = req[r].kind
      /\ x.second = req[r].second /\ x.second = FALSE /\ x.first = req[r].first
      /\ x.events < MaxEvents /\ req' = [req EXCEPT ![r] = x] /\ req[r].pc = "working"
  BY Holders DEF StartRecord, Request, PCs, RequestInv
<1> HIDE DEF x
<1>2. (InUse <= PoolSize)'
  BY <1>1, KeepsInUse
<1>3. QED BY <1>1, <1>2, MoveStep DEF StartRecord

LEMMA TakeSecondStep ==
    ASSUME PoolInv, NEW r \in Requests, TakeSecond(r)
    PROVE  PoolInv'
<1> DEFINE x == [req[r] EXCEPT !.pc = "locking", !.second = TRUE]
<1>1. /\ x \in Request /\ x.pc = "locking" /\ x.want = req[r].want /\ x.kind = req[r].kind
      /\ x.second = TRUE /\ x.first = req[r].first
      /\ x.events < MaxEvents /\ req' = [req EXCEPT ![r] = x] /\ req[r].pc = "wantsSecond"
  BY Holders DEF TakeSecond, Request, PCs, RequestInv
<1> HIDE DEF x
<1>2. (InUse <= PoolSize)'
  BY <1>1, TakesOne DEF TakeSecond
<1>3. QED BY <1>1, <1>2, MoveStep DEF TakeSecond

LEMMA WantRowStep ==
    ASSUME PoolInv, NEW r \in Requests, NEW a \in Rows, WantRow(r, a)
    PROVE  PoolInv'
<1> DEFINE x == [req[r] EXCEPT !.pc = "wantsRow", !.want = a]
<1>1. /\ x \in Request /\ x.pc = "wantsRow" /\ x.want = a /\ x.second = FALSE
      /\ x.first = req[r].first /\ req' = [req EXCEPT ![r] = x]
      /\ req[r].pc = "working" /\ req[r].kind = "write" /\ req[r].want = None
  BY Holders DEF WantRow, Request, PCs, RequestInv
<1> HIDE DEF x
<1>2. /\ req' \in [Requests -> Request] /\ \A q \in Requests : RequestInv(q)'
      /\ req'[r] = x /\ \A q \in Requests : q # r => req'[q] = req[q]
  BY <1>1, OneRequest
<1>3. PoolTypeOK'
  BY <1>2 DEF PoolInv, PoolTypeOK, WantRow
<1>4. LockInv'
  BY <1>1, <1>2, Holders DEF WantRow, LockInv
<1>5. (InUse <= PoolSize)'
  BY <1>1, KeepsInUse
<1>6. QED BY <1>2, <1>3, <1>4, <1>5 DEF PoolInv

LEMMA LockRowStep ==
    ASSUME PoolInv, NEW r \in Requests, LockRow(r)
    PROVE  PoolInv'
<1> DEFINE x == [req[r] EXCEPT !.pc = "working"]
<1>1. /\ x \in Request /\ x.pc = "working" /\ x.want = req[r].want /\ x.kind = req[r].kind
      /\ x.second = FALSE /\ x.first = req[r].first /\ req' = [req EXCEPT ![r] = x]
      /\ req[r].pc = "wantsRow" /\ req[r].want \in Rows
  BY Holders DEF LockRow, Request, PCs, RequestInv
<1> HIDE DEF x
<1>2. /\ req' \in [Requests -> Request] /\ \A q \in Requests : RequestInv(q)'
      /\ req'[r] = x /\ \A q \in Requests : q # r => req'[q] = req[q]
  BY <1>1, OneRequest
<1>3. PoolTypeOK'
  BY <1>2 DEF PoolInv, PoolTypeOK, LockRow
<1>4. LockInv'
  BY <1>1, <1>2, Holders DEF LockRow, LockInv, PoolInv, PoolTypeOK, InHandler
<1>5. (InUse <= PoolSize)'
  BY <1>1, KeepsInUse
<1>6. QED BY <1>2, <1>3, <1>4, <1>5 DEF PoolInv

LEMMA LockChainStep ==
    ASSUME PoolInv, NEW r \in Requests, LockChain(r)
    PROVE  PoolInv'
<1> DEFINE x == [req[r] EXCEPT !.pc = "appending"]
<1>1. /\ x \in Request /\ x.pc = "appending" /\ x.want = req[r].want /\ x.kind = req[r].kind
      /\ x.second = req[r].second /\ x.second = TRUE /\ x.first = req[r].first
      /\ x.events < MaxEvents /\ req' = [req EXCEPT ![r] = x] /\ req[r].pc = "locking"
  BY Holders DEF LockChain, Request, PCs, RequestInv
<1> HIDE DEF x
<1>2. /\ req' \in [Requests -> Request] /\ \A q \in Requests : RequestInv(q)'
      /\ req'[r] = x /\ \A q \in Requests : q # r => req'[q] = req[q]
  BY <1>1, OneRequest
<1>3. PoolTypeOK'
  BY <1>2 DEF PoolInv, PoolTypeOK, LockChain
<1>4. LockInv'
  BY <1>1, <1>2, Holders DEF LockChain, LockInv, PoolInv, PoolTypeOK, InHandler
<1>5. (InUse <= PoolSize)'
  BY <1>1, KeepsInUse
<1>6. QED BY <1>2, <1>3, <1>4, <1>5 DEF PoolInv

(* A lock whose holder is gone is free; the others keep theirs.            *)
LEMMA WithoutType ==
    ASSUME PoolTypeOK, NEW r \in Requests
    PROVE  /\ RowsWithout(r) \in [Rows -> Requests \cup {None}]
           /\ ChainsWithout(r) \in [Trails -> Requests \cup {None}]
           /\ LoopWithout(r) \in Requests \cup {None}
BY DEF PoolTypeOK, RowsWithout, ChainsWithout, LoopWithout

LEMMA AppendEventStep ==
    ASSUME PoolInv, NEW r \in Requests, AppendEvent(r)
    PROVE  PoolInv'
<1> DEFINE x == [req[r] EXCEPT !.pc = "working", !.second = FALSE, !.events = @ + 1]
<1>0. req[r] \in Request /\ req[r].pc = "appending" /\ req[r].events + 1 \in 0..MaxEvents
  BY PoolAssumption, Holders DEF AppendEvent, Request, RequestInv
<1>1. /\ x \in Request /\ x.pc = "working" /\ x.want = req[r].want /\ x.kind = req[r].kind
      /\ x.second = FALSE /\ x.first = req[r].first /\ req' = [req EXCEPT ![r] = x]
      /\ req[r].pc = "appending"
  BY <1>0 DEF AppendEvent, Request, PCs
<1> HIDE DEF x
<1>2. /\ req' \in [Requests -> Request] /\ \A q \in Requests : RequestInv(q)'
      /\ req'[r] = x /\ \A q \in Requests : q # r => req'[q] = req[q]
  BY <1>1, OneRequest
<1>3. PoolTypeOK'
  BY <1>2, WithoutType DEF PoolInv, PoolTypeOK, AppendEvent, Unlocked
<1>4. LockInv'
  BY <1>1, <1>2, Holders DEF AppendEvent, Unlocked, ChainsWithout, LockInv, InHandler
<1>5. (InUse <= PoolSize)'
  BY <1>1, KeepsInUse
<1>6. QED BY <1>2, <1>3, <1>4, <1>5 DEF PoolInv

(* Steps that end a request's handler, whatever it holds on to.            *)
LEMMA DoneStep ==
    ASSUME PoolInv, NEW r \in Requests, NEW x \in Request,
           req' = [req EXCEPT ![r] = x],
           x.pc = "done", x.second = FALSE, x.first => req[r].first, x.want = req[r].want,
           req[r].pc \in PCs \ {"idle"},
           rowLock' = rowLock \/ rowLock' = RowsWithout(r),
           trailLock' = ChainsWithout(r) \/ (trailLock' = trailLock /\ req[r].pc # "appending"),
           loop' = LoopWithout(r) \/ (loop' = loop /\ req[r].kind # "upload"),
           req[r].pc = "wantsRow" => rowLock' = rowLock
    PROVE  PoolInv'
<1>1. /\ req' \in [Requests -> Request] /\ \A q \in Requests : RequestInv(q)'
      /\ req'[r] = x /\ \A q \in Requests : q # r => req'[q] = req[q]
  BY OneRequest
<1>2. PoolTypeOK'
  BY <1>1, WithoutType DEF PoolInv, PoolTypeOK
<1>3. ASSUME NEW a \in Rows, rowLock'[a] # None
      PROVE  /\ req'[rowLock'[a]].want = a
             /\ req'[rowLock'[a]].pc \in {"working", "wantsSecond", "locking", "appending", "done"}
  <2>1. rowLock'[a] = rowLock[a]
    BY <1>3 DEF RowsWithout
  <2>2. QED BY <1>1, <1>3, <2>1, Holders DEF LockInv
<1>4. ASSUME NEW t \in Trails, trailLock'[t] # None
      PROVE  req'[trailLock'[t]].pc = "appending" /\ TrailOf[trailLock'[t]] = t
  <2>1. trailLock'[t] = trailLock[t] /\ trailLock[t] # r
    BY <1>4, Holders DEF ChainsWithout, LockInv
  <2>2. QED BY <1>1, <1>4, <2>1, Holders DEF LockInv
<1>5. ASSUME loop' # None
      PROVE  req'[loop'].pc \in InHandler /\ req'[loop'].kind = "upload"
  <2>1. loop' = loop /\ loop # r
    BY <1>5, Holders DEF LoopWithout, LockInv
  <2>2. QED BY <1>1, <1>5, <2>1, Holders DEF LockInv
<1>6. LockInv'
  BY <1>3, <1>4, <1>5 DEF LockInv
<1>7. (InUse <= PoolSize)'
  BY KeepsInUse
<1>8. QED BY <1>1, <1>2, <1>6, <1>7 DEF PoolInv

LEMMA EndSteps ==
    ASSUME PoolInv, NEW r \in Requests,
           CommitRequest(r) \/ Return(r) \/ FailRequest(r) \/ PoolTimeout(r)
    PROVE  PoolInv'
<1>0. req[r] \in Request /\ RequestInv(r)
  BY Holders
<1>1. CASE CommitRequest(r)
  <2> DEFINE x == [req[r] EXCEPT !.pc = "done", !.first = FALSE]
  <2>1. /\ x \in Request /\ x.pc = "done" /\ x.second = FALSE /\ x.want = req[r].want
        /\ x.first = FALSE /\ req' = [req EXCEPT ![r] = x] /\ req[r].pc = "working"
    BY <1>0, <1>1 DEF CommitRequest, Request, PCs, RequestInv
  <2>2. rowLock' = RowsWithout(r) /\ trailLock' = trailLock /\ loop' = LoopWithout(r)
    BY <1>1 DEF CommitRequest
  <2> HIDE DEF x
  <2>3. QED BY <2>1, <2>2, DoneStep DEF PCs
<1>2. CASE Return(r)
  <2> DEFINE x == [req[r] EXCEPT !.pc = "done"]
  <2>1. /\ x \in Request /\ x.pc = "done" /\ x.second = FALSE /\ x.want = req[r].want
        /\ x.first = req[r].first /\ req' = [req EXCEPT ![r] = x] /\ req[r].pc = "working"
        /\ req[r].kind = "read"
    BY <1>0, <1>2 DEF Return, Request, PCs, RequestInv
  <2>2. rowLock' = rowLock /\ trailLock' = trailLock /\ loop' = loop
    BY <1>2 DEF Return
  <2> HIDE DEF x
  <2>3. QED BY <2>1, <2>2, DoneStep DEF PCs
<1>3. CASE FailRequest(r) \/ PoolTimeout(r)
  <2>1. /\ Left(r) \in Request /\ Left(r).pc = "done" /\ Left(r).second = FALSE
        /\ Left(r).want = req[r].want /\ Left(r).first = req[r].first
        /\ req' = [req EXCEPT ![r] = Left(r)]
    BY <1>0, <1>3 DEF FailRequest, PoolTimeout, Left, Request, PCs
  <2>2. req[r].pc \in {"arrived", "wantsSecond", "working", "wantsRow", "locking", "appending"}
    BY <1>3 DEF FailRequest, PoolTimeout, GivesUp
  <2>3. /\ rowLock' = rowLock /\ loop' = LoopWithout(r)
        /\ trailLock' = ChainsWithout(r) \/ (trailLock' = trailLock /\ req[r].pc # "appending")
    BY <1>3 DEF FailRequest, PoolTimeout, GivesUp
  <2>4. QED BY <2>1, <2>2, <2>3, DoneStep DEF PCs
<1>4. QED BY <1>1, <1>2, <1>3

LEMMA CloseStep ==
    ASSUME PoolInv, NEW r \in Requests, Close(r)
    PROVE  PoolInv'
<1>1. /\ NoRequest \in Request /\ NoRequest.pc = "idle" /\ NoRequest.second = FALSE
      /\ NoRequest.first = FALSE
  BY PoolAssumption DEF NoRequest, Request, PCs, Kinds
<1>2. req' = [req EXCEPT ![r] = NoRequest] /\ req[r].pc = "done"
  BY DEF Close
<1>3. /\ req' \in [Requests -> Request] /\ \A q \in Requests : RequestInv(q)'
      /\ req'[r] = NoRequest /\ \A q \in Requests : q # r => req'[q] = req[q]
  BY <1>1, <1>2, OneRequest
<1>4. PoolTypeOK'
  BY <1>3, WithoutType DEF PoolInv, PoolTypeOK, Close
<1>5. LockInv'
  BY <1>2, <1>3, Holders DEF Close, RowsWithout, LockInv, InHandler
<1>6. (InUse <= PoolSize)'
  BY <1>1, <1>2, KeepsInUse
<1>7. QED BY <1>3, <1>4, <1>5, <1>6 DEF PoolInv

(* Who has which connection and lock, in every state (get_db, record).     *)
THEOREM PoolInvariant == PoolSpec => []PoolInv
<1>1. PoolInit => PoolInv
  BY PoolStarts
<1>2. PoolInv /\ [PoolNext]_poolVars => PoolInv'
  <2> SUFFICES ASSUME PoolInv, [PoolNext]_poolVars PROVE PoolInv'
    OBVIOUS
  <2>1. ASSUME NEW r \in Requests, GoOn(r) PROVE PoolInv'
    <3>1. CASE TakeFirst(r)
      BY <3>1, TakeFirstStep
    <3>2. CASE \E a \in Rows : WantRow(r, a)
      BY <3>2, WantRowStep
    <3>3. CASE LockRow(r)
      BY <3>3, LockRowStep
    <3>4. CASE StartRecord(r)
      BY <3>4, StartRecordStep
    <3>5. CASE TakeSecond(r)
      BY <3>5, TakeSecondStep
    <3>6. CASE LockChain(r)
      BY <3>6, LockChainStep
    <3>7. CASE AppendEvent(r)
      BY <3>7, AppendEventStep
    <3>8. CASE CommitRequest(r) \/ Return(r)
      BY <3>8, EndSteps
    <3>9. CASE Close(r)
      BY <3>9, CloseStep
    <3>10. QED
      BY <2>1, <3>1, <3>2, <3>3, <3>4, <3>5, <3>6, <3>7, <3>8, <3>9 DEF GoOn
  <2>2. ASSUME NEW r \in Requests, FailRequest(r) \/ PoolTimeout(r) PROVE PoolInv'
    BY <2>2, EndSteps
  <2>3. ASSUME NEW r \in Requests, NEW k \in Kinds, Arrive(r, k) PROVE PoolInv'
    BY <2>3, ArriveStep
  <2>4. CASE UNCHANGED poolVars
    BY <2>4 DEF poolVars, PoolInv, PoolTypeOK, RequestInv, LockInv, InUse
  <2>5. QED BY <2>1, <2>2, <2>3, <2>4 DEF PoolNext
<1>3. QED BY <1>1, <1>2, PTL DEF PoolSpec

LEMMA HoldersAreUnderWay == PoolInv => NothingLeaks
<1> SUFFICES ASSUME PoolInv, NEW r \in Requests, req[r].pc = "idle"
             PROVE  /\ req[r] = NoRequest
                    /\ \A a \in Rows : rowLock[a] # r
                    /\ \A t \in Trails : trailLock[t] # r
                    /\ loop # r
  BY DEF NothingLeaks
<1> QED BY Holders DEF LockInv, RequestInv, InHandler

(* A request that has ended has given back its connections and its locks   *)
(* (get_db, record).                                                       *)
THEOREM RequestsGiveBack == PoolSpec => []NothingLeaks
BY PoolInvariant, HoldersAreUnderWay, PTL

(* If nobody could go on, nobody would have a second connection, and too   *)
(* few would have a first one for the pool to be exhausted; row locks      *)
(* would be held by requests waiting to be closed only, and nobody would   *)
(* keep the event loop.                                                    *)
LEMMA SomebodyGoesOn == PoolInv => NeverAllWaiting
<1> SUFFICES ASSUME PoolInv, UnderWay # {}, Cardinality(UnderWay) < PoolSize,
                    \A q \in UnderWay : ~ CanGoOn(q)
             PROVE  FALSE
  BY DEF NeverAllWaiting
<1> DEFINE first == {q \in Requests : req[q].first}
           second == {q \in Requests : req[q].second}
<1>1. \A q \in Requests : req[q].pc \in PCs /\ req[q].pc \notin {"working", "appending"}
  BY Holders DEF UnderWay, CanGoOn, Request
<1>2. \A t \in Trails : trailLock[t] = None
  BY <1>1, Holders DEF LockInv
<1>3. \A q \in Requests : req[q].pc # "locking"
  BY <1>2, Holders DEF UnderWay, CanGoOn
<1>4. second = {}
  BY <1>1, <1>3, Holders DEF RequestInv
<1>5. first \in SUBSET UnderWay
  BY Holders DEF RequestInv, NoRequest, UnderWay
<1>6. IsFiniteSet(UnderWay)
  BY PoolAssumption, FS_Subset DEF UnderWay
<1>7. Cardinality(second) = 0
  BY <1>4, FS_EmptySet
<1>8. Cardinality(first) <= Cardinality(UnderWay) /\ Cardinality(first) \in Nat /\ Cardinality(UnderWay) \in Nat
  BY <1>5, <1>6, FS_Subset, FS_CardinalityType
<1>9. InUse = Cardinality(first) + Cardinality(second)
  BY DEF InUse
<1> HIDE DEF first, second
<1>10. Free
  BY <1>7, <1>8, <1>9, PoolAssumption DEF Free
<1>11. \A q \in Requests : req[q].pc \in {"idle", "wantsRow", "done"}
  BY <1>1, <1>3, <1>10 DEF UnderWay, CanGoOn, PCs
<1>12. loop = None
  BY <1>11, Holders DEF LockInv, InHandler
<1>13. \A q \in Requests : req[q].pc # "done"
  BY <1>12 DEF UnderWay, CanGoOn
<1>14. \A a \in Rows : rowLock[a] = None
  BY <1>11, <1>13, Holders DEF LockInv
<1>15. \A q \in UnderWay : req[q].pc = "wantsRow" /\ req[q].want \in Rows
  BY <1>11, <1>13, Holders DEF UnderWay, RequestInv
<1>16. QED BY <1>14, <1>15 DEF CanGoOn

(* With fewer requests under way than connections, one of them can go on,  *)
(* however many requests, connections, rows and tenants (get_db, record).  *)
THEOREM RequestsNeverAllWait == PoolSpec => []NeverAllWaiting
BY PoolInvariant, SomebodyGoesOn, PTL

(* What a request has left to do: its handler, four steps for each of the  *)
(* events it has not recorded yet, a row lock, if it has none, and the end *)
(* of its session.                                                         *)
StepsLeft(x) ==
    LET toRecord == 4 * (MaxEvents - x.events)
        row      == IF x.want = None THEN 2 ELSE 0
    IN  CASE x.pc = "arrived"     -> 4 * MaxEvents + 5
          [] x.pc = "working"     -> toRecord + row + 2
          [] x.pc = "wantsRow"    -> toRecord + 3
          [] x.pc = "wantsSecond" -> toRecord + row + 1
          [] x.pc = "locking"     -> toRecord + row
          [] x.pc = "appending"   -> toRecord + row - 1
          [] x.pc = "done"        -> 1
          [] x.pc = "idle"        -> 0

(* No step takes a request that is under way back, its own or another      *)
(* one's: record, however often it fails or gives up, is not repeated, and *)
(* a lock or a connection is not asked for again.                          *)
UsesUp ==
    \A r \in Requests : req[r].pc # "idle" /\ req'[r] # req[r] =>
       StepsLeft(req'[r]) \in Nat /\ StepsLeft(req'[r]) < StepsLeft(req[r])

RequestsRunOut == [][UsesUp]_poolVars

FewStepsLeft == \A r \in Requests : StepsLeft(req[r]) <= 4 * MaxEvents + 5

(* With as many requests as there are connections, or more, all of them    *)
(* can come to wait for a second one; then one of them may give up waiting *)
(* (pool_timeout).                                                         *)
SomebodyMoves == UnderWay # {} => \E q \in UnderWay : CanGoOn(q) \/ GivesUp(q)

LEMMA StepsAreLeft ==
    ASSUME NEW x \in Request,
           x.pc \in {"wantsSecond", "locking", "appending"} => x.events < MaxEvents
    PROVE  StepsLeft(x) \in Nat /\ StepsLeft(x) <= 4 * MaxEvents + 5
<1>1. x.pc \in PCs /\ x.events \in 0..MaxEvents /\ MaxEvents \in Nat
  BY PoolAssumption DEF Request
<1>2. QED BY <1>1 DEF PCs, StepsLeft

(* The steps of one request, one by one.                                   *)
LEMMA EachStepCounts ==
    ASSUME PoolInv, NEW r \in Requests, GoOn(r) \/ FailRequest(r) \/ PoolTimeout(r)
    PROVE  /\ StepsLeft(req'[r]) < StepsLeft(req[r])
           /\ \A q \in Requests : q # r => req'[q] = req[q]
<1>1. /\ req \in [Requests -> Request] /\ req[r] \in Request
      /\ req[r].pc \in PCs /\ req[r].events \in 0..MaxEvents /\ MaxEvents \in Nat
      /\ req[r].pc \in {"wantsSecond", "locking", "appending"} => req[r].events < MaxEvents
      /\ req[r].pc = "wantsRow" => req[r].want \in Rows
  BY Holders, PoolAssumption DEF PoolInv, PoolTypeOK, Request, RequestInv
<1>2. CASE TakeFirst(r)
  BY <1>1, <1>2 DEF TakeFirst, Request, StepsLeft
<1>3. ASSUME NEW a \in Rows, WantRow(r, a)
      PROVE  /\ StepsLeft(req'[r]) < StepsLeft(req[r])
             /\ \A q \in Requests : q # r => req'[q] = req[q]
  BY <1>1, <1>3 DEF WantRow, Request, StepsLeft
<1>4. CASE LockRow(r)
  BY <1>1, <1>4, Holders DEF LockRow, Request, StepsLeft
<1>5. CASE StartRecord(r)
  BY <1>1, <1>5 DEF StartRecord, Request, StepsLeft
<1>6. CASE TakeSecond(r)
  BY <1>1, <1>6 DEF TakeSecond, Request, StepsLeft
<1>7. CASE LockChain(r)
  BY <1>1, <1>7 DEF LockChain, Request, StepsLeft
<1>8. CASE AppendEvent(r)
  BY <1>1, <1>8 DEF AppendEvent, Request, StepsLeft
<1>9. CASE CommitRequest(r) \/ Return(r)
  BY <1>1, <1>9 DEF CommitRequest, Return, Request, StepsLeft
<1>10. CASE Close(r)
  BY <1>1, <1>10 DEF Close, NoRequest, Request, StepsLeft
<1>11. CASE FailRequest(r) \/ PoolTimeout(r)
  <2>1. req'[r] = Left(r) /\ \A q \in Requests : q # r => req'[q] = req[q]
    BY <1>1, <1>11 DEF FailRequest, PoolTimeout
  <2>2. req'[r].pc = "done"
    BY <1>1, <2>1 DEF Left, Request
  <2>3. req[r].pc \in {"arrived", "working", "wantsRow", "wantsSecond", "locking", "appending"}
    BY <1>11 DEF FailRequest, PoolTimeout, GivesUp
  <2>4. QED BY <1>1, <2>1, <2>2, <2>3 DEF StepsLeft
<1>12. QED
  BY <1>2, <1>3, <1>4, <1>5, <1>6, <1>7, <1>8, <1>9, <1>10, <1>11 DEF GoOn

(* A request has at most 4 * MaxEvents + 5 steps to take, however it and   *)
(* the others fail (audit.record, get_db).                                 *)
THEOREM RequestsAreBounded ==
    PoolSpec => []FewStepsLeft /\ RequestsRunOut
<1>1. PoolInv => FewStepsLeft
  BY StepsAreLeft, Holders DEF RequestInv, FewStepsLeft
<1>2. ASSUME PoolInv, PoolInv', [PoolNext]_poolVars, NEW r \in Requests,
             req[r].pc # "idle", req'[r] # req[r]
      PROVE  StepsLeft(req'[r]) \in Nat /\ StepsLeft(req'[r]) < StepsLeft(req[r])
  <2>1. StepsLeft(req'[r]) \in Nat
    <3>1. req'[r] \in Request /\ RequestInv(r)'
      BY <1>2 DEF PoolInv, PoolTypeOK
    <3>2. QED BY <3>1, StepsAreLeft DEF RequestInv
  <2>2. PICK q \in Requests :
           GoOn(q) \/ FailRequest(q) \/ PoolTimeout(q) \/ \E k \in Kinds : Arrive(q, k)
    BY <1>2 DEF PoolNext, poolVars
  <2>3. CASE \E k \in Kinds : Arrive(q, k)
    <3>1. q # r
      BY <1>2, <2>3 DEF Arrive
    <3>2. req'[r] = req[r]
      BY <1>2, <2>3, <3>1 DEF Arrive, PoolInv, PoolTypeOK
    <3>3. QED BY <1>2, <3>2
  <2>4. CASE GoOn(q) \/ FailRequest(q) \/ PoolTimeout(q)
    BY <1>2, <2>1, <2>4, EachStepCounts
  <2>5. QED BY <2>2, <2>3, <2>4
<1>3. PoolInv /\ PoolInv' /\ [PoolNext]_poolVars => UsesUp
  BY <1>2 DEF UsesUp
<1>4. QED BY <1>1, <1>3, PoolInvariant, PTL DEF PoolSpec, RequestsRunOut

(* However many requests are under way, and whatever the size of the pool, *)
(* one of them can go on or give up waiting for a connection: there is no  *)
(* deadlock across pool, locks and event loop that a timeout does not end  *)
(* (pool_timeout).                                                         *)
THEOREM SomebodyAlwaysMoves == PoolSpec => []SomebodyMoves
<1>1. PoolInv => SomebodyMoves
  <2> SUFFICES ASSUME PoolInv, UnderWay # {},
                      \A q \in UnderWay : ~ CanGoOn(q) /\ ~ GivesUp(q)
               PROVE  FALSE
    BY DEF SomebodyMoves
  <2>1. \A q \in Requests :
           req[q].pc \in PCs /\ req[q].pc \notin {"arrived", "working", "wantsSecond", "appending"}
    BY Holders DEF UnderWay, CanGoOn, GivesUp, Request
  <2>2. \A t \in Trails : trailLock[t] = None
    BY <2>1, Holders DEF LockInv
  <2>3. \A q \in Requests : req[q].pc \in {"idle", "wantsRow", "done"}
    BY <2>1, <2>2, Holders DEF UnderWay, CanGoOn, PCs
  <2>4. loop = None
    BY <2>3, Holders DEF LockInv, InHandler
  <2>5. \A q \in Requests : req[q].pc # "done"
    BY <2>4 DEF UnderWay, CanGoOn
  <2>6. \A a \in Rows : rowLock[a] = None
    BY <2>3, <2>5, Holders DEF LockInv
  <2>7. \A q \in UnderWay : req[q].pc = "wantsRow" /\ req[q].want \in Rows
    BY <2>3, <2>5, Holders DEF UnderWay, RequestInv
  <2>8. QED BY <2>6, <2>7 DEF CanGoOn
<1>2. QED BY <1>1, PoolInvariant, PTL
-----------------------------------------------------------------------------
(* The model registry.                                                     *)

LEMMA RegistryTypes ==
    /\ None \notin Ids /\ None \notin Data /\ None \notin Seconds
    /\ NoTraining \in Training /\ NoTraining.pc = "idle"
    /\ NoCall \in Call /\ NoCall.pc = "idle" /\ NoCall.model = None
    /\ \A a \in Alerts : NoCall.locks[a] = 0 /\ NoCall.scored[a] = None
    /\ Ids \subseteq Nat
    /\ MaxModels \in Nat /\ MaxSecond \in Nat \ {0} /\ MaxLock \in Nat \ {0}
<1>1. None \notin Ids /\ None \notin Data /\ None \notin Seconds /\ Ids \subseteq Nat
  BY RegistryAssumption DEF Ids, Seconds
<1>2. NoTraining \in Training /\ NoTraining.pc = "idle"
  BY DEF NoTraining, Training
<1>3. /\ NoCall \in Call /\ NoCall.pc = "idle" /\ NoCall.model = None
      /\ \A a \in Alerts : NoCall.locks[a] = 0 /\ NoCall.scored[a] = None
  BY RegistryAssumption DEF NoCall, Call
<1>4. QED BY <1>1, <1>2, <1>3, RegistryAssumption

(* What a step of one training has to show if no row is committed.         *)
LEMMA OneTraining ==
    ASSUME TrainInv, NEW t \in Trainers, NEW x \in Training,
           trainer' = [trainer EXCEPT ![t] = x],
           models' = models, now' = now,
           nextId' \in 1..(MaxModels + 1), nextId <= nextId',
           files' \in [Seconds -> Data \cup {None}],
           rewritten' \in SUBSET Seconds, rewritten \subseteq rewritten',
           overlaps' \in SUBSET SUBSET Ids, overlaps \subseteq overlaps',
           \A v \in Seconds : files'[v] = files[v] \/ v \in rewritten' \/ files[v] = None,
           TrainingOk(t)',
           x.pc \in {"registered", "archiving", "promoted"} =>
              \A q \in Trainers \ {t} : Inserting(q) => trainer[q].id # x.id,
           x.pc \in {"archiving", "promoted"} =>
              \A q \in Trainers \ {t} : Promoting(q) => {x.id, trainer[q].id} \in overlaps'
    PROVE  TrainInv'
<1>1. TrainTypeOK /\ trainer \in [Trainers -> Training]
  BY DEF TrainInv, TrainTypeOK
<1>2. /\ trainer' \in [Trainers -> Training] /\ trainer'[t] = x
      /\ \A q \in Trainers : q # t => trainer'[q] = trainer[q]
  BY <1>1
<1>3. TrainTypeOK'
  BY <1>1, <1>2 DEF TrainTypeOK
<1>4. RowsOk' /\ ProductionUnlessOverlap'
  <2>1. RowsOk'
    <3>1. \A r \in models : r.id \in Nat
      BY <1>1, RegistryTypes DEF TrainTypeOK, ModelVersion
    <3>2. nextId \in Nat /\ nextId' \in Nat
      BY <1>1, RegistryTypes DEF TrainTypeOK
    <3>3. QED BY <3>1, <3>2 DEF TrainInv, RowsOk
  <2>2. ProductionUnlessOverlap'
    BY DEF TrainInv, ProductionUnlessOverlap, Production
  <2>3. QED BY <2>1, <2>2
<1>5. ASSUME NEW q \in Trainers, q # t PROVE TrainingOk(q)'
  <2>1. TrainingOk(q) /\ trainer'[q] = trainer[q] /\ trainer[q] \in Training
    BY <1>1, <1>2, <1>5 DEF TrainInv
  <2>2. \A s \in Trainers : Inserting(s)' => (s = t /\ x.pc \in {"registered", "archiving", "promoted"}) \/ (s # t /\ Inserting(s) /\ trainer'[s] = trainer[s])
    BY <1>2 DEF Inserting
  <2>3. \A s \in Trainers : Promoting(s)' => (s = t /\ x.pc \in {"archiving", "promoted"}) \/ (s # t /\ Promoting(s) /\ trainer'[s] = trainer[s])
    BY <1>2 DEF Promoting
  <2>4. Inserting(q)' => Inserting(q)
    BY <2>1 DEF Inserting
  <2>5. Promoting(q)' => Promoting(q)
    BY <2>1 DEF Promoting
  <2>6. nextId \in Nat /\ nextId' \in Nat /\ (Inserting(q) => trainer[q].id \in Nat)
    <3>1. nextId \in Nat /\ nextId' \in Nat
      BY <1>1, RegistryTypes DEF TrainTypeOK
    <3>2. Inserting(q) => trainer[q].id \in Ids
      BY <2>1 DEF TrainingOk
    <3>3. QED BY <3>1, <3>2, RegistryTypes
  <2>7. /\ trainer[q].pc # "idle" => trainer[q].data \in Data /\ trainer[q].version \in Seconds
        /\ trainer[q].pc = "dumped" => trainer[q].version \in rewritten' \/ files'[trainer[q].version] = trainer[q].data
        /\ trainer[q].pc \in {"hashed", "registered", "archiving", "promoted"} =>
             trainer[q].version \in rewritten' \/ trainer[q].sha = trainer[q].data
    BY <2>1, RegistryTypes DEF TrainingOk
  <2>8. Inserting(q) => /\ trainer[q].id \in Ids /\ trainer[q].id < nextId'
                        /\ \A r \in models : r.id # trainer[q].id
                        /\ \A s \in Trainers \ {q} : Inserting(s)' => trainer'[s].id # trainer[q].id
    BY <1>2, <1>5, <2>1, <2>2, <2>6 DEF TrainingOk
  <2>9. Promoting(q) =>
          /\ \A r \in Production(models) : r.id \in trainer[q].seen \/ {r.id, trainer[q].id} \in overlaps'
          /\ \A s \in Trainers \ {q} : Promoting(s)' => {trainer'[s].id, trainer[q].id} \in overlaps'
    BY <1>2, <1>5, <2>1, <2>3 DEF TrainingOk, Overlapped
  <2>10. trainer[q].pc = "promoted" =>
           \A r \in Production(models) : r.id \in trainer[q].archived \/ {r.id, trainer[q].id} \in overlaps'
    BY <2>1 DEF TrainingOk, Overlapped
  <2>11. Production(models)' = Production(models)
    BY DEF Production
  <2>12. QED BY <2>1, <2>4, <2>5, <2>7, <2>8, <2>9, <2>10, <2>11 DEF TrainingOk, Overlapped
<1>6. QED BY <1>3, <1>4, <1>5 DEF TrainInv

LEMMA TrainingFacts ==
    ASSUME TrainInv, NEW t \in Trainers
    PROVE  /\ trainer[t] \in Training /\ TrainingOk(t)
           /\ models \subseteq ModelVersion /\ files \in [Seconds -> Data \cup {None}]
           /\ rewritten \in SUBSET Seconds /\ overlaps \in SUBSET SUBSET Ids
           /\ nextId \in 1..(MaxModels + 1) /\ nextId \in Nat /\ now \in Seconds
BY RegistryTypes DEF TrainInv, TrainTypeOK

LEMMA SameRows ==
    ASSUME TrainInv, nextId' = nextId
    PROVE  nextId' \in 1..(MaxModels + 1) /\ nextId <= nextId'
BY DEF TrainInv, TrainTypeOK

LEMMA FitStep ==
    ASSUME TrainInv, NEW t \in Trainers, NEW d \in Data, Fit(t, d)
    PROVE  TrainInv'
<1> DEFINE x == [NoTraining EXCEPT !.pc = "fitted", !.data = d, !.version = now]
<1>1. /\ x \in Training /\ x.pc = "fitted" /\ x.data \in Data /\ x.version \in Seconds
      /\ trainer' = [trainer EXCEPT ![t] = x]
  BY TrainingFacts DEF Fit, NoTraining, Training
<1> HIDE DEF x
<1>2. trainer'[t] = x
  BY <1>1 DEF TrainInv, TrainTypeOK
<1>3. TrainingOk(t)'
  BY <1>1, <1>2 DEF TrainingOk, Inserting, Promoting
<1>4. QED BY <1>1, <1>3, TrainingFacts, SameRows, OneTraining DEF Fit, history, serveVars

LEMMA DumpStep ==
    ASSUME TrainInv, NEW t \in Trainers, Dump(t)
    PROVE  TrainInv'
<1> DEFINE y == trainer[t]
           x == [y EXCEPT !.pc = "dumped"]
<1>1. /\ y \in Training /\ y.pc = "fitted" /\ y.data \in Data /\ y.version \in Seconds
  BY TrainingFacts DEF Dump, TrainingOk
<1>2. /\ x \in Training /\ x.pc = "dumped" /\ x.data = y.data /\ x.version = y.version
      /\ trainer' = [trainer EXCEPT ![t] = x]
  BY <1>1 DEF Dump, Training
<1>3. /\ files' = [files EXCEPT ![y.version] = y.data]
      /\ rewritten' = IF files[y.version] = None THEN rewritten ELSE rewritten \cup {y.version}
  BY DEF Dump, Directory
<1> HIDE DEF x
<1>4. trainer'[t] = x
  BY <1>2 DEF TrainInv, TrainTypeOK
<1>5. /\ files' \in [Seconds -> Data \cup {None}] /\ rewritten' \in SUBSET Seconds
      /\ rewritten \subseteq rewritten' /\ files'[y.version] = y.data
      /\ \A v \in Seconds : files'[v] = files[v] \/ v \in rewritten' \/ files[v] = None
  BY <1>1, <1>3, TrainingFacts
<1>6. TrainingOk(t)'
  BY <1>1, <1>2, <1>4, <1>5 DEF TrainingOk, Inserting, Promoting
<1>7. QED BY <1>2, <1>5, <1>6, TrainingFacts, SameRows, OneTraining DEF Dump, serveVars

LEMMA HashFileStep ==
    ASSUME TrainInv, NEW t \in Trainers, HashFile(t)
    PROVE  TrainInv'
<1> DEFINE y == trainer[t]
           x == [y EXCEPT !.pc = "hashed", !.sha = files[y.version]]
<1>1. /\ y \in Training /\ y.pc = "dumped" /\ y.data \in Data /\ y.version \in Seconds
      /\ y.version \in rewritten \/ files[y.version] = y.data
      /\ files[y.version] \in Data \cup {None}
  BY TrainingFacts DEF HashFile, TrainingOk
<1>2. /\ x \in Training /\ x.pc = "hashed" /\ x.data = y.data /\ x.version = y.version
      /\ x.sha = files[y.version] /\ trainer' = [trainer EXCEPT ![t] = x]
  BY <1>1 DEF HashFile, Directory, Training
<1> HIDE DEF x
<1>3. trainer'[t] = x
  BY <1>2 DEF TrainInv, TrainTypeOK
<1>4. TrainingOk(t)'
  BY <1>1, <1>2, <1>3 DEF HashFile, history, TrainingOk, Inserting, Promoting
<1>5. QED BY <1>2, <1>4, TrainingFacts, SameRows, OneTraining DEF HashFile, history, serveVars

LEMMA RegisterStep ==
    ASSUME TrainInv, NEW t \in Trainers, Register(t)
    PROVE  TrainInv'
<1> DEFINE y == trainer[t]
           x == [y EXCEPT !.pc = "registered", !.id = nextId]
<1>0. nextId <= MaxModels /\ MaxModels \in Nat /\ nextId' = nextId + 1
  BY RegistryTypes DEF Register
<1>1. /\ y \in Training /\ y.pc = "hashed" /\ y.data \in Data /\ y.version \in Seconds
      /\ y.version \in rewritten \/ y.sha = y.data
      /\ nextId \in Ids /\ nextId' \in 1..(MaxModels + 1) /\ nextId < nextId' /\ nextId <= nextId'
  BY <1>0, TrainingFacts DEF Register, TrainingOk, Ids
<1>2. /\ x \in Training /\ x.pc = "registered" /\ x.data = y.data /\ x.version = y.version
      /\ x.sha = y.sha /\ x.id = nextId /\ trainer' = [trainer EXCEPT ![t] = x]
  BY <1>1 DEF Register, Training
<1> HIDE DEF x
<1>3. /\ trainer'[t] = x /\ \A q \in Trainers : q # t => trainer'[q] = trainer[q]
  BY <1>2 DEF TrainInv, TrainTypeOK
<1>4. \A q \in Trainers : Inserting(q) => trainer[q].id \in Nat /\ trainer[q].id < nextId
  BY RegistryTypes DEF TrainInv, TrainingOk
<1>5. \A q \in Trainers \ {t} : Inserting(q) => trainer[q].id # nextId
  BY <1>4, TrainingFacts
<1>6. \A r \in models : r.id # nextId
  <2>1. \A r \in models : r.id < nextId /\ r.id \in Nat
    BY RegistryTypes, TrainingFacts DEF TrainInv, RowsOk, ModelVersion
  <2>2. QED BY <2>1, TrainingFacts
<1>7. TrainingOk(t)'
  BY <1>1, <1>2, <1>3, <1>5, <1>6 DEF Register, history, TrainingOk, Inserting, Promoting
<1>8. QED BY <1>1, <1>2, <1>5, <1>7, TrainingFacts, OneTraining DEF Register, history, serveVars

LEMMA StartPromotionStep ==
    ASSUME TrainInv, NEW t \in Trainers, StartPromotion(t)
    PROVE  TrainInv'
<1> DEFINE y == trainer[t]
           x == [y EXCEPT !.pc = "archiving", !.seen = {r.id : r \in Production(models)}]
           with == {{y.id, trainer[q].id} : q \in {q \in Trainers \ {t} : Promoting(q)}}
<1>1. /\ y \in Training /\ y.pc = "registered" /\ y.data \in Data /\ y.version \in Seconds
      /\ y.version \in rewritten \/ y.sha = y.data
      /\ y.id \in Ids /\ y.id < nextId /\ \A r \in models : r.id # y.id
      /\ \A q \in Trainers \ {t} : Inserting(q) => trainer[q].id # y.id
  BY TrainingFacts DEF StartPromotion, TrainingOk, Inserting
<1>2. {r.id : r \in Production(models)} \in SUBSET Ids
  BY TrainingFacts DEF Production, ModelVersion
<1>3. /\ x \in Training /\ x.pc = "archiving" /\ x.data = y.data /\ x.version = y.version
      /\ x.sha = y.sha /\ x.id = y.id /\ x.seen = {r.id : r \in Production(models)}
      /\ trainer' = [trainer EXCEPT ![t] = x]
  BY <1>1, <1>2 DEF StartPromotion, Training
<1>4. overlaps' = overlaps \cup with
  BY DEF StartPromotion
<1>5. with \in SUBSET SUBSET Ids
  <2>1. \A q \in Trainers \ {t} : Promoting(q) => trainer[q].id \in Ids
    BY DEF TrainInv, TrainingOk, Inserting, Promoting
  <2>2. QED BY <1>1, <2>1
<1>6. \A q \in Trainers \ {t} : Promoting(q) => {y.id, trainer[q].id} \in with
  OBVIOUS
<1> HIDE DEF x, with
<1>7. /\ trainer'[t] = x /\ \A q \in Trainers : q # t => trainer'[q] = trainer[q]
  BY <1>3 DEF TrainInv, TrainTypeOK
<1>8. /\ overlaps' \in SUBSET SUBSET Ids /\ overlaps \subseteq overlaps'
      /\ \A q \in Trainers \ {t} : Promoting(q) => {x.id, trainer[q].id} \in overlaps'
  BY <1>3, <1>4, <1>5, <1>6, TrainingFacts
<1>9. TrainingOk(t)'
  <2>1. \A q \in Trainers \ {t} : (Promoting(q)' => Promoting(q)) /\ (Inserting(q)' => Inserting(q))
    BY <1>7 DEF Promoting, Inserting
  <2>2. \A q \in Trainers \ {t} : Promoting(q)' => Overlapped(trainer[q].id, trainer[t].id)'
    <3>1. \A q \in Trainers \ {t} : Promoting(q) => {trainer[q].id, x.id} \in overlaps'
      BY <1>8
    <3>2. QED BY <1>7, <2>1, <3>1 DEF Overlapped
  <2>3. UNCHANGED <<models, files, rewritten, nextId>>
    BY DEF StartPromotion
  <2>4. \A r \in Production(models)' : r.id \in x.seen
    BY <1>3, <2>3 DEF Production
  <2>5. QED BY <1>1, <1>3, <1>7, <2>1, <2>2, <2>3, <2>4 DEF TrainingOk, Inserting, Promoting
<1>10. QED BY <1>1, <1>3, <1>8, <1>9, TrainingFacts, SameRows, OneTraining DEF StartPromotion

LEMMA ArchiveStep ==
    ASSUME TrainInv, NEW t \in Trainers, Archive(t)
    PROVE  TrainInv'
<1> DEFINE y == trainer[t]
           x == [y EXCEPT !.pc = "promoted", !.archived = Archived(t)]
<1>1. /\ y \in Training /\ y.pc = "archiving" /\ y.data \in Data /\ y.version \in Seconds
      /\ y.version \in rewritten \/ y.sha = y.data
      /\ y.id \in Ids /\ y.id < nextId /\ \A r \in models : r.id # y.id
      /\ \A q \in Trainers \ {t} : Inserting(q) => trainer[q].id # y.id
      /\ \A r \in Production(models) : r.id \in y.seen \/ Overlapped(r.id, y.id)
      /\ \A q \in Trainers \ {t} : Promoting(q) => Overlapped(trainer[q].id, y.id)
  BY TrainingFacts DEF Archive, TrainingOk, Inserting, Promoting
<1>2. Archived(t) \in SUBSET Ids
  BY TrainingFacts DEF Archived, Production, ModelVersion
<1>3. /\ x \in Training /\ x.pc = "promoted" /\ x.data = y.data /\ x.version = y.version
      /\ x.sha = y.sha /\ x.id = y.id /\ x.seen = y.seen /\ x.archived = Archived(t)
      /\ trainer' = [trainer EXCEPT ![t] = x]
  BY <1>1, <1>2 DEF Archive, Training
<1> HIDE DEF x
<1>4. /\ trainer'[t] = x /\ \A q \in Trainers : q # t => trainer'[q] = trainer[q]
  BY <1>3 DEF TrainInv, TrainTypeOK
<1>5. UNCHANGED <<models, files, rewritten, nextId, overlaps, now>>
  BY DEF Archive, history
<1>6. \A q \in Trainers \ {t} : Promoting(q) => {x.id, trainer[q].id} \in overlaps'
  BY <1>1, <1>3, <1>5 DEF Overlapped
<1>7. TrainingOk(t)'
  <2>1. \A q \in Trainers \ {t} : (Promoting(q)' => Promoting(q)) /\ (Inserting(q)' => Inserting(q))
    BY <1>4 DEF Promoting, Inserting
  <2>2. \A r \in Production(models)' : r.id \in x.archived \/ Overlapped(r.id, x.id)
    BY <1>1, <1>3, <1>5 DEF Production, Archived
  <2>3. Production(models)' = Production(models)
    BY <1>5 DEF Production
  <2>4. \A i, j : Overlapped(i, j)' <=> Overlapped(i, j)
    BY <1>5 DEF Overlapped
  <2>5. QED BY <1>1, <1>3, <1>4, <1>5, <2>1, <2>2, <2>3, <2>4 DEF TrainingOk, Inserting, Promoting
<1>8. QED BY <1>1, <1>3, <1>5, <1>6, <1>7, TrainingFacts, SameRows, OneTraining

LEMMA AbandonStep ==
    ASSUME TrainInv, NEW t \in Trainers, RegisterFails(t) \/ TrainerDies(t)
    PROVE  TrainInv'
<1>1. trainer' = [trainer EXCEPT ![t] = NoTraining] /\ UNCHANGED <<now, files, models, nextId, rewritten, overlaps>>
  BY DEF RegisterFails, TrainerDies, history
<1>2. trainer'[t] = NoTraining
  BY <1>1 DEF TrainInv, TrainTypeOK
<1>3. TrainingOk(t)'
  BY <1>2, RegistryTypes DEF TrainingOk, Inserting, Promoting
<1>4. QED BY <1>1, <1>3, RegistryTypes, TrainingFacts, SameRows, OneTraining

LEMMA NextSecondStep == ASSUME TrainInv, NextSecond PROVE TrainInv'
<1>1. now' \in Seconds
  BY RegistryTypes DEF NextSecond, TrainInv, TrainTypeOK, Seconds
<1>2. UNCHANGED <<files, models, nextId, trainer, rewritten, overlaps>>
  BY DEF NextSecond, history
<1>3. TrainTypeOK'
  BY <1>1, <1>2 DEF TrainInv, TrainTypeOK
<1>4. RowsOk' /\ ProductionUnlessOverlap' /\ \A t \in Trainers : TrainingOk(t)'
  BY <1>2 DEF TrainInv, RowsOk, ProductionUnlessOverlap, Production, TrainingOk, Inserting, Promoting, Overlapped
<1>5. QED BY <1>3, <1>4 DEF TrainInv

(* A row is committed, and others archived.                                *)
Archiving(A) ==
    {IF r.id \in A THEN [r EXCEPT !.stage = "archived"] ELSE r : r \in models}

(* Rows keep their place: only a stage changes, never back to staging.     *)
RowsKept ==
    \A r \in models : \E s \in models' :
       /\ s.id = r.id /\ s.version = r.version /\ s.data = r.data /\ s.sha = r.sha
       /\ r.stage # "staging" => s.stage # "staging"

LEMMA CommitRow ==
    ASSUME TrainInv, NEW t \in Trainers, Inserting(t),
           NEW A, NEW stage \in {"staging", "production"},
           trainer' = [trainer EXCEPT ![t] = NoTraining],
           models' = Archiving(A) \cup {NewVersion(t, stage)},
           stage = "production" => trainer[t].pc = "promoted" /\ A = trainer[t].archived,
           UNCHANGED <<now, files, nextId, rewritten, overlaps>>
    PROVE  TrainInv' /\ RowsKept
<1> DEFINE n == NewVersion(t, stage)
           y == trainer[t]
<1>1. /\ y \in Training /\ y.data \in Data /\ y.version \in Seconds /\ y.id \in Ids
      /\ y.version \in rewritten \/ y.sha = y.data
      /\ y.id < nextId /\ \A r \in models : r.id # y.id
      /\ \A q \in Trainers \ {t} : Inserting(q) => trainer[q].id # y.id
  BY TrainingFacts DEF TrainingOk, Inserting
<1>2. y.sha \in Data \cup {None}
  BY <1>1 DEF Training
<1>3. /\ n \in ModelVersion /\ n.id = y.id /\ n.version = y.version /\ n.data = y.data
      /\ n.sha = y.sha /\ n.stage = stage
  BY <1>1, <1>2 DEF NewVersion, ModelVersion
<1>4. \A s \in models' : s = n \/ \E r \in models :
         /\ s \in ModelVersion
         /\ s = IF r.id \in A THEN [r EXCEPT !.stage = "archived"] ELSE r
         /\ s.id = r.id /\ s.version = r.version /\ s.data = r.data /\ s.sha = r.sha
         /\ s.stage = "production" => s = r /\ r.id \notin A
  BY TrainingFacts DEF Archiving, ModelVersion
<1>5. n \in models' /\ RowsKept
  <2>1. ASSUME NEW r \in models
        PROVE  \E s \in models' :
                  /\ s.id = r.id /\ s.version = r.version /\ s.data = r.data /\ s.sha = r.sha
                  /\ r.stage # "staging" => s.stage # "staging"
    <3> DEFINE s == IF r.id \in A THEN [r EXCEPT !.stage = "archived"] ELSE r
    <3>1. s \in models'
      BY DEF Archiving
    <3>2. /\ s.id = r.id /\ s.version = r.version /\ s.data = r.data /\ s.sha = r.sha
          /\ r.stage # "staging" => s.stage # "staging"
      BY TrainingFacts DEF ModelVersion
    <3>3. QED BY <3>1, <3>2
  <2>2. QED BY <2>1 DEF RowsKept
<1> HIDE DEF n
<1>6. /\ trainer' \in [Trainers -> Training] /\ trainer'[t] = NoTraining
      /\ \A q \in Trainers : q # t => trainer'[q] = trainer[q]
  BY RegistryTypes DEF TrainInv, TrainTypeOK
<1>7. TrainTypeOK'
  BY <1>3, <1>4, <1>6 DEF TrainInv, TrainTypeOK
<1>8. RowsOk'
  <2>1. \A r \in models : /\ r.id < nextId
                          /\ r.version \in rewritten \/ r.data = r.sha
                          /\ \A q \in models : q.id = r.id => q = r
    BY DEF TrainInv, RowsOk
  <2>2. \A s \in models' : s.id < nextId /\ (s.version \in rewritten \/ s.data = s.sha)
    <3>1. n.id < nextId /\ (n.version \in rewritten \/ n.data = n.sha)
      BY <1>1, <1>3
    <3>2. ASSUME NEW s \in models', s # n
          PROVE  s.id < nextId /\ (s.version \in rewritten \/ s.data = s.sha)
      <4>1. PICK r \in models : s.id = r.id /\ s.version = r.version /\ s.data = r.data /\ s.sha = r.sha
        BY <1>4, <3>2
      <4>2. QED BY <2>1, <4>1
    <3>3. QED BY <3>1, <3>2
  <2>3. \A s \in models' : s.id = n.id => s = n
    BY <1>1, <1>3, <1>4
  <2>4. \A s, u \in models' : s # n /\ u # n /\ s.id = u.id => s = u
    BY <1>4, <2>1
  <2>5. \A s, u \in models' : s.id = u.id => s = u
    BY <2>3, <2>4
  <2>6. QED BY <2>2, <2>5 DEF RowsOk
<1>9. \A s \in Production(models)' : s = n \/ (s \in Production(models) /\ s.id \notin A)
  BY <1>4 DEF Production
<1>10. \A i, j : Overlapped(i, j)' <=> Overlapped(i, j)
  BY DEF Overlapped
<1>11. \A i, j : Overlapped(i, j) => Overlapped(j, i)
  <2>1. \A i, j : {i, j} = {j, i}
    OBVIOUS
  <2>2. QED BY <2>1 DEF Overlapped
<1>12. ProductionUnlessOverlap'
  <2>1. \A q, r \in Production(models) : q # r => Overlapped(q.id, r.id)
    BY DEF TrainInv, ProductionUnlessOverlap, Overlapped
  <2>2. n \in Production(models)' => \A r \in Production(models) : r.id \notin A => Overlapped(r.id, n.id)
    <3>1. n \in Production(models)' => stage = "production"
      BY <1>3 DEF Production
    <3>2. QED BY <1>3, <3>1, TrainingFacts DEF TrainingOk
  <2>3. \A q, r \in Production(models)' : q # r => Overlapped(q.id, r.id)
    BY <1>9, <1>11, <2>1, <2>2
  <2>4. QED BY <1>10, <2>3 DEF ProductionUnlessOverlap, Overlapped
<1>13. ASSUME NEW q \in Trainers PROVE TrainingOk(q)'
  <2>1. CASE q = t
    BY <1>6, <2>1, RegistryTypes DEF TrainingOk, Inserting, Promoting
  <2>2. CASE q # t
    <3>1. TrainingOk(q) /\ trainer'[q] = trainer[q]
      BY <1>6, <2>2 DEF TrainInv
    <3>2. \A s \in Trainers \ {q} : /\ Inserting(s)' => Inserting(s) /\ trainer'[s] = trainer[s]
                                    /\ Promoting(s)' => Promoting(s) /\ trainer'[s] = trainer[s]
      BY <1>6, RegistryTypes DEF Inserting, Promoting
    <3>3. Inserting(q) => \A s \in models' : s.id # trainer[q].id
      BY <1>1, <1>3, <1>4, <2>2, <3>1 DEF TrainingOk
    <3>4. /\ Promoting(q) => \A s \in Production(models)' : s.id \in trainer[q].seen \/ Overlapped(s.id, trainer[q].id)
          /\ trainer[q].pc = "promoted" => \A s \in Production(models)' : s.id \in trainer[q].archived \/ Overlapped(s.id, trainer[q].id)
      <4>1. n \in Production(models)' /\ Promoting(q) => Overlapped(n.id, trainer[q].id)
        <5>1. n \in Production(models)' => Promoting(t)
          BY <1>3 DEF Production, Promoting
        <5>2. QED BY <1>3, <2>2, <3>1, <5>1 DEF TrainingOk
      <4>2. trainer[q].pc = "promoted" => Promoting(q)
        BY DEF Promoting
      <4>3. QED BY <1>9, <3>1, <4>1, <4>2 DEF TrainingOk
    <3>5. (Inserting(q)' <=> Inserting(q)) /\ (Promoting(q)' <=> Promoting(q))
      BY <3>1 DEF Inserting, Promoting
    <3>6. Inserting(q)' => /\ trainer'[q].id \in Ids /\ trainer'[q].id < nextId'
                           /\ \A s \in models' : s.id # trainer'[q].id
                           /\ \A s \in Trainers \ {q} : Inserting(s)' => trainer'[s].id # trainer'[q].id
      BY <3>1, <3>2, <3>3, <3>5 DEF TrainingOk
    <3>7. Promoting(q)' => \A s \in Trainers \ {q} : Promoting(s)' => Overlapped(trainer[s].id, trainer[q].id)'
      BY <1>10, <3>1, <3>2, <3>5 DEF TrainingOk
    <3>8. /\ trainer[q].pc # "idle" => trainer[q].data \in Data /\ trainer[q].version \in Seconds
          /\ trainer[q].pc = "dumped" => trainer[q].version \in rewritten' \/ files'[trainer[q].version] = trainer[q].data
          /\ trainer[q].pc \in {"hashed", "registered", "archiving", "promoted"} =>
               trainer[q].version \in rewritten' \/ trainer[q].sha = trainer[q].data
      BY <3>1 DEF TrainingOk
    <3>9. /\ Promoting(q)' => \A s \in Production(models)' : (s.id \in trainer[q].seen \/ Overlapped(s.id, trainer[q].id))'
          /\ (trainer[q].pc = "promoted")' => \A s \in Production(models)' : (s.id \in trainer[q].archived \/ Overlapped(s.id, trainer[q].id))'
      BY <1>10, <3>1, <3>4, <3>5
    <3>10. QED BY <3>1, <3>6, <3>7, <3>8, <3>9 DEF TrainingOk
  <2>3. QED BY <2>1, <2>2
<1>14. QED BY <1>5, <1>7, <1>8, <1>12, <1>13 DEF TrainInv

LEMMA SameRowsKept == ASSUME models' = models PROVE RowsKept
BY DEF RowsKept

LEMMA TrainingSteps ==
    ASSUME TrainInv, NEW t \in Trainers, TrainerStep(t) \/ TrainerDies(t) \/ \E d \in Data : Fit(t, d)
    PROVE  TrainInv' /\ RowsKept /\ rewritten \subseteq rewritten' /\ UNCHANGED serveVars
<1>1. CASE KeepInStaging(t)
  <2>1. Inserting(t)
    BY <1>1 DEF KeepInStaging, Inserting
  <2>2. Archiving({}) = models
    BY DEF Archiving
  <2>3. /\ models' = Archiving({}) \cup {NewVersion(t, "staging")}
        /\ trainer' = [trainer EXCEPT ![t] = NoTraining]
        /\ UNCHANGED <<now, files, nextId, rewritten, overlaps, serveVars>>
    BY <1>1, <2>2 DEF KeepInStaging, history
  <2>4. QED BY <2>1, <2>3, CommitRow
<1>2. CASE CommitPromotion(t)
  <2>1. Inserting(t) /\ trainer[t].pc = "promoted"
    BY <1>2 DEF CommitPromotion, Inserting
  <2>2. /\ models' = Archiving(trainer[t].archived) \cup {NewVersion(t, "production")}
        /\ trainer' = [trainer EXCEPT ![t] = NoTraining]
        /\ UNCHANGED <<now, files, nextId, rewritten, overlaps, serveVars>>
    BY <1>2 DEF CommitPromotion, Promoted, Archiving, history
  <2>3. QED BY <2>1, <2>2, CommitRow
<1>3. CASE \E d \in Data : Fit(t, d)
  BY <1>3, FitStep, SameRowsKept DEF Fit, history
<1>4. CASE Dump(t)
  BY <1>4, DumpStep, SameRowsKept DEF Dump
<1>5. CASE HashFile(t)
  BY <1>5, HashFileStep, SameRowsKept DEF HashFile, history
<1>6. CASE Register(t)
  BY <1>6, RegisterStep, SameRowsKept DEF Register, history
<1>7. CASE RegisterFails(t) \/ TrainerDies(t)
  BY <1>7, AbandonStep, SameRowsKept DEF RegisterFails, TrainerDies, history
<1>8. CASE StartPromotion(t)
  BY <1>8, StartPromotionStep, SameRowsKept DEF StartPromotion
<1>9. CASE Archive(t)
  BY <1>9, ArchiveStep, SameRowsKept DEF Archive, history
<1>10. QED
  BY <1>1, <1>2, <1>3, <1>4, <1>5, <1>6, <1>7, <1>8, <1>9 DEF TrainerStep

LEMMA PromotedIdKept == ASSUME RowsKept, NEW i, PromotedId(i) PROVE PromotedId(i)'
BY DEF RowsKept, PromotedId

(* Training leaves alone what is served and scored.                        *)
LEMMA ServingKept ==
    ASSUME ServeInv, RowsKept, rewritten \subseteq rewritten', UNCHANGED serveVars
    PROVE  ServeInv'
<1>1. UNCHANGED <<cache, thread, alerts, predictions>>
  BY DEF serveVars
<1>2. ServeTypeOK'
  BY <1>1 DEF ServeInv, ServeTypeOK
<1>3. ServedVerified'
  <2>1. ASSUME NEW p \in Processes, cache[p].id # None
        PROVE  \E r \in models' : /\ r.id = cache[p].id /\ r.sha = cache[p].artifact
                                  /\ r.version \in rewritten' \/ r.data = r.sha
    <3>1. PICK r \in models : /\ r.id = cache[p].id /\ r.sha = cache[p].artifact
                              /\ r.version \in rewritten \/ r.data = r.sha
      BY <2>1 DEF ServeInv, ServedVerified
    <3>2. PICK s \in models' : s.id = r.id /\ s.version = r.version /\ s.data = r.data /\ s.sha = r.sha
      BY DEF RowsKept
    <3>3. QED BY <3>1, <3>2
  <2>2. QED BY <1>1, <2>1 DEF ServedVerified
<1>4. ScoresTraceable'
  BY <1>1, PromotedIdKept DEF ServeInv, ScoresTraceable, PromotedId
<1>5. ASSUME NEW th \in Threads PROVE CallOk(th)'
  BY <1>1, PromotedIdKept DEF ServeInv, CallOk
<1>6. ASSUME NEW p \in Processes PROVE CacheOk(p)'
  BY <1>1, PromotedIdKept DEF ServeInv, CacheOk
<1>7. QED BY <1>2, <1>3, <1>4, <1>5, <1>6 DEF ServeInv

(* What is trained is left alone by serving and scoring.                   *)
LEMMA TrainingKept ==
    ASSUME TrainInv, UNCHANGED trainVars
    PROVE  TrainInv'
<1>1. UNCHANGED <<now, files, models, nextId, trainer, rewritten, overlaps>>
  BY DEF trainVars, history
<1>2. QED
  BY <1>1 DEF TrainInv, TrainTypeOK, RowsOk, ProductionUnlessOverlap, Production, TrainingOk, Inserting, Promoting, Overlapped

LEMMA CallFacts ==
    ASSUME ServeInv, NEW th \in Threads
    PROVE  /\ thread[th] \in Call /\ CallOk(th) /\ ProcessOf[th] \in Processes
           /\ cache[ProcessOf[th]] \in [id : Ids \cup {None}, artifact : Data \cup {None}]
           /\ \A a \in Alerts : /\ alerts[a] \in [model : Ids \cup {None}, lock : 1..MaxLock]
                                /\ alerts[a].lock \in Nat /\ alerts[a].lock # 0
                                /\ thread[th].locks[a] \in Nat
                                /\ thread[th].scored[a] \in Ids \cup {None}
<1>1. ProcessOf[th] \in Processes
  BY DEF Processes
<1>2. \A a \in Alerts : /\ alerts[a] \in [model : Ids \cup {None}, lock : 1..MaxLock]
                        /\ thread[th].locks[a] \in 0..MaxLock
                        /\ thread[th].scored[a] \in Ids \cup {None}
  BY DEF ServeInv, ServeTypeOK, Call
<1>3. \A a \in Alerts : alerts[a].lock \in 1..MaxLock
  BY <1>2
<1>4. QED BY <1>1, <1>2, <1>3, RegistryTypes DEF ServeInv, ServeTypeOK

(* One call goes on, nothing that others can see changes.                  *)
LEMMA OneCall ==
    ASSUME ServeInv, NEW th \in Threads, NEW x \in Call,
           thread' = [thread EXCEPT ![th] = x],
           UNCHANGED <<cache, alerts, predictions, trainVars>>, CallOk(th)'
    PROVE  ServeInv'
<1>1. UNCHANGED <<cache, alerts, predictions, models, rewritten>>
  BY DEF trainVars, history
<1>2. thread' \in [Threads -> Call] /\ \A q \in Threads : q # th => thread'[q] = thread[q]
  BY DEF ServeInv, ServeTypeOK
<1>3. ServeTypeOK'
  BY <1>1, <1>2 DEF ServeInv, ServeTypeOK
<1>4. ServedVerified' /\ ScoresTraceable' /\ \A p \in Processes : CacheOk(p)'
  BY <1>1 DEF ServeInv, ServedVerified, ScoresTraceable, CacheOk, PromotedId
<1>5. ASSUME NEW q \in Threads, q # th PROVE CallOk(q)'
  BY <1>1, <1>2, <1>5 DEF ServeInv, CallOk, PromotedId
<1>6. QED BY <1>3, <1>4, <1>5 DEF ServeInv

LEMMA LookStep ==
    ASSUME ServeInv, TrainInv, NEW th \in Threads, Look(th)
    PROVE  ServeInv'
<1>1. PICK r \in models : /\ IsLatest(r, Production(models))
                          /\ thread' = [thread EXCEPT ![th].pc = "looked", ![th].model = r.id]
  BY DEF Look
<1> DEFINE y == thread[th]
           x == [y EXCEPT !.pc = "looked", !.model = r.id]
<1>2. r \in models /\ r.stage = "production" /\ r.id \in Ids
  BY <1>1 DEF IsLatest, Production, TrainInv, TrainTypeOK, ModelVersion
<1>3. UNCHANGED <<cache, alerts, predictions, trainVars, models>>
  BY DEF Look, Mutable, trainVars
<1>4. /\ x \in Call /\ x.pc = "looked" /\ x.model = r.id /\ x.locks = y.locks /\ x.scored = y.scored
      /\ thread' = [thread EXCEPT ![th] = x]
  BY <1>1, <1>2, CallFacts DEF Call
<1> HIDE DEF x
<1>5. thread'[th] = x
  BY <1>4 DEF ServeInv, ServeTypeOK
<1>6. PromotedId(x.model)
  BY <1>2, <1>4 DEF PromotedId
<1>7. CallOk(th)'
  BY <1>3, <1>4, <1>5, <1>6, CallFacts DEF CallOk, PromotedId
<1>8. QED BY <1>3, <1>4, <1>7, OneCall

LEMMA LoadStep ==
    ASSUME ServeInv, TrainInv, NEW th \in Threads, Load(th)
    PROVE  ServeInv'
<1> DEFINE y == thread[th]
           x == [y EXCEPT !.pc = "loaded"]
           p == ProcessOf[th]
           r == RowOf(y.model)
<1>1. y \in Call /\ y.pc = "looked" /\ PromotedId(y.model) /\ CallOk(th) /\ p \in Processes
  BY CallFacts DEF Load, CallOk
<1>2. r \in models /\ r.id = y.model /\ \E q \in models : q.id = y.model /\ q.stage # "staging"
  BY <1>1 DEF RowOf, PromotedId
<1>3. /\ r.id \in Ids /\ r.id # None /\ r.version \in Seconds
      /\ r.version \in rewritten \/ r.data = r.sha
  BY <1>2, RegistryTypes DEF TrainInv, RowsOk, TrainTypeOK, ModelVersion
<1>4. UNCHANGED <<alerts, predictions, trainVars, models, files, rewritten>>
  BY DEF Load, Mutable, trainVars, history
<1>5. /\ x \in Call /\ x.pc = "loaded" /\ x.model = y.model /\ x.locks = y.locks /\ x.scored = y.scored
      /\ thread' = [thread EXCEPT ![th] = x]
  BY <1>1 DEF Load, Call
<1>6. /\ cache' = [cache EXCEPT ![p] = cache'[p]]
      /\ cache'[p].id = r.id
      /\ cache' = cache \/ (cache'[p] = [id |-> r.id, artifact |-> files[r.version]] /\ files[r.version] = r.sha)
  <2>1. cache \in [Processes -> [id : Ids \cup {None}, artifact : Data \cup {None}]]
    BY DEF ServeInv, ServeTypeOK
  <2>2. CASE Cached(th)
    BY <1>1, <1>2, <2>1, <2>2 DEF Load, Cached
  <2>3. CASE ~ Cached(th)
    BY <1>1, <1>2, <2>1, <2>3 DEF Load, Cached, Verified
  <2>4. QED BY <2>2, <2>3
<1> HIDE DEF x, r
<1>7. /\ thread' \in [Threads -> Call] /\ thread'[th] = x
      /\ \A q \in Threads : q # th => thread'[q] = thread[q]
  BY <1>5 DEF ServeInv, ServeTypeOK
<1>8. /\ cache' \in [Processes -> [id : Ids \cup {None}, artifact : Data \cup {None}]]
      /\ \A q \in Processes : q # p => cache'[q] = cache[q]
  <2>1. cache \in [Processes -> [id : Ids \cup {None}, artifact : Data \cup {None}]]
    BY DEF ServeInv, ServeTypeOK
  <2>2. files[r.version] \in Data \cup {None}
    BY <1>3 DEF TrainInv, TrainTypeOK
  <2>3. cache'[p] \in [id : Ids \cup {None}, artifact : Data \cup {None}]
    BY <1>1, <1>3, <1>6, <2>1, <2>2
  <2>4. QED BY <1>1, <1>6, <2>1, <2>3
<1>9. ServeTypeOK'
  BY <1>4, <1>7, <1>8 DEF ServeInv, ServeTypeOK
<1>10. ServedVerified'
  <2>1. ASSUME NEW q \in Processes, cache'[q].id # None
        PROVE  \E s \in models : /\ s.id = cache'[q].id /\ s.sha = cache'[q].artifact
                                 /\ s.version \in rewritten \/ s.data = s.sha
    <3>1. CASE cache'[q] = cache[q]
      BY <2>1, <3>1 DEF ServeInv, ServedVerified
    <3>2. CASE cache'[q] # cache[q]
      BY <1>2, <1>3, <1>6, <1>8, <3>2
    <3>3. QED BY <3>1, <3>2
  <2>2. QED BY <1>4, <2>1 DEF ServedVerified
<1>11. ScoresTraceable'
  BY <1>4 DEF ServeInv, ScoresTraceable
<1>12. ASSUME NEW q \in Threads PROVE CallOk(q)'
  <2>1. CallOk(q) /\ ProcessOf[q] \in Processes
    BY CallFacts
  <2>2. (thread'[q].pc = "loaded") => cache'[ProcessOf[q]].id # None
    BY <1>3, <1>6, <1>7, <1>8, <2>1 DEF CallOk
  <2>3. thread'[q].locks = thread[q].locks /\ thread'[q].scored = thread[q].scored
    BY <1>5, <1>7
  <2>4. (thread'[q].pc = "looked") => PromotedId(thread'[q].model)
    BY <1>5, <1>7, <2>1 DEF CallOk
  <2>5. QED BY <1>4, <2>1, <2>2, <2>3, <2>4 DEF CallOk, PromotedId
<1>13. ASSUME NEW q \in Processes PROVE CacheOk(q)'
  BY <1>2, <1>4, <1>6, <1>8 DEF ServeInv, CacheOk, PromotedId
<1>14. QED BY <1>9, <1>10, <1>11, <1>12, <1>13 DEF ServeInv

LEMMA NoCallOk ==
    ASSUME ServeInv, NEW th \in Threads, thread'[th] = NoCall, UNCHANGED alerts
    PROVE  CallOk(th)'
<1>1. \A a \in Alerts : NoCall.locks[a] < alerts[a].lock
  BY CallFacts, RegistryTypes
<1>2. \A a \in Alerts : NoCall.locks[a] <= alerts[a].lock /\ NoCall.locks[a] # alerts[a].lock
  BY <1>1, CallFacts, RegistryTypes
<1>3. QED BY <1>2, RegistryTypes DEF CallOk

LEMMA GiveUpStep ==
    ASSUME ServeInv, NEW th \in Threads, Refuse(th) \/ Ready(th) \/ ScoringFails(th)
    PROVE  ServeInv'
<1>1. thread' = [thread EXCEPT ![th] = NoCall] /\ UNCHANGED <<cache, alerts, predictions, trainVars>>
  BY DEF Refuse, Ready, ScoringFails, Mutable
<1>2. thread'[th] = NoCall
  BY <1>1 DEF ServeInv, ServeTypeOK
<1>3. CallOk(th)'
  BY <1>1, <1>2, NoCallOk
<1>4. QED BY <1>1, <1>3, RegistryTypes, OneCall

LEMMA StartScoringStep ==
    ASSUME ServeInv, NEW th \in Threads, StartScoring(th)
    PROVE  ServeInv'
<1> DEFINE locks == [a \in Alerts |-> IF a \in Unscored THEN alerts[a].lock ELSE 0]
           x == [NoCall EXCEPT !.pc = "scoring", !.locks = locks]
<1>1. locks \in [Alerts -> 0..MaxLock]
  BY RegistryTypes DEF ServeInv, ServeTypeOK
<1>2. /\ x \in Call /\ x.pc = "scoring" /\ x.locks = locks /\ x.scored = NoCall.scored
      /\ thread' = [thread EXCEPT ![th] = x]
  BY <1>1, RegistryTypes DEF StartScoring, Call
<1>3. \A a \in Alerts : locks[a] <= alerts[a].lock /\ (locks[a] = alerts[a].lock => alerts[a].model = None)
  BY CallFacts DEF Unscored
<1>4. UNCHANGED <<cache, alerts, predictions, trainVars>>
  BY DEF StartScoring, Mutable
<1> HIDE DEF x, locks
<1>5. thread'[th] = x
  BY <1>2 DEF ServeInv, ServeTypeOK
<1>6. CallOk(th)'
  BY <1>2, <1>3, <1>4, <1>5, RegistryTypes DEF CallOk
<1>7. QED BY <1>2, <1>4, <1>6, OneCall

LEMMA ScoreStep ==
    ASSUME ServeInv, NEW th \in Threads, NEW a \in Alerts, Score(th, a)
    PROVE  ServeInv'
<1> DEFINE y == thread[th]
           c == cache[ProcessOf[th]].id
           x == [y EXCEPT !.pc = "scoring", !.model = None, !.scored[a] = c]
<1>1. y \in Call /\ CallOk(th) /\ y.pc = "loaded" /\ c # None /\ c \in Ids \cup {None}
  BY CallFacts DEF Score, CallOk
<1>2. PromotedId(c)
  BY <1>1, CallFacts DEF ServeInv, CacheOk
<1>3. /\ x \in Call /\ x.pc = "scoring" /\ x.locks = y.locks
      /\ x.scored[a] = c /\ \A b \in Alerts : b # a => x.scored[b] = y.scored[b]
      /\ thread' = [thread EXCEPT ![th] = x]
  BY <1>1 DEF Score, Call
<1>4. UNCHANGED <<cache, alerts, predictions, trainVars>> /\ models' = models
  BY DEF Score, Mutable, trainVars
<1> HIDE DEF x, c
<1>5. thread'[th] = x
  BY <1>3 DEF ServeInv, ServeTypeOK
<1>6. \A i : PromotedId(i)' <=> PromotedId(i)
  BY <1>4 DEF PromotedId
<1>7. CallOk(th)'
  BY <1>1, <1>2, <1>3, <1>4, <1>5, <1>6 DEF CallOk
<1>8. QED BY <1>3, <1>4, <1>7, OneCall

(* What the scoring stage commits had no score until now, in spite of all  *)
(* other stages: their commits would have changed the lock it compares.    *)
LEMMA CommitScoresStep ==
    ASSUME ServeInv, NEW th \in Threads, CommitScores(th)
    PROVE  ServeInv'
<1> DEFINE y == thread[th]
<1>1. y \in Call /\ CallOk(th)
  BY CallFacts
<1>2. ASSUME NEW a \in Selected(th)
      PROVE  /\ alerts[a].model = None /\ predictions[a] = <<>>
             /\ y.scored[a] # None /\ y.scored[a] \in Ids /\ PromotedId(y.scored[a])
             /\ alerts[a].lock \in 1..MaxLock /\ alerts[a].lock + 1 \in 1..MaxLock
  <2>1. a \in Alerts /\ y.locks[a] # 0 /\ alerts[a].lock = y.locks[a] /\ alerts[a].lock < MaxLock
    BY <1>2 DEF Selected, CommitScores, Unchanged
  <2>2. alerts[a].model = None /\ predictions[a] = <<>>
    BY <1>1, <2>1 DEF CallOk, ServeInv, ScoresTraceable
  <2>3. y.scored[a] # None
    BY <2>1 DEF CommitScores, ToScore
  <2>4. alerts[a].lock \in 1..MaxLock /\ alerts[a].lock + 1 \in 1..MaxLock
    BY <2>1, CallFacts, RegistryTypes
  <2>5. QED BY <1>1, <2>1, <2>2, <2>3, <2>4, CallFacts DEF CallOk
<1>3. Selected(th) \subseteq Alerts
  BY DEF Selected
<1>4. /\ alerts' = [a \in Alerts |-> IF a \in Selected(th)
                                     THEN [model |-> y.scored[a], lock |-> alerts[a].lock + 1]
                                     ELSE alerts[a]]
      /\ predictions' = [a \in Alerts |-> IF a \in Selected(th)
                                          THEN Append(predictions[a], y.scored[a])
                                          ELSE predictions[a]]
      /\ thread' = [thread EXCEPT ![th] = NoCall]
      /\ UNCHANGED <<cache, models, rewritten>>
  BY DEF CommitScores, trainVars, history
<1>5. ASSUME NEW a \in Selected(th) PROVE predictions'[a] = <<y.scored[a]>>
  <2>1. ASSUME NEW i \in Ids PROVE Append(<<>>, i) = <<i>>
    OBVIOUS
  <2>2. predictions'[a] = Append(predictions[a], y.scored[a])
    BY <1>3, <1>4
  <2>3. QED BY <1>2, <2>1, <2>2
<1>6. /\ thread' \in [Threads -> Call] /\ thread'[th] = NoCall
      /\ \A q \in Threads : q # th => thread'[q] = thread[q]
  BY <1>4, RegistryTypes DEF ServeInv, ServeTypeOK
<1>7. ServeTypeOK'
  <2>1. alerts' \in [Alerts -> [model : Ids \cup {None}, lock : 1..MaxLock]]
    BY <1>2, <1>4 DEF ServeInv, ServeTypeOK
  <2>2. \A a \in Selected(th) : <<y.scored[a]>> \in Seq(Ids)
    BY <1>2
  <2>3. \A a \in Alerts : predictions'[a] \in Seq(Ids)
    BY <1>4, <1>5, <2>2 DEF ServeInv, ServeTypeOK
  <2>4. predictions' \in [Alerts -> Seq(Ids)]
    BY <1>4, <2>3
  <2>5. QED BY <1>4, <1>6, <2>1, <2>4 DEF ServeInv, ServeTypeOK
<1>8. ServedVerified' /\ \A p \in Processes : CacheOk(p)'
  BY <1>4 DEF ServeInv, ServedVerified, CacheOk, PromotedId
<1>9. ScoresTraceable'
  <2>1. ASSUME NEW a \in Alerts
        PROVE  IF alerts'[a].model = None THEN predictions'[a] = <<>>
               ELSE /\ predictions'[a] = <<alerts'[a].model>>
                    /\ \E r \in models : r.id = alerts'[a].model /\ r.stage # "staging"
    <3>1. CASE a \in Selected(th)
      <4>1. alerts'[a].model = y.scored[a]
        BY <1>4, <3>1
      <4>2. QED BY <1>2, <1>5, <3>1, <4>1 DEF PromotedId
    <3>2. CASE a \notin Selected(th)
      <4>1. alerts'[a] = alerts[a] /\ predictions'[a] = predictions[a]
        BY <1>4, <3>2
      <4>2. QED BY <4>1 DEF ServeInv, ScoresTraceable
    <3>3. QED BY <3>1, <3>2
  <2>2. QED BY <1>4, <2>1 DEF ScoresTraceable
<1>10. \A a \in Alerts : alerts'[a] = alerts[a] \/ alerts'[a].lock = alerts[a].lock + 1
  BY <1>4
<1>11. \A i : PromotedId(i)' <=> PromotedId(i)
  BY <1>4 DEF PromotedId
<1>12. ASSUME NEW q \in Threads PROVE CallOk(q)'
  <2>1. \A a \in Alerts : thread[q].locks[a] <= alerts[a].lock /\ thread[q].locks[a] \in Nat /\ alerts[a].lock \in Nat
    BY CallFacts DEF CallOk
  <2>2. CASE q = th
    <3>1. \A a \in Alerts : NoCall.locks[a] <= alerts'[a].lock /\ NoCall.locks[a] # alerts'[a].lock
      BY <1>10, CallFacts, RegistryTypes
    <3>2. QED BY <1>6, <2>2, <3>1, RegistryTypes DEF CallOk
  <2>3. CASE q # th
    <3>1. \A a \in Alerts : /\ thread[q].locks[a] <= alerts'[a].lock
                            /\ thread[q].locks[a] = alerts'[a].lock => alerts'[a] = alerts[a]
      BY <1>10, <2>1
    <3>2. QED BY <1>4, <1>6, <1>11, <2>3, <3>1, CallFacts DEF CallOk
  <2>4. QED BY <2>2, <2>3
<1>13. QED BY <1>7, <1>8, <1>9, <1>12 DEF ServeInv

LEMMA TouchStep ==
    ASSUME ServeInv, NEW a \in Alerts, Touch(a)
    PROVE  ServeInv'
<1>1. /\ alerts' = [alerts EXCEPT ![a].lock = @ + 1] /\ alerts[a].lock < MaxLock - 1
      /\ UNCHANGED <<cache, thread, predictions, models, rewritten>>
  BY DEF Touch, trainVars, history
<1>2. alerts \in [Alerts -> [model : Ids \cup {None}, lock : 1..MaxLock]]
  BY DEF ServeInv, ServeTypeOK
<1>3. \A b \in Alerts : /\ alerts'[b].model = alerts[b].model
                        /\ alerts'[b] = alerts[b] \/ alerts'[b].lock = alerts[b].lock + 1
  BY <1>1, <1>2
<1>4. ServeTypeOK'
  <2>1. alerts[a].lock \in 1..MaxLock /\ alerts[a].model \in Ids \cup {None}
    BY <1>2
  <2>2. alerts[a].lock + 1 \in 1..MaxLock
    BY <1>1, <2>1, RegistryTypes
  <2>3. alerts' \in [Alerts -> [model : Ids \cup {None}, lock : 1..MaxLock]]
    BY <1>1, <1>2, <2>1, <2>2
  <2>4. QED BY <1>1, <2>3 DEF ServeInv, ServeTypeOK
<1>5. ServedVerified' /\ \A p \in Processes : CacheOk(p)'
  BY <1>1 DEF ServeInv, ServedVerified, CacheOk, PromotedId
<1>6. ScoresTraceable'
  BY <1>1, <1>3 DEF ServeInv, ScoresTraceable
<1>7. ASSUME NEW q \in Threads PROVE CallOk(q)'
  <2>1. \A b \in Alerts : thread[q].locks[b] <= alerts[b].lock /\ thread[q].locks[b] \in Nat /\ alerts[b].lock \in Nat
    BY CallFacts DEF CallOk
  <2>2. \A b \in Alerts : /\ thread[q].locks[b] <= alerts'[b].lock
                          /\ thread[q].locks[b] = alerts'[b].lock => alerts'[b] = alerts[b]
    BY <1>3, <2>1
  <2>3. QED BY <1>1, <2>2, CallFacts DEF CallOk, PromotedId
<1>8. QED BY <1>4, <1>5, <1>6, <1>7 DEF ServeInv

LEMMA RegistryStarts == RegistryInit => RegistryInv
<1> SUFFICES ASSUME RegistryInit PROVE RegistryInv
  OBVIOUS
<1>1. TrainTypeOK
  BY RegistryTypes DEF RegistryInit, TrainTypeOK, Seconds
<1>2. RowsOk /\ ProductionUnlessOverlap
  BY DEF RegistryInit, RowsOk, ProductionUnlessOverlap, Production
<1>3. \A t \in Trainers : TrainingOk(t)
  BY RegistryTypes DEF RegistryInit, TrainingOk, Inserting, Promoting
<1>4. ServeTypeOK
  BY RegistryTypes DEF RegistryInit, ServeTypeOK
<1>5. ServedVerified /\ ScoresTraceable /\ \A p \in Processes : CacheOk(p)
  BY DEF RegistryInit, ServedVerified, ScoresTraceable, CacheOk
<1>6. \A th \in Threads : CallOk(th)
  BY RegistryTypes DEF RegistryInit, CallOk
<1>7. QED BY <1>1, <1>2, <1>3, <1>4, <1>5, <1>6 DEF RegistryInv, TrainInv, ServeInv

LEMMA RegistrySteps == RegistryInv /\ [RegistryNext]_registryVars => RegistryInv'
<1> SUFFICES ASSUME TrainInv, ServeInv, [RegistryNext]_registryVars PROVE TrainInv' /\ ServeInv'
  BY DEF RegistryInv
<1>1. CASE NextSecond
  <2>1. models' = models /\ rewritten' = rewritten /\ UNCHANGED serveVars
    BY <1>1 DEF NextSecond, history
  <2>2. QED BY <1>1, <2>1, NextSecondStep, SameRowsKept, ServingKept
<1>2. ASSUME NEW t \in Trainers, TrainerStep(t) \/ TrainerDies(t) \/ \E d \in Data : Fit(t, d)
      PROVE  TrainInv' /\ ServeInv'
  BY <1>2, TrainingSteps, ServingKept
<1>3. ASSUME NEW th \in Threads, ThreadStep(th) PROVE TrainInv' /\ ServeInv'
  <2>1. UNCHANGED trainVars
    BY <1>3 DEF ThreadStep, Look, Load, Refuse, Ready, StartScoring, CommitScores, ScoringFails, Score, Mutable
  <2>2. ServeInv'
    BY <1>3, LookStep, LoadStep, GiveUpStep, StartScoringStep, CommitScoresStep, ScoreStep DEF ThreadStep
  <2>3. QED BY <2>1, <2>2, TrainingKept
<1>4. ASSUME NEW a \in Alerts, Touch(a) PROVE TrainInv' /\ ServeInv'
  BY <1>4, TouchStep, TrainingKept DEF Touch
<1>5. CASE UNCHANGED registryVars
  BY <1>5, TrainingKept, ServingKept, SameRowsKept DEF registryVars, trainVars, history
<1>6. QED BY <1>1, <1>2, <1>3, <1>4, <1>5 DEF RegistryNext

(* What holds together in the registry and in everything that uses it, for *)
(* any number of trainings, processes and alerts (registry.py, scoring.py).*)
THEOREM RegistryInvariant == RegistrySpec => []RegistryInv
BY RegistryStarts, RegistrySteps, PTL DEF RegistrySpec

(* The types of its state (database/models.py).                            *)
THEOREM RegistryTypesKept == RegistrySpec => []RegistryTypeOK
<1>1. RegistryInv => RegistryTypeOK
  BY DEF RegistryInv, TrainInv, ServeInv, RegistryTypeOK
<1>2. QED BY <1>1, RegistryInvariant, PTL

(* A process serves the artifact its version's row describes, unless two   *)
(* trainings ended in the same second (load_verified, _ensure).            *)
THEOREM ServesWhatWasRegistered == RegistrySpec => []ServedVerified
<1>1. RegistryInv => ServedVerified
  BY DEF RegistryInv, ServeInv
<1>2. QED BY <1>1, RegistryInvariant, PTL

(* Two versions are in production only if they were promoted by            *)
(* transactions that overlapped (promote).                                 *)
THEOREM OneProductionUnlessOverlap == RegistrySpec => []ProductionUnlessOverlap
<1>1. RegistryInv => ProductionUnlessOverlap
  BY DEF RegistryInv, TrainInv
<1>2. QED BY <1>1, RegistryInvariant, PTL

(* A score has exactly one prediction, of a version that was promoted      *)
(* (score_all_alerts).                                                     *)
THEOREM ScoresHaveOnePrediction == RegistrySpec => []ScoresTraceable
<1>1. RegistryInv => ScoresTraceable
  BY DEF RegistryInv, ServeInv
<1>2. QED BY <1>1, RegistryInvariant, PTL

(* Once there is a version in production there always is one (promote).    *)
THEOREM AlwaysServed == RegistrySpec => StaysServed
<1>1. ASSUME TrainInv, [RegistryNext]_registryVars, Production(models) # {}
      PROVE  Production(models)' # {}
  <2>1. CASE models' = models
    BY <1>1, <2>1 DEF Production
  <2>2. ASSUME NEW t \in Trainers, KeepInStaging(t) PROVE Production(models)' # {}
    BY <1>1, <2>2 DEF KeepInStaging, Production
  <2>3. ASSUME NEW t \in Trainers, CommitPromotion(t) PROVE Production(models)' # {}
    <3>1. NewVersion(t, "production") \in models' /\ NewVersion(t, "production").stage = "production"
      BY <2>3 DEF CommitPromotion, Promoted, NewVersion
    <3>2. QED BY <3>1 DEF Production
  <2>4. UNCHANGED registryVars => models' = models
    BY DEF registryVars, trainVars
  <2>5. QED
    BY <1>1, <2>1, <2>2, <2>3, <2>4 DEF RegistryNext, NextSecond, TrainerStep, TrainerDies, Fit, Dump,
       HashFile, Register, RegisterFails, StartPromotion, Archive, ThreadStep, Look, Load, Refuse, Ready,
       StartScoring, CommitScores, ScoringFails, Score, Touch, Mutable, trainVars
<1>2. RegistryInv => TrainInv
  BY DEF RegistryInv
<1>3. QED BY <1>1, <1>2, RegistryInvariant, PTL DEF RegistrySpec, StaysServed
-----------------------------------------------------------------------------
(* Logging in.                                                             *)

LEMMA RecordedFinite ==
    ASSUME NEW u
    PROVE  /\ IsFiniteSet(FailuresRecorded(u)) /\ Cardinality(FailuresRecorded(u)) \in Nat
           /\ IsFiniteSet(SuccessesRecorded(u)) /\ Cardinality(SuccessesRecorded(u)) \in Nat
<1>1. FailuresRecorded(u) \in SUBSET Handlers /\ SuccessesRecorded(u) \in SUBSET Handlers
  BY DEF FailuresRecorded, SuccessesRecorded, Recorded
<1>2. QED BY <1>1, AccessAssumption, FS_Subset, FS_CardinalityType

(* A set of handlers that loses some, or gains one.                        *)
LEMMA FewerHandlers ==
    ASSUME NEW S, IsFiniteSet(S), NEW T \in SUBSET S
    PROVE  Cardinality(T) <= Cardinality(S) /\ Cardinality(T) \in Nat /\ Cardinality(S) \in Nat
BY FS_Subset, FS_CardinalityType

LEMMA OneMoreHandler ==
    ASSUME NEW S, IsFiniteSet(S), NEW t, NEW T \in SUBSET (S \cup {t})
    PROVE  Cardinality(T) <= Cardinality(S) + 1 /\ Cardinality(T) \in Nat /\ Cardinality(S) \in Nat
<1>1. Cardinality(S) \in Nat
  BY FS_CardinalityType
<1>2. /\ IsFiniteSet(S \cup {t})
      /\ Cardinality(S \cup {t}) = IF t \in S THEN Cardinality(S) ELSE Cardinality(S) + 1
  BY FS_AddElement
<1>3. Cardinality(S \cup {t}) <= Cardinality(S) + 1
  BY <1>1, <1>2
<1>4. /\ Cardinality(T) <= Cardinality(S \cup {t}) /\ Cardinality(T) \in Nat
      /\ Cardinality(S \cup {t}) \in Nat
  BY <1>2, FewerHandlers
<1>5. QED BY <1>1, <1>3, <1>4

LEMMA LoginFacts ==
    ASSUME LoginInv, NEW t \in Handlers
    PROVE  /\ login[t] \in Login /\ LoginOk(t) /\ None \notin Usernames
           /\ NoLogin \in Login /\ NoLogin.pc = "idle" /\ NoLogin.user = None
           /\ failed \in [Usernames -> 0..MaxFailed] /\ MaxFailed \in Nat \ {0}
           /\ events \in [Usernames -> [failed : Nat, succeeded : Nat]]
           /\ outcomes \in [Usernames -> [failed : Nat, succeeded : Nat, streak : Nat]]
           /\ overlapped \subseteq Usernames
BY AccessAssumption DEF LoginInv, AccessTypeOK, NoLogin, Login

(* What a handler knows of a user that no other handler has to do with.    *)
LEMMA OneLogin ==
    ASSUME LoginInv, NEW t \in Handlers, NEW x \in Login,
           login' = [login EXCEPT ![t] = x],
           x.user = login[t].user \/ x.user = None, overlapped' = overlapped,
           x.user # None <=> x.pc \in {"checked", "recorded"}, x.read = login[t].read \/ x.user = None,
           \A u \in Usernames : failed'[u] = failed[u] \/ (u = login[t].user /\ x.user = None)
    PROVE  \A s \in Handlers : LoginOk(s)'
<1>1. /\ login'[t] = x /\ \A s \in Handlers : s # t => login'[s] = login[s]
  BY DEF LoginInv, AccessTypeOK
<1>2. CASE x.user = None
  <2>1. LoginOk(t)'
    BY <1>1, <1>2, LoginFacts DEF LoginOk
  <2>2. ASSUME NEW s \in Handlers, s # t PROVE LoginOk(s)'
    <3>1. LoginOk(s) /\ login[s] \in Login /\ login'[s] = login[s] /\ None \notin Usernames
      BY <1>1, <2>2, LoginFacts
    <3>2. ASSUME login[s].user \in Usernames \ overlapped
          PROVE  /\ login[s].read = failed'[login[s].user]
                 /\ \A q \in Handlers \ {s} : login'[q].user # login[s].user
      <4>1. login[s].user # login[t].user
        BY <2>2, <3>1, <3>2 DEF LoginOk
      <4>2. QED BY <1>1, <1>2, <3>1, <3>2, <4>1 DEF LoginOk
    <3>3. QED BY <3>1, <3>2 DEF LoginOk
  <2>3. QED BY <2>1, <2>2
<1>3. CASE x.user # None
  <2>1. \A s \in Handlers : login'[s].user = login[s].user /\ (login[s].user # None => login'[s].read = login[s].read)
    BY <1>1, <1>3
  <2>2. \A u \in Usernames : failed'[u] = failed[u]
    BY <1>3
  <2>3. ASSUME NEW s \in Handlers PROVE LoginOk(s)'
    <3>1. login'[s].user # None <=> login'[s].pc \in {"checked", "recorded"}
      BY <1>1, LoginFacts DEF LoginOk
    <3>2. QED BY <2>1, <2>2, <3>1, LoginFacts DEF LoginOk
  <2>4. QED BY <2>3
<1>4. QED BY <1>2, <1>3

(* Nobody else gets ahead of the events if one handler leaves or goes on   *)
(* before it has recorded anything.                                        *)
LEMMA NoneRecorded ==
    ASSUME LoginInv, NEW t \in Handlers, NEW x \in Login,
           login' = [login EXCEPT ![t] = x], x.pc # "recorded", UNCHANGED <<events, outcomes>>
    PROVE  EventsAhead'
<1>1. ASSUME NEW u \in Usernames
      PROVE  /\ outcomes[u].failed + Cardinality(FailuresRecorded(u)') <= events[u].failed
             /\ outcomes[u].succeeded + Cardinality(SuccessesRecorded(u)') <= events[u].succeeded
  <2> DEFINE F == FailuresRecorded(u)
             S == SuccessesRecorded(u)
  <2>1. F' \in SUBSET F /\ S' \in SUBSET S
    BY DEF FailuresRecorded, SuccessesRecorded, Recorded, LoginInv, AccessTypeOK
  <2>2. /\ Cardinality(F') <= Cardinality(F) /\ Cardinality(F') \in Nat /\ Cardinality(F) \in Nat
        /\ Cardinality(S') <= Cardinality(S) /\ Cardinality(S') \in Nat /\ Cardinality(S) \in Nat
    BY <2>1, RecordedFinite, FewerHandlers
  <2>3. /\ outcomes[u].failed + Cardinality(F) <= events[u].failed
        /\ outcomes[u].succeeded + Cardinality(S) <= events[u].succeeded
    BY DEF LoginInv, EventsAhead
  <2>4. /\ outcomes[u].failed \in Nat /\ outcomes[u].succeeded \in Nat
        /\ events[u].failed \in Nat /\ events[u].succeeded \in Nat
    BY LoginFacts
  <2> HIDE DEF F, S
  <2>5. /\ outcomes[u].failed + Cardinality(F') <= events[u].failed
        /\ outcomes[u].succeeded + Cardinality(S') <= events[u].succeeded
    BY <2>2, <2>3, <2>4
  <2>6. QED BY <2>5 DEF F, S
<1>2. QED BY <1>1 DEF EventsAhead

(* What a step of the handler leaves to be shown.                          *)
LEMMA LoginStepTypes ==
    ASSUME LoginInv, NEW t \in Handlers, NEW x \in Login,
           login' = [login EXCEPT ![t] = x], UNCHANGED limiterVars,
           failed' \in [Usernames -> 0..MaxFailed], overlapped' \in SUBSET Usernames,
           events' \in [Usernames -> [failed : Nat, succeeded : Nat]],
           outcomes' \in [Usernames -> [failed : Nat, succeeded : Nat, streak : Nat]]
    PROVE  AccessTypeOK'
BY DEF LoginInv, AccessTypeOK, limiterVars

LEMMA LeaveStep ==
    ASSUME LoginInv, NEW t \in Handlers, LoginFails(t) \/ \E u \in Usernames : RefuseLocked(t, u)
    PROVE  LoginInv' /\ UNCHANGED limiterVars
<1>1. /\ login' = [login EXCEPT ![t] = NoLogin]
      /\ UNCHANGED <<failed, events, outcomes, overlapped, limiterVars>>
  BY DEF LoginFails, RefuseLocked
<1>2. AccessTypeOK'
  BY <1>1, LoginFacts, LoginStepTypes
<1>3. EventsAhead'
  BY <1>1, LoginFacts, NoneRecorded
<1>4. \A s \in Handlers : LoginOk(s)'
  BY <1>1, LoginFacts, OneLogin
<1>5. LockoutUnlessOverlapped'
  BY <1>1 DEF LoginInv, LockoutUnlessOverlapped
<1>6. QED BY <1>1, <1>2, <1>3, <1>4, <1>5 DEF LoginInv

(* The first handler of a user's login reads the count as it is; a second  *)
(* one makes the logins overlap.                                           *)
LEMMA CompareStep ==
    ASSUME LoginInv, NEW t \in Handlers, NEW u \in Usernames, NEW right \in BOOLEAN, Compare(t, u, right)
    PROVE  LoginInv' /\ UNCHANGED limiterVars
<1> DEFINE x == [pc |-> "checked", user |-> u, right |-> right, read |-> failed[u]]
<1>1. /\ login' = [login EXCEPT ![t] = x] /\ x.pc = "checked" /\ x.user = u /\ x.read = failed[u]
      /\ overlapped' = IF Overlaps(t, u) THEN overlapped \cup {u} ELSE overlapped
      /\ UNCHANGED <<failed, events, outcomes, limiterVars>>
      /\ login[t].pc = "admitted" /\ ~ Locked(u)
  BY DEF Compare
<1>2. x \in Login /\ failed[u] < MaxFailed /\ u # None
  <2>1. failed[u] \in 0..MaxFailed
    BY LoginFacts
  <2>2. QED BY <1>1, <2>1, LoginFacts DEF Login, Locked
<1>3. overlapped' \in SUBSET Usernames /\ overlapped \subseteq overlapped'
  BY <1>1, LoginFacts
<1> HIDE DEF x
<1>4. AccessTypeOK'
  BY <1>1, <1>2, <1>3, LoginFacts, LoginStepTypes
<1>5. EventsAhead'
  BY <1>1, <1>2, NoneRecorded
<1>6. LockoutUnlessOverlapped'
  BY <1>1, <1>3 DEF LoginInv, LockoutUnlessOverlapped
<1>7. /\ login'[t] = x /\ \A s \in Handlers : s # t => login'[s] = login[s]
  BY <1>1, <1>2 DEF LoginInv, AccessTypeOK
<1>8. u \notin overlapped' => \A s \in Handlers \ {t} : login[s].user # u
  BY <1>1 DEF Overlaps
<1>9. LoginOk(t)'
  BY <1>1, <1>2, <1>7, <1>8 DEF LoginOk
<1>10. ASSUME NEW s \in Handlers, s # t PROVE LoginOk(s)'
  <2>1. LoginOk(s) /\ login'[s] = login[s] /\ failed' = failed
    BY <1>1, <1>7, <1>10, LoginFacts
  <2>2. ASSUME login[s].user \in Usernames \ overlapped'
        PROVE  \A q \in Handlers \ {s} : login'[q].user # login[s].user
    <3>1. login[s].user # u
      BY <1>8, <1>10, <2>2
    <3>2. QED BY <1>1, <1>3, <1>7, <2>1, <2>2, <3>1 DEF LoginOk
  <2>3. QED BY <1>3, <2>1, <2>2 DEF LoginOk
<1>11. QED BY <1>1, <1>4, <1>5, <1>6, <1>9, <1>10 DEF LoginInv

(* One more handler between event and commit, and one more event.          *)
LEMMA RecordStep ==
    ASSUME LoginInv, NEW t \in Handlers, Record(t)
    PROVE  LoginInv' /\ UNCHANGED limiterVars
<1> DEFINE y == login[t]
           x == [y EXCEPT !.pc = "recorded"]
           u == y.user
<1>1. y \in Login /\ y.pc = "checked" /\ u \in Usernames
  BY LoginFacts DEF Record, LoginOk, Login
<1>2. /\ x \in Login /\ x.pc = "recorded" /\ x.user = u /\ x.right = y.right /\ x.read = y.read
      /\ login' = [login EXCEPT ![t] = x]
      /\ events' = IF y.right THEN [events EXCEPT ![u].succeeded = @ + 1]
                   ELSE [events EXCEPT ![u].failed = @ + 1]
      /\ UNCHANGED <<failed, outcomes, overlapped, limiterVars>>
  BY <1>1 DEF Record, Login
<1> HIDE DEF x
<1>3. login'[t] = x /\ \A s \in Handlers : s # t => login'[s] = login[s]
  BY <1>2 DEF LoginInv, AccessTypeOK
<1>4. /\ events' \in [Usernames -> [failed : Nat, succeeded : Nat]]
      /\ \A v \in Usernames : /\ events'[v].failed = events[v].failed + (IF v = u /\ ~ y.right THEN 1 ELSE 0)
                          /\ events'[v].succeeded = events[v].succeeded + (IF v = u /\ y.right THEN 1 ELSE 0)
  <2>1. events \in [Usernames -> [failed : Nat, succeeded : Nat]]
    BY LoginFacts
  <2>2. CASE y.right
    BY <1>1, <1>2, <2>1, <2>2
  <2>3. CASE ~ y.right
    BY <1>1, <1>2, <2>1, <2>3
  <2>4. QED BY <2>2, <2>3
<1>5. AccessTypeOK'
  BY <1>2, <1>4, LoginFacts, LoginStepTypes
<1>6. LockoutUnlessOverlapped'
  BY <1>2 DEF LoginInv, LockoutUnlessOverlapped
<1>7. \A s \in Handlers : LoginOk(s)'
  BY <1>1, <1>2, LoginFacts, OneLogin
<1>8. ASSUME NEW v \in Usernames
      PROVE  /\ outcomes[v].failed + Cardinality(FailuresRecorded(v)') <= events'[v].failed
             /\ outcomes[v].succeeded + Cardinality(SuccessesRecorded(v)') <= events'[v].succeeded
  <2> DEFINE F == FailuresRecorded(v)
             S == SuccessesRecorded(v)
  <2>1. /\ outcomes[v].failed + Cardinality(F) <= events[v].failed
        /\ outcomes[v].succeeded + Cardinality(S) <= events[v].succeeded
    BY DEF LoginInv, EventsAhead
  <2>2. /\ outcomes[v].failed \in Nat /\ outcomes[v].succeeded \in Nat
        /\ events[v].failed \in Nat /\ events[v].succeeded \in Nat
    BY LoginFacts
  <2>3. outcomes[v].failed + Cardinality(F') <= events'[v].failed
    <3>1. CASE v = u /\ ~ y.right
      <4>1. F' \in SUBSET (F \cup {t})
        BY <1>3 DEF FailuresRecorded, Recorded
      <4>2. Cardinality(F') <= Cardinality(F) + 1 /\ Cardinality(F') \in Nat /\ Cardinality(F) \in Nat
        BY <4>1, RecordedFinite, OneMoreHandler
      <4>3. events'[v].failed = events[v].failed + 1
        BY <1>4, <3>1
      <4> HIDE DEF F, S
      <4>4. QED BY <2>1, <2>2, <4>2, <4>3
    <3>2. CASE ~ (v = u /\ ~ y.right)
      <4>1. F' \in SUBSET F
        BY <1>2, <1>3, <3>2 DEF FailuresRecorded, Recorded
      <4>2. Cardinality(F') <= Cardinality(F) /\ Cardinality(F') \in Nat /\ Cardinality(F) \in Nat
        BY <4>1, RecordedFinite, FewerHandlers
      <4>3. events'[v].failed = events[v].failed
        BY <1>4, <2>2, <3>2
      <4> HIDE DEF F, S
      <4>4. QED BY <2>1, <2>2, <4>2, <4>3
    <3>3. QED BY <3>1, <3>2
  <2>4. outcomes[v].succeeded + Cardinality(S') <= events'[v].succeeded
    <3>1. CASE v = u /\ y.right
      <4>1. S' \in SUBSET (S \cup {t})
        BY <1>3 DEF SuccessesRecorded, Recorded
      <4>2. Cardinality(S') <= Cardinality(S) + 1 /\ Cardinality(S') \in Nat /\ Cardinality(S) \in Nat
        BY <4>1, RecordedFinite, OneMoreHandler
      <4>3. events'[v].succeeded = events[v].succeeded + 1
        BY <1>4, <3>1
      <4> HIDE DEF F, S
      <4>4. QED BY <2>1, <2>2, <4>2, <4>3
    <3>2. CASE ~ (v = u /\ y.right)
      <4>1. S' \in SUBSET S
        BY <1>2, <1>3, <3>2 DEF SuccessesRecorded, Recorded
      <4>2. Cardinality(S') <= Cardinality(S) /\ Cardinality(S') \in Nat /\ Cardinality(S) \in Nat
        BY <4>1, RecordedFinite, FewerHandlers
      <4>3. events'[v].succeeded = events[v].succeeded
        BY <1>4, <2>2, <3>2
      <4> HIDE DEF F, S
      <4>4. QED BY <2>1, <2>2, <4>2, <4>3
    <3>3. QED BY <3>1, <3>2
  <2>5. QED BY <2>3, <2>4
<1>9. EventsAhead'
  BY <1>2, <1>8 DEF EventsAhead
<1>10. QED BY <1>2, <1>5, <1>6, <1>7, <1>9 DEF LoginInv

LEMMA OneHandlerLess ==
    ASSUME NEW S, IsFiniteSet(S), NEW t \in S, NEW T \in SUBSET (S \ {t})
    PROVE  Cardinality(T) + 1 <= Cardinality(S) /\ Cardinality(T) \in Nat /\ Cardinality(S) \in Nat
<1>1. Cardinality(S) \in Nat
  BY FS_CardinalityType
<1>2. /\ IsFiniteSet(S \ {t})
      /\ Cardinality(S \ {t}) = IF t \in S THEN Cardinality(S) - 1 ELSE Cardinality(S)
  BY FS_RemoveElement
<1>3. Cardinality(T) <= Cardinality(S \ {t}) /\ Cardinality(T) \in Nat
  BY <1>2, FewerHandlers
<1>4. QED BY <1>1, <1>2, <1>3

(* The commit of a login that did not overlap with another one counts the  *)
(* failures since the last success, from a row nobody has changed since.   *)
LEMMA CommitLoginStep ==
    ASSUME LoginInv, NEW t \in Handlers, CommitLogin(t)
    PROVE  LoginInv' /\ UNCHANGED limiterVars
<1> DEFINE y == login[t]
           u == y.user
<1>1. y \in Login /\ LoginOk(t) /\ y.pc = "recorded" /\ u \in Usernames /\ y.read \in 0..MaxFailed
      /\ y.read < MaxFailed
  BY LoginFacts DEF CommitLogin, MayCommit, LoginOk, Login
<1>2. /\ login' = [login EXCEPT ![t] = NoLogin]
      /\ failed' = [failed EXCEPT ![u] = NewCount(t)]
      /\ outcomes' = IF y.right
                     THEN [outcomes EXCEPT ![u].succeeded = @ + 1, ![u].streak = 0]
                     ELSE [outcomes EXCEPT ![u].failed = @ + 1, ![u].streak = @ + 1]
      /\ UNCHANGED <<events, overlapped, limiterVars>>
  BY DEF CommitLogin
<1>3. login'[t] = NoLogin /\ \A s \in Handlers : s # t => login'[s] = login[s]
  BY <1>2 DEF LoginInv, AccessTypeOK
<1>4. /\ failed \in [Usernames -> 0..MaxFailed] /\ failed[u] \in 0..MaxFailed /\ MaxFailed \in Nat
      /\ outcomes \in [Usernames -> [failed : Nat, succeeded : Nat, streak : Nat]]
  BY <1>1, LoginFacts
<1>5. NewCount(t) \in 0..MaxFailed
  BY <1>1, <1>4 DEF NewCount
<1>6. /\ failed' \in [Usernames -> 0..MaxFailed]
      /\ \A v \in Usernames : failed'[v] = IF v = u THEN NewCount(t) ELSE failed[v]
  BY <1>1, <1>2, <1>4, <1>5
<1>7. /\ outcomes' \in [Usernames -> [failed : Nat, succeeded : Nat, streak : Nat]]
      /\ outcomes'[u].failed = outcomes[u].failed + (IF y.right THEN 0 ELSE 1)
      /\ outcomes'[u].succeeded = outcomes[u].succeeded + (IF y.right THEN 1 ELSE 0)
      /\ outcomes'[u].streak = IF y.right THEN 0 ELSE outcomes[u].streak + 1
      /\ \A v \in Usernames : v # u => outcomes'[v] = outcomes[v]
  <2>1. CASE y.right
    BY <1>1, <1>2, <1>4, <2>1
  <2>2. CASE ~ y.right
    BY <1>1, <1>2, <1>4, <2>2
  <2>3. QED BY <2>1, <2>2
<1>8. AccessTypeOK'
  BY <1>2, <1>6, <1>7, LoginFacts, LoginStepTypes
<1>9. \A s \in Handlers : LoginOk(s)'
  BY <1>2, <1>6, LoginFacts, OneLogin
<1>10. LockoutUnlessOverlapped'
  <2>1. ASSUME NEW v \in Usernames \ overlapped
        PROVE  failed'[v] = outcomes'[v].streak /\ outcomes'[v].streak <= MaxFailed
    <3>1. failed[v] = outcomes[v].streak /\ outcomes[v].streak <= MaxFailed
      BY DEF LoginInv, LockoutUnlessOverlapped
    <3>2. CASE v # u
      BY <1>6, <1>7, <3>1, <3>2
    <3>3. CASE v = u
      <4>1. y.read = failed[u]
        BY <1>1, <2>1, <3>3 DEF LoginOk
      <4>2. outcomes'[u].streak = NewCount(t)
        BY <1>4, <1>7, <3>1, <3>3, <4>1 DEF NewCount
      <4>3. QED BY <1>4, <1>5, <1>6, <3>3, <4>2
    <3>4. QED BY <3>2, <3>3
  <2>2. QED BY <1>2, <2>1 DEF LockoutUnlessOverlapped
<1>11. ASSUME NEW v \in Usernames
       PROVE  /\ outcomes'[v].failed + Cardinality(FailuresRecorded(v)') <= events[v].failed
              /\ outcomes'[v].succeeded + Cardinality(SuccessesRecorded(v)') <= events[v].succeeded
  <2> DEFINE F == FailuresRecorded(v)
             S == SuccessesRecorded(v)
  <2>1. /\ outcomes[v].failed + Cardinality(F) <= events[v].failed
        /\ outcomes[v].succeeded + Cardinality(S) <= events[v].succeeded
    BY DEF LoginInv, EventsAhead
  <2>2. /\ outcomes[v].failed \in Nat /\ outcomes[v].succeeded \in Nat
        /\ events[v].failed \in Nat /\ events[v].succeeded \in Nat
    BY LoginFacts
  <2>3. F' \in SUBSET (F \ {t}) /\ S' \in SUBSET (S \ {t})
    BY <1>3, LoginFacts DEF FailuresRecorded, SuccessesRecorded, Recorded
  <2>4. outcomes'[v].failed + Cardinality(F') <= events[v].failed
    <3>1. CASE v = u /\ ~ y.right
      <4>1. t \in F
        BY <1>1, <3>1 DEF FailuresRecorded, Recorded
      <4>2. Cardinality(F') + 1 <= Cardinality(F) /\ Cardinality(F') \in Nat /\ Cardinality(F) \in Nat
        BY <2>3, <4>1, RecordedFinite, OneHandlerLess
      <4>3. outcomes'[v].failed = outcomes[v].failed + 1
        BY <1>7, <3>1
      <4> HIDE DEF F, S
      <4>4. QED BY <2>1, <2>2, <4>2, <4>3
    <3>2. CASE ~ (v = u /\ ~ y.right)
      <4>1. F' \in SUBSET F
        BY <2>3
      <4>2. Cardinality(F') <= Cardinality(F) /\ Cardinality(F') \in Nat /\ Cardinality(F) \in Nat
        BY <4>1, RecordedFinite, FewerHandlers
      <4>3. outcomes'[v].failed = outcomes[v].failed
        BY <1>7, <2>2, <3>2
      <4> HIDE DEF F, S
      <4>4. QED BY <2>1, <2>2, <4>2, <4>3
    <3>3. QED BY <3>1, <3>2
  <2>5. outcomes'[v].succeeded + Cardinality(S') <= events[v].succeeded
    <3>1. CASE v = u /\ y.right
      <4>1. t \in S
        BY <1>1, <3>1 DEF SuccessesRecorded, Recorded
      <4>2. Cardinality(S') + 1 <= Cardinality(S) /\ Cardinality(S') \in Nat /\ Cardinality(S) \in Nat
        BY <2>3, <4>1, RecordedFinite, OneHandlerLess
      <4>3. outcomes'[v].succeeded = outcomes[v].succeeded + 1
        BY <1>7, <3>1
      <4> HIDE DEF F, S
      <4>4. QED BY <2>1, <2>2, <4>2, <4>3
    <3>2. CASE ~ (v = u /\ y.right)
      <4>1. S' \in SUBSET S
        BY <2>3
      <4>2. Cardinality(S') <= Cardinality(S) /\ Cardinality(S') \in Nat /\ Cardinality(S) \in Nat
        BY <4>1, RecordedFinite, FewerHandlers
      <4>3. outcomes'[v].succeeded = outcomes[v].succeeded
        BY <1>7, <2>2, <3>2
      <4> HIDE DEF F, S
      <4>4. QED BY <2>1, <2>2, <4>2, <4>3
    <3>3. QED BY <3>1, <3>2
  <2>6. QED BY <2>4, <2>5
<1>12. EventsAhead'
  BY <1>2, <1>11 DEF EventsAhead
<1>13. QED BY <1>2, <1>8, <1>9, <1>10, <1>12 DEF LoginInv

-----------------------------------------------------------------------------
(* The sliding window.                                                     *)

LEMMA CountFromOne ==
    ASSUME NEW m \in Nat PROVE IsFiniteSet(1..m) /\ Cardinality(1..m) = m
<1>1. 1 \in Int /\ m \in Int /\ (1 > m => m = 0) /\ m - 1 + 1 = m
  OBVIOUS
<1>2. IsFiniteSet(1..m) /\ Cardinality(1..m) = IF 1 > m THEN 0 ELSE m - 1 + 1
  BY <1>1, FS_Interval
<1>3. QED BY <1>1, <1>2

(* In a queue of increasing times those outside the window come first, and *)
(* Kept is what follows them.                                              *)
LEMMA KeptIsRest ==
    ASSUME time \in Nat, Window \in Nat, NEW q \in Seq(0..MaxTime), MaxTime \in Nat,
           \A i \in 1..Len(q) : \A j \in 1..i : q[j] <= q[i]
    PROVE  \E n \in 0..Len(q) :
              /\ Kept(q) \in Seq(0..MaxTime) /\ Len(Kept(q)) = Len(q) - n
              /\ \A i \in 1..(Len(q) - n) : Kept(q)[i] = q[n + i]
              /\ \A i \in 1..n : Outside(q[i])
              /\ \A i \in (n + 1)..Len(q) : ~ Outside(q[i])
<1> DEFINE old == {i \in 1..Len(q) : \A j \in 1..i : Outside(q[j])}
           n == Cardinality(old)
<1>1. Len(q) \in Nat /\ \A i \in 1..Len(q) : q[i] \in 0..MaxTime /\ q[i] \in Nat
  OBVIOUS
<1>2. IsFiniteSet(1..Len(q)) /\ Cardinality(1..Len(q)) = Len(q)
  BY <1>1, CountFromOne
<1>3. IsFiniteSet(old) /\ n <= Len(q) /\ n \in Nat
  BY <1>2, FS_Subset, FS_CardinalityType
<1>4. ASSUME NEW i \in old PROVE i \in 1..n
  <2>1. i \in 1..Len(q) /\ 1..i \in SUBSET old
    BY <1>1
  <2>2. Cardinality(1..i) = i /\ Cardinality(1..i) <= n
    <3>1. i \in Nat
      BY <1>1, <2>1
    <3>2. Cardinality(1..i) = i
      BY <3>1, CountFromOne
    <3>3. QED BY <1>3, <2>1, <3>2, FS_Subset
  <2> HIDE DEF old, n
  <2>3. QED BY <1>3, <2>1, <2>2
<1>5. old = 1..n
  <2>1. old \in SUBSET (1..n)
    BY <1>4
  <2>2. IsFiniteSet(1..n) /\ Cardinality(1..n) = n
    BY <1>3, CountFromOne
  <2>3. QED BY <2>1, <2>2, FS_Subset
<1>6. Kept(q) = SubSeq(q, n + 1, Len(q))
  BY DEF Kept
<1>7. \A i \in 1..n : i \in 1..Len(q) /\ Outside(q[i])
  BY <1>5
<1> HIDE DEF n
<1>8. ASSUME NEW i \in (n + 1)..Len(q) PROVE ~ Outside(q[i])
  <2>1. i \in 1..Len(q) /\ n + 1 \in 1..Len(q) /\ n + 1 \in 1..i /\ n + 1 \notin 1..n
    BY <1>1, <1>3, <1>8
  <2>2. n + 1 \notin old
    BY <1>5, <2>1
  <2>3. PICK j \in 1..(n + 1) : ~ Outside(q[j])
    BY <2>1, <2>2
  <2>4. j \in 1..i /\ j \in 1..Len(q)
    BY <1>1, <1>3, <2>1, <2>3
  <2>5. q[j] <= q[i] /\ q[j] \in Nat /\ q[i] \in Nat
    BY <1>1, <2>1, <2>4
  <2>6. QED BY <2>3, <2>5 DEF Outside
<1> HIDE DEF old
<1>9. /\ SubSeq(q, n + 1, Len(q)) \in Seq(0..MaxTime)
      /\ Len(SubSeq(q, n + 1, Len(q))) = IF n + 1 <= Len(q) THEN Len(q) - (n + 1) + 1 ELSE 0
      /\ \A i \in 1..(Len(q) - (n + 1) + 1) : SubSeq(q, n + 1, Len(q))[i] = q[n + 1 + i - 1]
  <2>1. n + 1 \in Int /\ Len(q) \in Int /\ \A i \in (n + 1)..Len(q) : q[i] \in 0..MaxTime
    BY <1>1, <1>3
  <2>2. QED BY <2>1, SubSeqProperties
<1>10. Len(Kept(q)) = Len(q) - n
  BY <1>1, <1>3, <1>6, <1>9
<1>11. \A i \in 1..(Len(q) - n) : Kept(q)[i] = q[n + i]
  <2>1. ASSUME NEW i \in 1..(Len(q) - n) PROVE i \in 1..(Len(q) - (n + 1) + 1) /\ n + 1 + i - 1 = n + i
    BY <1>1, <1>3
  <2>2. QED BY <1>6, <1>9, <2>1
<1>12. n \in 0..Len(q)
  BY <1>1, <1>3
<1>13. QED BY <1>6, <1>7, <1>8, <1>9, <1>10, <1>11, <1>12

LEMMA WindowFacts ==
    ASSUME AccessInv, NEW p \in Servers, NEW c \in Clients
    PROVE  /\ time \in 0..MaxTime /\ time \in Nat /\ MaxTime \in Nat /\ Window \in Nat /\ LoginLimit \in Nat \ {0}
           /\ hits[p][c] \in Seq(0..MaxTime) /\ admitted[p][c] \in Seq(0..MaxTime)
           /\ Len(hits[p][c]) \in Nat /\ Len(admitted[p][c]) \in Nat
           /\ \A i \in 1..Len(admitted[p][c]) : admitted[p][c][i] \in Nat
           /\ WindowOk(p, c)
<1>1. /\ time \in 0..MaxTime /\ MaxTime \in Nat /\ Window \in Nat /\ LoginLimit \in Nat \ {0}
      /\ hits[p][c] \in Seq(0..MaxTime) /\ admitted[p][c] \in Seq(0..MaxTime) /\ WindowOk(p, c)
  BY AccessAssumption DEF AccessInv, LoginInv, AccessTypeOK
<1>2. \A i \in 1..Len(admitted[p][c]) : admitted[p][c][i] \in 0..MaxTime
  BY <1>1
<1>3. QED BY <1>1, <1>2

(* The limiter's queue, without what has left the window: the end of what  *)
(* it let through, from the first that is within the window.               *)
LEMMA KeptOfAdmitted ==
    ASSUME AccessInv, NEW p \in Servers, NEW c \in Clients
    PROVE  LET log == admitted[p][c]
               kept == Kept(hits[p][c])
           IN  \E m \in 0..Len(log) :
                  /\ kept \in Seq(0..MaxTime) /\ Len(kept) = Len(log) - m
                  /\ \A i \in 1..(Len(log) - m) : kept[i] = log[m + i]
                  /\ \A i \in 1..m : Outside(log[i])
                  /\ \A i \in (m + 1)..Len(log) : ~ Outside(log[i])
<1> DEFINE log == admitted[p][c]
           q == hits[p][c]
           f == Len(log) - Len(q)
<1>0. /\ f >= 0
      /\ \A i \in 1..Len(log) : \A j \in 1..i : log[j] <= log[i]
      /\ \A i \in 1..Len(q) : q[i] = log[f + i]
      /\ \A i \in 1..f : Outside(log[i])
  BY WindowFacts DEF WindowOk
<1>1. /\ q \in Seq(0..MaxTime) /\ Len(q) \in Nat /\ Len(log) \in Nat /\ time \in Nat /\ MaxTime \in Nat /\ Window \in Nat
      /\ f >= 0 /\ f \in Nat
      /\ \A i \in 1..Len(log) : \A j \in 1..i : log[j] <= log[i]
      /\ \A i \in 1..Len(q) : q[i] = log[f + i]
      /\ \A i \in 1..f : Outside(log[i])
  <2>1. q \in Seq(0..MaxTime) /\ Len(q) \in Nat /\ Len(log) \in Nat /\ time \in Nat /\ MaxTime \in Nat /\ Window \in Nat
    BY WindowFacts
  <2> HIDE DEF log, q
  <2>2. f \in Nat
    BY <1>0, <2>1
  <2>3. QED BY <1>0, <2>1, <2>2
<1> HIDE DEF log, q
<1>2. ASSUME NEW i \in 1..Len(q), NEW j \in 1..i PROVE q[j] <= q[i]
  <2>1. j \in 1..Len(q) /\ f + i \in 1..Len(log) /\ f + j \in 1..(f + i)
    BY <1>1, <1>2
  <2>2. q[i] = log[f + i] /\ q[j] = log[f + j]
    BY <1>1, <2>1
  <2>3. QED BY <1>1, <2>1, <2>2
<1>3. PICK n \in 0..Len(q) :
        /\ Kept(q) \in Seq(0..MaxTime) /\ Len(Kept(q)) = Len(q) - n
        /\ \A i \in 1..(Len(q) - n) : Kept(q)[i] = q[n + i]
        /\ \A i \in 1..n : Outside(q[i])
        /\ \A i \in (n + 1)..Len(q) : ~ Outside(q[i])
  BY <1>1, <1>2, KeptIsRest
<1> DEFINE m == f + n
<1>4. m \in 0..Len(log) /\ Len(q) - n = Len(log) - m
  BY <1>1, <1>3
<1>5. ASSUME NEW i \in 1..(Len(log) - m) PROVE Kept(q)[i] = log[m + i]
  <2>1. i \in 1..(Len(q) - n) /\ n + i \in 1..Len(q) /\ f + (n + i) = m + i
    BY <1>1, <1>3, <1>4
  <2>2. Kept(q)[i] = q[n + i] /\ q[n + i] = log[f + (n + i)]
    BY <1>1, <1>3, <2>1
  <2>3. QED BY <2>1, <2>2
<1>6. ASSUME NEW i \in 1..m PROVE Outside(log[i])
  <2>1. CASE i \in 1..f
    BY <1>1, <2>1
  <2>2. CASE i \notin 1..f
    <3>1. i - f \in 1..n /\ i - f \in 1..Len(q) /\ f + (i - f) = i
      BY <1>1, <1>3, <2>2
    <3>2. q[i - f] = log[f + (i - f)] /\ Outside(q[i - f])
      BY <1>1, <1>3, <3>1
    <3>3. QED BY <3>1, <3>2
  <2>3. QED BY <2>1, <2>2
<1>7. ASSUME NEW i \in (m + 1)..Len(log) PROVE ~ Outside(log[i])
  <2>1. i - f \in (n + 1)..Len(q) /\ i - f \in 1..Len(q) /\ f + (i - f) = i
    BY <1>1, <1>3
  <2>2. q[i - f] = log[f + (i - f)] /\ ~ Outside(q[i - f])
    BY <1>1, <1>3, <2>1
  <2>3. QED BY <2>1, <2>2
<1> HIDE DEF m
<1>8. QED BY <1>3, <1>4, <1>5, <1>6, <1>7 DEF log, q

(* What is counted against a client is what it did within the window.      *)
LEMMA WindowCounts == AccessInv => WindowLimited
<1> SUFFICES ASSUME AccessInv, NEW p \in Servers, NEW c \in Clients
             PROVE  LET log == admitted[p][c]
                    IN  /\ \A i \in 1..Len(log) :
                             i + LoginLimit <= Len(log) => log[i + LoginLimit] - log[i] > Window
                        /\ Len(Kept(hits[p][c])) = Cardinality({i \in 1..Len(log) : time - log[i] <= Window})
  BY DEF WindowLimited
<1> DEFINE log == admitted[p][c]
           within == {i \in 1..Len(log) : time - log[i] <= Window}
<1>1. \A i \in 1..Len(log) : i + LoginLimit <= Len(log) => log[i + LoginLimit] - log[i] > Window
  BY WindowFacts DEF WindowOk
<1>2. PICK m \in 0..Len(log) :
        /\ Len(Kept(hits[p][c])) = Len(log) - m
        /\ \A i \in 1..m : Outside(log[i])
        /\ \A i \in (m + 1)..Len(log) : ~ Outside(log[i])
  BY KeptOfAdmitted
<1>3. Len(log) \in Nat /\ time \in Nat /\ Window \in Nat /\ \A i \in 1..Len(log) : log[i] \in Nat
  BY WindowFacts
<1> HIDE DEF log
<1>4. within = (m + 1)..Len(log)
  <2>1. ASSUME NEW i \in 1..Len(log) PROVE (time - log[i] <= Window) <=> i \in (m + 1)..Len(log)
    <3>1. (time - log[i] <= Window) <=> ~ Outside(log[i])
      BY <1>3 DEF Outside
    <3>2. i \in 1..m \/ i \in (m + 1)..Len(log)
      BY <1>2, <1>3
    <3>3. i \in 1..m => i \notin (m + 1)..Len(log)
      BY <1>2, <1>3
    <3>4. QED BY <1>2, <3>1, <3>2, <3>3
  <2>2. \A i \in (m + 1)..Len(log) : i \in 1..Len(log)
    BY <1>2, <1>3
  <2>3. QED BY <2>1, <2>2
<1>5. Cardinality((m + 1)..Len(log)) = Len(log) - m
  <2>1. Cardinality((m + 1)..Len(log)) = IF m + 1 > Len(log) THEN 0 ELSE Len(log) - (m + 1) + 1
    <3>1. m + 1 \in Int /\ Len(log) \in Int
      BY <1>2, <1>3
    <3>2. QED BY <3>1, FS_Interval
  <2>2. QED BY <1>2, <1>3, <2>1
<1>6. QED BY <1>1, <1>2, <1>4, <1>5 DEF log

(* The queue of one client changes, together with what it was let through. *)
LEMMA OneClient ==
    ASSUME AccessInv, NEW p \in Servers, NEW c \in Clients,
           NEW q \in Seq(0..MaxTime), NEW log \in Seq(0..MaxTime),
           hits' = [hits EXCEPT ![p][c] = q], admitted' = [admitted EXCEPT ![p][c] = log],
           time' = time, WindowOk(p, c)'
    PROVE  /\ hits' \in [Servers -> [Clients -> Seq(0..MaxTime)]]
           /\ admitted' \in [Servers -> [Clients -> Seq(0..MaxTime)]]
           /\ \A r \in Servers, b \in Clients : WindowOk(r, b)'
<1>1. /\ hits \in [Servers -> [Clients -> Seq(0..MaxTime)]]
      /\ admitted \in [Servers -> [Clients -> Seq(0..MaxTime)]]
  BY DEF AccessInv, LoginInv, AccessTypeOK
<1>2. ASSUME NEW r \in Servers, NEW b \in Clients PROVE WindowOk(r, b)'
  <2>1. CASE r = p /\ b = c
    BY <2>1
  <2>2. CASE ~ (r = p /\ b = c)
    <3>1. hits'[r][b] = hits[r][b] /\ admitted'[r][b] = admitted[r][b]
      BY <1>1, <2>2
    <3>2. WindowOk(r, b)
      BY DEF AccessInv
    <3>3. \A i : Outside(i)' <=> Outside(i)
      BY DEF Outside
    <3>4. QED BY <3>1, <3>2, <3>3 DEF WindowOk
  <2>3. QED BY <2>1, <2>2
<1>3. QED BY <1>1, <1>2

LEMMA AdmitStep ==
    ASSUME AccessInv, NEW t \in Handlers, NEW c \in Clients, Admit(t, c)
    PROVE  AccessInv'
<1> DEFINE p == ServerOf[t]
           x == [login[t] EXCEPT !.pc = "admitted"]
           log == admitted[p][c]
           kept == Kept(hits[p][c])
           new == Append(log, time)
           q == Append(kept, time)
<1>0. p \in Servers /\ LoginInv
  BY AccessAssumption DEF AccessInv
<1>1. /\ login' = [login EXCEPT ![t] = x] /\ login[t].pc = "idle" /\ Len(kept) < LoginLimit
      /\ hits' = [hits EXCEPT ![p][c] = q] /\ admitted' = [admitted EXCEPT ![p][c] = new]
      /\ UNCHANGED <<time, failed, events, outcomes, overlapped>>
  <2>1. admitted' = [admitted EXCEPT ![p][c] = Append(@, time)] /\ admitted \in [Servers -> [Clients -> Seq(0..MaxTime)]]
    BY <1>0 DEF Admit, LoginInv, AccessTypeOK
  <2>2. admitted' = [admitted EXCEPT ![p][c] = new]
    BY <1>0, <2>1
  <2>3. QED BY <2>2 DEF Admit, HasRoom, Hits
<1>2. /\ x \in Login /\ x.pc = "admitted" /\ x.user = None /\ login[t].user = None
  BY <1>0, <1>1, LoginFacts DEF Login, LoginOk
<1>3. PICK m \in 0..Len(log) :
        /\ kept \in Seq(0..MaxTime) /\ Len(kept) = Len(log) - m
        /\ \A i \in 1..(Len(log) - m) : kept[i] = log[m + i]
        /\ \A i \in 1..m : Outside(log[i])
        /\ \A i \in (m + 1)..Len(log) : ~ Outside(log[i])
  BY <1>0, KeptOfAdmitted
<1>4. /\ time \in 0..MaxTime /\ time \in Nat /\ Window \in Nat /\ LoginLimit \in Nat \ {0} /\ MaxTime \in Nat
      /\ log \in Seq(0..MaxTime) /\ Len(log) \in Nat /\ \A i \in 1..Len(log) : log[i] \in Nat
  BY <1>0, WindowFacts
<1>5. /\ \A i \in 1..Len(log) : log[i] <= time /\ \A j \in 1..i : log[j] <= log[i]
      /\ \A i \in 1..Len(log) : i + LoginLimit <= Len(log) => log[i + LoginLimit] - log[i] > Window
  BY <1>0, WindowFacts DEF WindowOk
<1> HIDE DEF log, kept, x
<1>6. /\ new \in Seq(0..MaxTime) /\ Len(new) = Len(log) + 1 /\ new[Len(log) + 1] = time
      /\ \A i \in 1..Len(log) : new[i] = log[i]
      /\ q \in Seq(0..MaxTime) /\ Len(q) = Len(kept) + 1 /\ q[Len(kept) + 1] = time
      /\ \A i \in 1..Len(kept) : q[i] = kept[i]
  BY <1>3, <1>4
<1> HIDE DEF new, q
<1> DEFINE l == Len(log)
<1>7. /\ l \in Nat /\ m \in 0..l /\ Len(kept) = l - m /\ Len(new) = l + 1 /\ Len(q) = l - m + 1
      /\ LoginLimit \in Nat \ {0} /\ l - m < LoginLimit
  BY <1>1, <1>3, <1>4, <1>6
<1> HIDE DEF l
<1>8. Len(new) - Len(q) = m
  BY <1>7
<1>9. \A i \in 1..Len(new) : new[i] <= time /\ \A j \in 1..i : new[j] <= new[i]
  <2>1. ASSUME NEW i \in 1..Len(new), NEW j \in 1..i PROVE new[i] <= time /\ new[j] <= new[i]
    <3>1. i \in 1..(l + 1) /\ j \in 1..i
      BY <1>7, <2>1
    <3>2. CASE i = l + 1
      <4>1. j \in 1..l \/ j = l + 1
        BY <1>7, <3>1, <3>2
      <4>2. new[l + 1] = time
        BY <1>6 DEF l
      <4>3. j \in 1..l => new[j] = log[j] /\ log[j] <= time
        BY <1>5, <1>6 DEF l
      <4>4. time <= time
        BY <1>4
      <4>5. QED BY <3>2, <4>1, <4>2, <4>3, <4>4
    <3>3. CASE i # l + 1
      <4>1. i \in 1..l /\ j \in 1..l
        BY <1>7, <3>1, <3>3
      <4>2. QED BY <1>5, <1>6, <3>1, <4>1 DEF l
    <3>4. QED BY <3>2, <3>3
  <2>2. \A i \in 1..Len(new) : i \in 1..i
    BY <1>4, <1>6
  <2>3. QED BY <2>1, <2>2
<1>10. ASSUME NEW i \in 1..Len(q) PROVE q[i] = new[m + i]
  <2>1. CASE i = l - m + 1
    <3>1. m + i = l + 1 /\ i = Len(kept) + 1
      BY <1>7, <2>1
    <3>2. QED BY <1>6, <3>1 DEF l
  <2>2. CASE i # l - m + 1
    <3>1. i \in 1..(l - m) /\ m + i \in 1..l
      BY <1>7, <1>10, <2>2
    <3>2. q[i] = kept[i] /\ kept[i] = log[m + i] /\ new[m + i] = log[m + i]
      BY <1>3, <1>6, <1>7, <3>1 DEF l
    <3>3. QED BY <3>2
  <2>3. QED BY <2>1, <2>2
<1>11. ASSUME NEW i \in 1..m PROVE Outside(new[i])
  <2>1. i \in 1..l
    BY <1>7
  <2>2. QED BY <1>3, <1>6, <2>1 DEF l
<1>12. ASSUME NEW i \in 1..Len(new), i + LoginLimit <= Len(new) PROVE new[i + LoginLimit] - new[i] > Window
  <2>1. CASE i + LoginLimit = Len(new)
    <3>1. i \in 1..m /\ i \in 1..l /\ i + LoginLimit = l + 1
      BY <1>7, <1>12, <2>1
    <3>2. Outside(log[i]) /\ new[i] = log[i] /\ new[i + LoginLimit] = time
      BY <1>3, <1>6, <3>1 DEF l
    <3>3. QED BY <3>2 DEF Outside
  <2>2. CASE i + LoginLimit # Len(new)
    <3>1. i + LoginLimit \in 1..l /\ i \in 1..l /\ i + LoginLimit <= l
      BY <1>7, <1>12, <2>2
    <3>2. QED BY <1>5, <1>6, <3>1 DEF l
  <2>3. QED BY <2>1, <2>2
<1>13. hits'[p][c] = q /\ admitted'[p][c] = new
  BY <1>0, <1>1 DEF LoginInv, AccessTypeOK
<1>14. m >= 0 /\ time' = time
  BY <1>1, <1>3, <1>4
<1>15. WindowOk(p, c)'
  BY <1>8, <1>9, <1>10, <1>11, <1>12, <1>13, <1>14 DEF WindowOk, Outside
<1>16. /\ hits' \in [Servers -> [Clients -> Seq(0..MaxTime)]]
       /\ admitted' \in [Servers -> [Clients -> Seq(0..MaxTime)]]
       /\ \A r \in Servers, b \in Clients : WindowOk(r, b)'
  BY <1>0, <1>1, <1>6, <1>15, OneClient
<1>17. AccessTypeOK'
  BY <1>0, <1>1, <1>2, <1>16 DEF LoginInv, AccessTypeOK
<1>18. EventsAhead' /\ \A s \in Handlers : LoginOk(s)'
  BY <1>0, <1>1, <1>2, NoneRecorded, OneLogin
<1>19. LockoutUnlessOverlapped'
  BY <1>0, <1>1 DEF LoginInv, LockoutUnlessOverlapped
<1>20. QED BY <1>16, <1>17, <1>18, <1>19 DEF AccessInv, LoginInv

LEMMA LimitStep ==
    ASSUME AccessInv, NEW t \in Handlers, NEW c \in Clients, Limit(t, c)
    PROVE  AccessInv'
<1> DEFINE p == ServerOf[t]
           log == admitted[p][c]
           kept == Kept(hits[p][c])
<1>0. p \in Servers /\ LoginInv
  BY AccessAssumption DEF AccessInv
<1>1. /\ hits' = [hits EXCEPT ![p][c] = kept]
      /\ UNCHANGED <<time, failed, login, events, admitted, outcomes, overlapped>>
  BY DEF Limit, Hits
<1>2. PICK m \in 0..Len(log) :
        /\ kept \in Seq(0..MaxTime) /\ Len(kept) = Len(log) - m
        /\ \A i \in 1..(Len(log) - m) : kept[i] = log[m + i]
        /\ \A i \in 1..m : Outside(log[i])
        /\ \A i \in (m + 1)..Len(log) : ~ Outside(log[i])
  BY <1>0, KeptOfAdmitted
<1>3. log \in Seq(0..MaxTime) /\ Len(log) \in Nat
  BY <1>0, WindowFacts
<1>4. /\ \A i \in 1..Len(log) : log[i] <= time /\ \A j \in 1..i : log[j] <= log[i]
      /\ \A i \in 1..Len(log) : i + LoginLimit <= Len(log) => log[i + LoginLimit] - log[i] > Window
  BY <1>0, WindowFacts DEF WindowOk
<1>5. admitted' = [admitted EXCEPT ![p][c] = log]
  BY <1>0, <1>1 DEF LoginInv, AccessTypeOK
<1>6. hits'[p][c] = kept /\ admitted'[p][c] = log
  BY <1>0, <1>1 DEF LoginInv, AccessTypeOK
<1> HIDE DEF log, kept
<1>7. Len(log) - Len(kept) = m /\ m >= 0 /\ time' = time
  BY <1>1, <1>2, <1>3
<1>8. WindowOk(p, c)'
  BY <1>2, <1>4, <1>6, <1>7 DEF WindowOk, Outside
<1>9. /\ hits' \in [Servers -> [Clients -> Seq(0..MaxTime)]]
      /\ admitted' \in [Servers -> [Clients -> Seq(0..MaxTime)]]
      /\ \A r \in Servers, b \in Clients : WindowOk(r, b)'
  BY <1>0, <1>1, <1>2, <1>3, <1>5, <1>8, OneClient
<1>10. AccessTypeOK'
  BY <1>0, <1>1, <1>9 DEF LoginInv, AccessTypeOK
<1>11. EventsAhead' /\ LockoutUnlessOverlapped' /\ \A s \in Handlers : LoginOk(s)'
  BY <1>0, <1>1 DEF LoginInv, EventsAhead, FailuresRecorded, SuccessesRecorded, Recorded, LockoutUnlessOverlapped, LoginOk
<1>12. QED BY <1>9, <1>10, <1>11 DEF AccessInv, LoginInv

LEMMA ClockTickStep == ASSUME AccessInv, ClockTick PROVE AccessInv'
<1>1. /\ time' = time + 1 /\ time < MaxTime
      /\ UNCHANGED <<hits, failed, login, events, admitted, outcomes, overlapped>>
  BY DEF ClockTick
<1>2. LoginInv /\ time \in 0..MaxTime /\ MaxTime \in Nat /\ Window \in Nat
  BY AccessAssumption DEF AccessInv, LoginInv, AccessTypeOK
<1>3. time' \in 0..MaxTime
  BY <1>1, <1>2
<1>4. AccessTypeOK'
  BY <1>1, <1>2, <1>3 DEF LoginInv, AccessTypeOK
<1>5. EventsAhead' /\ LockoutUnlessOverlapped' /\ \A s \in Handlers : LoginOk(s)'
  BY <1>1, <1>2 DEF LoginInv, EventsAhead, FailuresRecorded, SuccessesRecorded, Recorded, LockoutUnlessOverlapped, LoginOk
<1>6. ASSUME NEW p \in Servers, NEW c \in Clients PROVE WindowOk(p, c)'
  <2> DEFINE log == admitted[p][c]
             q == hits[p][c]
             f == Len(log) - Len(q)
  <2>1. /\ f >= 0
        /\ \A i \in 1..Len(log) : log[i] <= time /\ \A j \in 1..i : log[j] <= log[i]
        /\ \A i \in 1..Len(q) : q[i] = log[f + i]
        /\ \A i \in 1..f : Outside(log[i])
        /\ \A i \in 1..Len(log) : i + LoginLimit <= Len(log) => log[i + LoginLimit] - log[i] > Window
    BY WindowFacts DEF WindowOk
  <2>2. Len(log) \in Nat /\ Len(q) \in Nat /\ time \in Nat /\ \A i \in 1..Len(log) : log[i] \in Nat
    BY WindowFacts
  <2>3. log' = log /\ q' = q
    BY <1>1
  <2> HIDE DEF log, q
  <2>4. \A i \in 1..Len(log) : log[i] <= time' /\ \A j \in 1..i : log[j] <= log[i]
    BY <1>1, <2>1, <2>2
  <2>5. ASSUME NEW i \in 1..f PROVE Outside(log[i])'
    <3>1. i \in 1..Len(log)
      BY <2>1, <2>2
    <3>2. Outside(log[i]) /\ log[i] \in Nat
      BY <2>1, <2>2, <3>1
    <3>3. QED BY <1>1, <1>2, <2>2, <2>3, <3>2 DEF Outside
  <2>6. QED BY <2>1, <2>3, <2>4, <2>5 DEF WindowOk, log, q
<1>7. QED BY <1>4, <1>5, <1>6 DEF AccessInv, LoginInv

(* The handler's other steps leave the limiter alone.                      *)
LEMMA WindowKept ==
    ASSUME AccessInv, UNCHANGED limiterVars
    PROVE  \A p \in Servers, c \in Clients : WindowOk(p, c)'
<1>1. time' = time /\ hits' = hits /\ admitted' = admitted
  BY DEF limiterVars
<1>2. ASSUME NEW p \in Servers, NEW c \in Clients PROVE WindowOk(p, c)'
  <2>1. WindowOk(p, c)
    BY DEF AccessInv
  <2>2. QED BY <1>1, <2>1 DEF WindowOk, Outside
<1>3. QED BY <1>2

LEMMA AccessStarts == AccessInit => AccessInv
<1> SUFFICES ASSUME AccessInit PROVE AccessInv
  OBVIOUS
<1>1. AccessTypeOK
  BY AccessAssumption DEF AccessInit, AccessTypeOK, NoLogin, Login
<1>2. ASSUME NEW u \in Usernames
      PROVE  Cardinality(FailuresRecorded(u)) = 0 /\ Cardinality(SuccessesRecorded(u)) = 0
  <2>1. FailuresRecorded(u) = {} /\ SuccessesRecorded(u) = {}
    BY DEF AccessInit, NoLogin, FailuresRecorded, SuccessesRecorded, Recorded
  <2>2. QED BY <2>1, FS_EmptySet
<1>3. EventsAhead
  BY <1>2 DEF AccessInit, EventsAhead
<1>4. LockoutUnlessOverlapped
  BY AccessAssumption DEF AccessInit, LockoutUnlessOverlapped
<1>5. \A t \in Handlers : LoginOk(t)
  BY AccessAssumption DEF AccessInit, NoLogin, LoginOk
<1>6. ASSUME NEW p \in Servers, NEW c \in Clients PROVE WindowOk(p, c)
  <2>1. hits[p][c] = <<>> /\ admitted[p][c] = <<>>
    BY DEF AccessInit
  <2>2. QED BY <2>1 DEF WindowOk
<1>7. QED BY <1>1, <1>3, <1>4, <1>5, <1>6 DEF AccessInv, LoginInv

(* What the limiter, the handlers of logins and the audit trail have to do *)
(* with each other (rate_limit.py, login).                                 *)
THEOREM AccessInvariant == AccessSpec => []AccessInv
<1>1. AccessInv /\ [AccessNext]_accessVars => AccessInv'
  <2> SUFFICES ASSUME AccessInv, [AccessNext]_accessVars PROVE AccessInv'
    OBVIOUS
  <2>1. CASE ClockTick
    BY <2>1, ClockTickStep
  <2>2. ASSUME NEW t \in Handlers, LoginStep(t) PROVE AccessInv'
    <3>1. ASSUME NEW c \in Clients, Admit(t, c) \/ Limit(t, c) PROVE AccessInv'
      BY <3>1, AdmitStep, LimitStep
    <3>2. ASSUME LoginInv' /\ UNCHANGED limiterVars PROVE AccessInv'
      BY <3>2, WindowKept DEF AccessInv
    <3>3. LoginInv
      BY DEF AccessInv
    <3>4. ASSUME NEW u \in Usernames, NEW right \in BOOLEAN, Compare(t, u, right) PROVE AccessInv'
      BY <3>2, <3>3, <3>4, CompareStep
    <3>5. CASE Record(t) \/ CommitLogin(t)
      BY <3>2, <3>3, <3>5, RecordStep, CommitLoginStep
    <3>6. CASE LoginFails(t) \/ \E u \in Usernames : RefuseLocked(t, u)
      BY <3>2, <3>3, <3>6, LeaveStep
    <3>7. QED BY <2>2, <3>1, <3>4, <3>5, <3>6 DEF LoginStep
  <2>3. CASE UNCHANGED accessVars
    <3>1. UNCHANGED limiterVars /\ UNCHANGED <<failed, login, events, outcomes, overlapped>>
      BY <2>3 DEF accessVars, limiterVars
    <3>2. LoginInv'
      BY <3>1 DEF AccessInv, LoginInv, AccessTypeOK, EventsAhead, FailuresRecorded, SuccessesRecorded,
                  Recorded, LockoutUnlessOverlapped, LoginOk, limiterVars
    <3>3. QED BY <3>1, <3>2, WindowKept DEF AccessInv
  <2>4. QED BY <2>1, <2>2, <2>3 DEF AccessNext
<1>2. QED BY <1>1, AccessStarts, PTL DEF AccessSpec

(* The types of its state (security/rate_limit.py, routes/auth.py).        *)
THEOREM AccessTypesKept == AccessSpec => []AccessTypeOK
<1>1. AccessInv => AccessTypeOK
  BY DEF AccessInv, LoginInv
<1>2. QED BY <1>1, AccessInvariant, PTL

(* No more than LoginLimit requests of a client in a window, and no client *)
(* that keeps to it is refused, whatever the numbers (allow).              *)
THEOREM LimiterKeepsWindow == AccessSpec => []WindowLimited
BY AccessInvariant, WindowCounts, PTL

(* Logins that do not overlap are counted exactly (login).                 *)
THEOREM FailuresCounted == AccessSpec => []LockoutUnlessOverlapped
<1>1. AccessInv => LockoutUnlessOverlapped
  BY DEF AccessInv, LoginInv
<1>2. QED BY <1>1, AccessInvariant, PTL

(* No login, failed or not, is committed without its event (login).        *)
THEOREM EveryLoginAudited == AccessSpec => []LoginsAudited
<1>1. ASSUME AccessInv, NEW u \in Usernames
      PROVE  outcomes[u].failed <= events[u].failed /\ outcomes[u].succeeded <= events[u].succeeded
  <2>1. /\ outcomes[u].failed + Cardinality(FailuresRecorded(u)) <= events[u].failed
        /\ outcomes[u].succeeded + Cardinality(SuccessesRecorded(u)) <= events[u].succeeded
    BY <1>1 DEF AccessInv, LoginInv, EventsAhead
  <2>2. /\ outcomes[u].failed \in Nat /\ outcomes[u].succeeded \in Nat
        /\ events[u].failed \in Nat /\ events[u].succeeded \in Nat
    BY <1>1 DEF AccessInv, LoginInv, AccessTypeOK
  <2>3. Cardinality(FailuresRecorded(u)) \in Nat /\ Cardinality(SuccessesRecorded(u)) \in Nat
    BY RecordedFinite
  <2>4. QED BY <2>1, <2>2, <2>3
<1>2. AccessInv => LoginsAudited
  BY <1>1 DEF LoginsAudited
<1>3. QED BY <1>2, AccessInvariant, PTL
=============================================================================
