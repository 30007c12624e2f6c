--------------------------- MODULE KnowledgeProofs --------------------------
(***************************************************************************)
(* Documents are reviewed, stay with their tenant, and answers are what    *)
(* the reader may see, for any number of documents, users and requests.    *)
(***************************************************************************)
EXTENDS KnowledgeBase, TLAPS

LEMMA IdleType == IdleSession \in SessionState
BY DEF IdleSession, SessionState

LEMMA RowFields ==
    ASSUME NEW r \in Row
    PROVE  /\ r # None /\ r.tenant \in Tenants \cup {Global} /\ r.text \in Texts
           /\ r.status \in {"PENDING_REVIEW", "APPROVED", "QUARANTINED"}
           /\ r.by \in Users \cup {Repository} /\ r.approver \in Users \cup {Repository, None}
           /\ r.active \in SUBSET Nat /\ r.rev \in Nat
BY NoneAssumption DEF Row

(* Reading, searching, beginning and giving up change one session.         *)
LEMMA SessionStep ==
    ASSUME KnowledgeInv, NEW s \in Sessions, NEW x \in SessionState,
           sess' = [sess EXCEPT ![s] = x], UNCHANGED <<docs, nextRev, mixed>>,
           ApprovalOk(x), IndexOk(x), FoundOk(x),
           \A d \in Docs : x.new[d] # None => x.new[d] = sess[s].new[d],
           \A d \in Docs, rev \in Nat : Known(x, d, rev) =>
              Known(sess[s], d, rev) \/ (Exists(d) /\ docs[d].rev = rev)
    PROVE  KnowledgeInv'
<1>1. sess \in [Sessions -> SessionState]
  BY DEF KnowledgeInv, KnowledgeTypeOK
<1>2. \A q \in Sessions : sess'[q] = IF q = s THEN x ELSE sess[q]
  BY <1>1
<1>3. KnowledgeTypeOK'
  BY <1>1 DEF KnowledgeInv, KnowledgeTypeOK
<1>4. ReviewedUnlessMixed'
  BY DEF KnowledgeInv, ReviewedUnlessMixed, Exists
<1>5. SessionInv'
  <2> SUFFICES ASSUME NEW q \in Sessions
               PROVE  (ApprovalOk(sess[q]) /\ IndexOk(sess[q]) /\ FoundOk(sess[q]))'
    BY DEF SessionInv
  <2>1. CASE q = s
    BY <1>2, <2>1 DEF ApprovalOk, IndexOk, FoundOk, Exists, SameRow
  <2>2. CASE q # s
    BY <1>2, <2>2 DEF KnowledgeInv, SessionInv, ApprovalOk, IndexOk, FoundOk, Exists, SameRow
  <2>3. QED BY <2>1, <2>2
<1>6. InsertedInv'
  <2> SUFFICES ASSUME NEW q \in Sessions, NEW d \in Docs, sess'[q].new[d] # None
               PROVE  /\ Reviewed(sess'[q].new[d])
                      /\ sess'[q].new[d].rev < nextRev
                      /\ Exists(d) => /\ docs[d].tenant = sess'[q].new[d].tenant
                                      /\ docs[d].rev # sess'[q].new[d].rev
                      /\ \A p \in Sessions : /\ p # q => sess'[p].new[d] = None
                                             /\ ~ Known(sess'[p], d, sess'[q].new[d].rev)
    BY DEF InsertedInv, Exists, Known
  <2>1. sess'[q].new[d] = sess[q].new[d] /\ sess[q].new[d] # None
    BY <1>2
  <2>2. sess[q].new[d] \in Row
    BY <1>1, <2>1 DEF SessionState
  <2>3. \A p \in Sessions : p # q => sess'[p].new[d] = None
    BY <1>2, <2>1 DEF KnowledgeInv, InsertedInv
  <2>4. ASSUME NEW p \in Sessions PROVE ~ Known(sess'[p], d, sess'[q].new[d].rev)
    BY <1>2, <2>1, <2>2, RowFields DEF KnowledgeInv, InsertedInv
  <2>5. QED BY <2>1, <2>3, <2>4 DEF KnowledgeInv, InsertedInv
<1>7. RevInv'
  BY DEF KnowledgeInv, RevInv, Exists
<1>8. QED BY <1>3, <1>4, <1>5, <1>6, <1>7 DEF KnowledgeInv

LEMMA UploadStep ==
    ASSUME KnowledgeInv, NEW s \in Requests, NEW u \in Users, NEW f \in Uploads, Upload(s, u, f)
    PROVE  KnowledgeInv'
<1> DEFINE x == [IdleSession EXCEPT !.pc = "indexing", !.user = u, !.file = f,
                                    !.seen = docs[f.doc]]
<1>1. docs[f.doc] \in Row \cup {None} /\ f.doc \in Docs
  BY DEF KnowledgeInv, KnowledgeTypeOK, Uploads
<1>2. x \in SessionState
  BY <1>1, IdleType DEF IdleSession, SessionState
<1>3. ApprovalOk(x) /\ FoundOk(x)
  BY DEF IdleSession, ApprovalOk, FoundOk, Approving
<1>4. IndexOk(x)
  BY DEF IdleSession, IndexOk, Upload, MayReplace, Exists
<1>5. /\ \A d \in Docs : x.new[d] = None
      /\ \A d \in Docs, rev \in Nat : ~ Known(x, d, rev)
  BY DEF IdleSession, Known, Approving
<1>6. sess' = [sess EXCEPT ![s] = x] /\ UNCHANGED <<docs, nextRev, mixed>> /\ s \in Sessions
  BY DEF Upload, Sessions
<1> HIDE DEF x
<1>7. QED BY <1>2, <1>3, <1>4, <1>5, <1>6, SessionStep

LEMMA DirectoryStep ==
    ASSUME KnowledgeInv, StartDirectory \/ \E f \in Files : SkipFile(f) \/ TakeFile(f)
    PROVE  KnowledgeInv'
<1> DEFINE y == sess[Pipeline]
<1>0. y \in SessionState /\ Pipeline \in Sessions /\ Files \subseteq Uploads
  BY KnowledgeAssumption DEF KnowledgeInv, KnowledgeTypeOK, Sessions
<1>1. CASE StartDirectory
  <2> DEFINE x == [IdleSession EXCEPT !.pc = "directory", !.left = Files, !.user = Repository]
  <2>1. x \in SessionState
    BY IdleType DEF IdleSession, SessionState
  <2>2. ApprovalOk(x) /\ FoundOk(x) /\ IndexOk(x)
    BY DEF IdleSession, ApprovalOk, FoundOk, IndexOk, Approving
  <2>3. /\ \A d \in Docs : x.new[d] = None
        /\ \A d \in Docs, rev \in Nat : ~ Known(x, d, rev)
    BY DEF IdleSession, Known, Approving
  <2>4. sess' = [sess EXCEPT ![Pipeline] = x] /\ UNCHANGED <<docs, nextRev, mixed>>
    BY <1>1 DEF StartDirectory
  <2> HIDE DEF x
  <2>5. QED BY <1>0, <2>1, <2>2, <2>3, <2>4, SessionStep
<1>2. ASSUME NEW f \in Files, SkipFile(f) PROVE KnowledgeInv'
  <2> DEFINE x == [y EXCEPT !.left = @ \ {f}]
  <2>1. x \in SessionState
    BY <1>0 DEF SessionState
  <2>2. /\ x.pc = "directory" /\ x.user = y.user /\ x.new = y.new /\ x.found = y.found
        /\ y.pc = "directory"
    BY <1>0, <1>2 DEF SkipFile, SessionState
  <2>3. ApprovalOk(x) /\ FoundOk(x) /\ IndexOk(x)
    BY <1>0, <2>2 DEF KnowledgeInv, SessionInv, ApprovalOk, FoundOk, IndexOk, Approving
  <2>4. \A d \in Docs, rev \in Nat : Known(x, d, rev) => Known(y, d, rev)
    BY <2>2 DEF Known, Approving
  <2>5. sess' = [sess EXCEPT ![Pipeline] = x] /\ UNCHANGED <<docs, nextRev, mixed>>
    BY <1>2 DEF SkipFile
  <2>6. \A d \in Docs : x.new[d] # None => x.new[d] = sess[Pipeline].new[d]
    BY <2>2
  <2> HIDE DEF x
  <2>7. \A d \in Docs, rev \in Nat : Known(x, d, rev) =>
           Known(sess[Pipeline], d, rev) \/ (Exists(d) /\ docs[d].rev = rev)
    BY <2>4
  <2>8. QED BY <1>0, <2>1, <2>3, <2>5, <2>6, <2>7, SessionStep
<1>3. ASSUME NEW f \in Files, TakeFile(f) PROVE KnowledgeInv'
  <2> DEFINE x == [y EXCEPT !.pc = "indexing", !.file = f, !.seen = docs[f.doc]]
  <2>0. docs[f.doc] \in Row \cup {None} /\ f \in Uploads
    BY <1>0 DEF KnowledgeInv, KnowledgeTypeOK, Uploads
  <2>1. x \in SessionState
    BY <1>0, <2>0 DEF SessionState
  <2>2. /\ x.pc = "indexing" /\ x.user = y.user /\ x.new = y.new /\ x.found = y.found
        /\ y.pc = "directory" /\ x.file = f /\ x.seen = docs[f.doc]
    BY <1>0, <1>3 DEF TakeFile, SessionState
  <2>3. ApprovalOk(x) /\ FoundOk(x)
    BY <1>0, <2>2 DEF KnowledgeInv, SessionInv, ApprovalOk, FoundOk, Approving
  <2>4. y.user \in Users \cup {Repository}
    BY <1>0, <2>2 DEF KnowledgeInv, SessionInv, IndexOk
  <2>5. IndexOk(x)
    BY <2>0, <2>2, <2>4, <1>3 DEF IndexOk, TakeFile, MayReplace, Exists
  <2>6. \A d \in Docs, rev \in Nat : Known(x, d, rev) => Known(y, d, rev)
    BY <2>2 DEF Known, Approving
  <2>7. sess' = [sess EXCEPT ![Pipeline] = x] /\ UNCHANGED <<docs, nextRev, mixed>>
    BY <1>3 DEF TakeFile
  <2>8. \A d \in Docs : x.new[d] # None => x.new[d] = sess[Pipeline].new[d]
    BY <2>2
  <2> HIDE DEF x
  <2>9. \A d \in Docs, rev \in Nat : Known(x, d, rev) =>
           Known(sess[Pipeline], d, rev) \/ (Exists(d) /\ docs[d].rev = rev)
    BY <2>6
  <2>10. QED BY <1>0, <2>1, <2>3, <2>5, <2>7, <2>8, <2>9, SessionStep
<1>4. QED BY <1>1, <1>2, <1>3

LEMMA ApproveStep ==
    ASSUME KnowledgeInv, NEW s \in Requests, NEW u \in Users, NEW d \in Docs, Approve(s, u, d)
    PROVE  KnowledgeInv'
<1> DEFINE x == [IdleSession EXCEPT !.pc = "approving", !.user = u, !.doc = d, !.seen = docs[d]]
<1>1. docs[d] \in Row
  BY DEF KnowledgeInv, KnowledgeTypeOK, Approve, Exists
<1>2. x \in SessionState
  BY <1>1, IdleType DEF IdleSession, SessionState
<1>3. /\ x.pc = "approving" /\ x.user = u /\ x.doc = d /\ x.seen = docs[d]
      /\ x.new = [e \in Docs |-> None] /\ x.found = {}
  BY DEF IdleSession
<1>4. FoundOk(x) /\ IndexOk(x)
  BY <1>3 DEF FoundOk, IndexOk
<1>5. SameRow(x)
  BY <1>1, <1>3 DEF SameRow, KnowledgeInv, ReviewedUnlessMixed, Approve, MayApprove
<1>6. ApprovalOk(x)
  BY <1>1, <1>3, <1>5 DEF ApprovalOk, Approve, KnowledgeInv, RevInv
<1>7. /\ \A e \in Docs : x.new[e] = None
      /\ \A e \in Docs, rev \in Nat : Known(x, e, rev) => Exists(e) /\ docs[e].rev = rev
  BY <1>3 DEF Known, Approve
<1>8. sess' = [sess EXCEPT ![s] = x] /\ UNCHANGED <<docs, nextRev, mixed>> /\ s \in Sessions
  BY DEF Approve, Sessions
<1> HIDE DEF x
<1>9. /\ \A e \in Docs : x.new[e] # None => x.new[e] = sess[s].new[e]
      /\ \A e \in Docs, rev \in Nat : Known(x, e, rev) =>
            Known(sess[s], e, rev) \/ (Exists(e) /\ docs[e].rev = rev)
  BY <1>7
<1>10. QED BY <1>2, <1>4, <1>6, <1>8, <1>9, SessionStep

(* What the SELECT finds inactive and what is active are all the chunks.   *)
LEMMA ReadChunksStep ==
    ASSUME KnowledgeInv, NEW s \in Requests, ReadChunks(s)
    PROVE  KnowledgeInv'
<1> DEFINE y == sess[s]
           row == docs[y.doc]
           x == [y EXCEPT !.pc = "activating", !.todo = Chunks(row.text) \ row.active]
<1>1. s \in Sessions /\ y \in SessionState /\ ApprovalOk(y) /\ IndexOk(y) /\ FoundOk(y)
  BY DEF Sessions, KnowledgeInv, KnowledgeTypeOK, SessionInv
<1>2. y.pc = "approving"
  BY DEF ReadChunks
<1>3. y.doc \in Docs /\ row \in Row /\ row.active \subseteq Nat
  BY <1>1, <1>2 DEF ApprovalOk, Approving, Exists, KnowledgeInv, KnowledgeTypeOK, Row
<1>4. Pieces[row.text] \in Nat
  BY <1>3, RowFields, KnowledgeAssumption
<1>5. Chunks(row.text) \subseteq Nat
  BY <1>4 DEF Chunks
<1>6. x \in SessionState
  BY <1>1, <1>5 DEF SessionState
<1>7. /\ x.pc = "activating" /\ x.user = y.user /\ x.doc = y.doc /\ x.seen = y.seen
      /\ x.new = y.new /\ x.found = y.found /\ x.todo = Chunks(row.text) \ row.active
  BY <1>1 DEF SessionState
<1>8. FoundOk(x) /\ IndexOk(x)
  BY <1>1, <1>7 DEF FoundOk, IndexOk
<1>9. SameRow(x)
  <2>1. ASSUME y.doc \notin mixed PROVE row.active \subseteq Chunks(row.text)
    BY <1>1, <1>2, <1>3, <2>1 DEF KnowledgeInv, ReviewedUnlessMixed, Reviewed, ApprovalOk, Approving
  <2>2. y.doc \notin mixed => row.active \cup x.todo = Chunks(row.text)
    BY <1>7, <2>1
  <2>3. SameRow(y)
    BY <1>1, <1>2 DEF ApprovalOk, Approving
  <2> HIDE DEF x
  <2>4. QED BY <1>7, <2>2, <2>3 DEF SameRow
<1>10. ApprovalOk(x)
  BY <1>1, <1>2, <1>7, <1>9 DEF ApprovalOk, Approving
<1>11. \A d \in Docs, rev \in Nat : Known(x, d, rev) => Known(y, d, rev)
  BY <1>2, <1>7 DEF Known, Approving
<1>12. \A d \in Docs : x.new[d] # None => x.new[d] = y.new[d]
  BY <1>7
<1>13. sess' = [sess EXCEPT ![s] = x] /\ UNCHANGED <<docs, nextRev, mixed>>
  BY DEF ReadChunks
<1> HIDE DEF x
<1>14. QED BY <1>1, <1>6, <1>8, <1>10, <1>11, <1>12, <1>13, SessionStep

LEMMA ActivateStep ==
    ASSUME KnowledgeInv, NEW s \in Requests, Activate(s)
    PROVE  KnowledgeInv'
<1> DEFINE y == sess[s]
           x == [y EXCEPT !.pc = "approved"]
<1>1. s \in Sessions /\ y \in SessionState /\ ApprovalOk(y) /\ IndexOk(y) /\ FoundOk(y)
  BY DEF Sessions, KnowledgeInv, KnowledgeTypeOK, SessionInv
<1>2. y.pc = "activating"
  BY DEF Activate
<1>3. x \in SessionState
  BY <1>1 DEF SessionState
<1>4. /\ x.pc = "approved" /\ x.user = y.user /\ x.doc = y.doc /\ x.seen = y.seen
      /\ x.new = y.new /\ x.found = y.found /\ x.todo = y.todo
  BY <1>1 DEF SessionState
<1>5. FoundOk(x) /\ IndexOk(x)
  BY <1>1, <1>4 DEF FoundOk, IndexOk
<1>6. ApprovalOk(x)
  BY <1>1, <1>2, <1>4 DEF ApprovalOk, SameRow, Approving
<1>7. \A d \in Docs, rev \in Nat : Known(x, d, rev) => Known(y, d, rev)
  BY <1>2, <1>4 DEF Known, Approving
<1>8. \A d \in Docs : x.new[d] # None => x.new[d] = y.new[d]
  BY <1>4
<1>9. sess' = [sess EXCEPT ![s] = x] /\ UNCHANGED <<docs, nextRev, mixed>>
  BY DEF Activate
<1> HIDE DEF x
<1>10. QED BY <1>1, <1>3, <1>5, <1>6, <1>7, <1>8, <1>9, SessionStep

LEMMA RollbackStep ==
    ASSUME KnowledgeInv, NEW s \in Sessions, Rollback(s)
    PROVE  KnowledgeInv'
<1>1. ApprovalOk(IdleSession) /\ FoundOk(IdleSession) /\ IndexOk(IdleSession)
  BY DEF IdleSession, ApprovalOk, FoundOk, IndexOk, Approving
<1>2. /\ \A d \in Docs : IdleSession.new[d] = None
      /\ \A d \in Docs, rev \in Nat : ~ Known(IdleSession, d, rev)
  BY DEF IdleSession, Known, Approving
<1>3. QED BY <1>1, <1>2, IdleType, SessionStep DEF Rollback

(* A search that may be answered holds only reviewed chunks.               *)
LEMMA ReadCorpusStep ==
    ASSUME KnowledgeInv, NEW s \in Requests, NEW u \in Users, ReadCorpus(s, u)
    PROVE  KnowledgeInv'
<1> DEFINE x == [IdleSession EXCEPT !.pc = "searching", !.user = u, !.found = Permitted(u)]
<1>1. ASSUME NEW c \in Permitted(u)
      PROVE  /\ c \in Chunk /\ Exists(c.doc) /\ c.row = docs[c.doc] /\ AclFilter(u, c)
  <2>1. PICK d \in Docs : /\ Exists(d) /\ AclFilter(u, c)
                          /\ c \in [doc : {d}, index : Chunks(docs[d].text), row : {docs[d]}]
    BY DEF Permitted
  <2>2. docs[d] \in Row
    BY <2>1 DEF KnowledgeInv, KnowledgeTypeOK, Exists
  <2>3. Chunks(docs[d].text) \subseteq Nat
    BY <2>2, RowFields, KnowledgeAssumption DEF Chunks
  <2>4. QED BY <2>1, <2>2, <2>3 DEF Chunk
<1>2. x \in SessionState
  BY <1>1, IdleType DEF IdleSession, SessionState
<1>3. /\ x.pc = "searching" /\ x.user = u /\ x.found = Permitted(u)
      /\ x.new = [d \in Docs |-> None]
  BY DEF IdleSession
<1> HIDE DEF x
<1>4. ApprovalOk(x) /\ IndexOk(x)
  BY <1>3 DEF ApprovalOk, IndexOk, Approving
<1>5. FoundOk(x)
  <2> SUFFICES ASSUME NEW c \in Permitted(u)
               PROVE  /\ Exists(c.doc)
                      /\ c.row.rev < nextRev
                      /\ c.row.tenant \in {Global, TenantOf[u]}
                      /\ Level[c.row.text] <= ClearanceFor(RoleOf[u])
                      /\ c.doc \notin mixed /\ docs[c.doc].rev = c.row.rev
                            => c.row.status = "APPROVED"
    BY <1>3 DEF FoundOk
  <2>1. c.doc \in Docs
    BY <1>1 DEF Chunk
  <2>2. c.row.rev < nextRev
    BY <1>1, <2>1 DEF KnowledgeInv, RevInv
  <2>3. c.doc \notin mixed => c.row.status = "APPROVED"
    BY <1>1, <2>1 DEF KnowledgeInv, ReviewedUnlessMixed, Reviewed, AclFilter
  <2>4. QED BY <1>1, <2>2, <2>3 DEF AclFilter
<1>6. /\ \A d \in Docs : x.new[d] = None
      /\ \A d \in Docs, rev \in Nat : Known(x, d, rev) => Exists(d) /\ docs[d].rev = rev
  BY <1>1, <1>3 DEF Known, Approving
<1>7. sess' = [sess EXCEPT ![s] = x] /\ UNCHANGED <<docs, nextRev, mixed>> /\ s \in Sessions
  BY DEF ReadCorpus, Sessions, x
<1>8. QED BY <1>2, <1>4, <1>5, <1>6, <1>7, SessionStep

LEMMA RankStep ==
    ASSUME KnowledgeInv, NEW s \in Requests, Rank(s)
    PROVE  KnowledgeInv'
<1>1. PICK answer \in SUBSET sess[s].found :
         sess' = [sess EXCEPT ![s].pc = "answered", ![s].found = answer]
  BY DEF Rank
<1> DEFINE y == sess[s]
           x == [y EXCEPT !.pc = "answered", !.found = answer]
<1>2. s \in Sessions /\ y \in SessionState /\ FoundOk(y)
  BY DEF Sessions, KnowledgeInv, KnowledgeTypeOK, SessionInv
<1>3. x \in SessionState
  BY <1>1, <1>2 DEF SessionState
<1>4. x.pc = "answered" /\ x.user = y.user /\ x.new = y.new /\ x.found = answer
  BY <1>2 DEF SessionState
<1>5. ApprovalOk(x) /\ IndexOk(x) /\ FoundOk(x)
  BY <1>1, <1>2, <1>4 DEF ApprovalOk, IndexOk, FoundOk, Approving
<1>6. \A d \in Docs, rev \in Nat : Known(x, d, rev) => Known(y, d, rev)
  BY <1>1, <1>4 DEF Known, Approving
<1>7. \A d \in Docs : x.new[d] # None => x.new[d] = y.new[d]
  BY <1>4
<1>8. sess' = [sess EXCEPT ![s] = x] /\ UNCHANGED <<docs, nextRev, mixed>>
  BY <1>1 DEF Rank
<1> HIDE DEF x
<1>9. QED BY <1>2, <1>3, <1>5, <1>6, <1>7, <1>8, SessionStep

(* The transaction that inserts a row: nobody knows it, for it is new.     *)
LEMMA ReplaceStep ==
    ASSUME KnowledgeInv, NEW s \in Sessions, Replace(s)
    PROVE  KnowledgeInv'
<1> DEFINE y == sess[s]
           f == y.file
           row == NewRow(f, y.user)
           pc == IF s = Pipeline THEN "directory" ELSE "indexed"
           x == [y EXCEPT !.new[f.doc] = row, !.left = @ \ {f}, !.pc = pc]
<1>1. y \in SessionState /\ ApprovalOk(y) /\ IndexOk(y) /\ FoundOk(y)
  BY DEF KnowledgeInv, KnowledgeTypeOK, SessionInv
<1>2. y.pc = "indexing"
  BY DEF Replace
<1>3. f \in Uploads /\ f.doc \in Docs /\ f.text \in Texts /\ f.tenant \in Tenants \cup {Global}
      /\ y.user \in Users \cup {Repository}
  BY <1>1, <1>2 DEF IndexOk, Uploads
<1>4. Chunks(f.text) \subseteq Nat /\ nextRev \in Nat /\ nextRev \in 1..(MaxRevisions + 1)
  BY <1>3, KnowledgeAssumption DEF Chunks, KnowledgeInv, KnowledgeTypeOK
<1>5. /\ row \in Row /\ Reviewed(row) /\ row.rev = nextRev /\ row.tenant = f.tenant
  BY <1>3, <1>4, KnowledgeAssumption DEF NewRow, Status, Row, Reviewed
<1>6. sess' = [sess EXCEPT ![s] = x] /\ nextRev' = nextRev + 1 /\ UNCHANGED <<docs, mixed>>
  BY DEF Replace
<1>7. /\ x.pc = pc /\ x.user = y.user /\ x.doc = y.doc /\ x.seen = y.seen /\ x.found = y.found
      /\ x.new = [y.new EXCEPT ![f.doc] = row]
  BY <1>1 DEF SessionState
<1>8. x \in SessionState
  BY <1>1, <1>3, <1>5 DEF SessionState
<1> HIDE DEF x, row
<1>9. \A q \in Sessions : sess'[q] = IF q = s THEN x ELSE sess[q]
  BY <1>6 DEF KnowledgeInv, KnowledgeTypeOK
<1>10. \A d \in Docs : x.new[d] = IF d = f.doc THEN row ELSE y.new[d]
  BY <1>1, <1>7 DEF SessionState
<1>11. KnowledgeTypeOK'
  <2>1. nextRev' \in 1..(MaxRevisions + 1)
    BY <1>4, <1>6, KnowledgeAssumption DEF Replace
  <2>2. sess' \in [Sessions -> SessionState]
    BY <1>6, <1>8 DEF KnowledgeInv, KnowledgeTypeOK
  <2>3. QED BY <1>6, <2>1, <2>2 DEF KnowledgeInv, KnowledgeTypeOK
<1>12. ReviewedUnlessMixed' /\ RevInv'
  BY <1>4, <1>6, RowFields DEF KnowledgeInv, KnowledgeTypeOK, ReviewedUnlessMixed, RevInv, Exists
<1>13. ASSUME NEW q \in Sessions PROVE (ApprovalOk(sess[q]) /\ IndexOk(sess[q]) /\ FoundOk(sess[q]))'
  <2>1. ApprovalOk(sess[q]) /\ IndexOk(sess[q]) /\ FoundOk(sess[q]) /\ sess[q] \in SessionState
    BY DEF KnowledgeInv, KnowledgeTypeOK, SessionInv
  <2>2. FoundOk(sess[q])'
    <3>1. sess'[q].found = sess[q].found /\ sess'[q].user = sess[q].user
      BY <1>7, <1>9
    <3>2. \A c \in sess[q].found : c.row.rev < nextRev => c.row.rev < nextRev'
      BY <1>4, <1>6, <2>1, RowFields DEF SessionState, Chunk
    <3>3. QED BY <1>6, <2>1, <3>1, <3>2 DEF FoundOk, Exists
  <2>3. IndexOk(sess[q])'
    BY <1>1, <1>2, <1>3, <1>6, <1>7, <1>9, <2>1 DEF IndexOk, Exists
  <2>4. ApprovalOk(sess[q])'
    <3>1. CASE q = s
      BY <1>7, <1>9, <3>1 DEF ApprovalOk, Approving
    <3>2. CASE q # s
      <4>1. sess'[q] = sess[q]
        BY <1>9, <3>2
      <4>2. sess[q].seen \in Row => sess[q].seen.rev \in Nat
        BY RowFields
      <4>3. QED BY <1>4, <1>6, <2>1, <4>1, <4>2 DEF ApprovalOk, SameRow, Exists
    <3>3. QED BY <3>1, <3>2
  <2>5. QED BY <2>2, <2>3, <2>4
<1>14. \A q \in Sessions, d \in Docs, rev \in Nat : Known(sess'[q], d, rev) => Known(sess[q], d, rev)
  BY <1>7, <1>9 DEF Known, Approving
<1>15. \A q \in Sessions, d \in Docs : ~ Known(sess[q], d, nextRev)
  BY <1>4 DEF KnowledgeInv, SessionInv, ApprovalOk, FoundOk, Known
<1>16. InsertedInv'
  <2> SUFFICES ASSUME NEW q \in Sessions, NEW d \in Docs, sess'[q].new[d] # None
               PROVE  /\ Reviewed(sess'[q].new[d])
                      /\ sess'[q].new[d].rev < nextRev'
                      /\ Exists(d) => /\ docs[d].tenant = sess'[q].new[d].tenant
                                      /\ docs[d].rev # sess'[q].new[d].rev
                      /\ \A p \in Sessions : /\ p # q => sess'[p].new[d] = None
                                             /\ ~ Known(sess'[p], d, sess'[q].new[d].rev)
    BY <1>6 DEF InsertedInv, Exists, Known
  <2>0. \A p \in Sessions \ {s} : sess[p].new[f.doc] = None
    BY <1>3 DEF Replace, Free, Held
  <2>1. CASE q = s /\ d = f.doc
    <3>1. sess'[q].new[d] = row
      BY <1>9, <1>10, <2>1
    <3>2. Exists(d) => docs[d].tenant = row.tenant /\ docs[d].rev # row.rev
      <4> SUFFICES ASSUME Exists(d) PROVE docs[d].tenant = row.tenant /\ docs[d].rev # row.rev
        OBVIOUS
      <4>1. docs[d].tenant = f.tenant
        BY <1>1, <1>2, <2>1 DEF IndexOk, Replace, InsertOk
      <4>2. docs[d].rev < nextRev /\ docs[d].rev \in Nat
        BY RowFields DEF KnowledgeInv, KnowledgeTypeOK, RevInv, Exists
      <4>3. QED BY <1>4, <1>5, <4>1, <4>2
    <3>3. \A p \in Sessions : p # q => sess'[p].new[d] = None
      BY <1>9, <2>0, <2>1
    <3>4. \A p \in Sessions : ~ Known(sess'[p], d, row.rev)
      BY <1>4, <1>5, <1>14, <1>15
    <3>5. QED BY <1>4, <1>5, <1>6, <3>1, <3>2, <3>3, <3>4
  <2>2. CASE ~(q = s /\ d = f.doc)
    <3>1. sess'[q].new[d] = sess[q].new[d] /\ d # f.doc
      BY <1>9, <1>10, <2>0, <2>2
    <3>2. sess[q].new[d] \in Row
      BY <3>1 DEF KnowledgeInv, KnowledgeTypeOK, SessionState
    <3>3. \A p \in Sessions : sess'[p].new[d] = sess[p].new[d]
      BY <1>9, <1>10, <3>1
    <3>4. \A p \in Sessions : ~ Known(sess'[p], d, sess[q].new[d].rev)
      BY <1>14, <3>1, <3>2, RowFields DEF KnowledgeInv, InsertedInv
    <3>5. sess[q].new[d].rev < nextRev'
      BY <1>4, <1>6, <3>1, <3>2, RowFields DEF KnowledgeInv, InsertedInv
    <3>6. QED BY <3>1, <3>3, <3>4, <3>5 DEF KnowledgeInv, InsertedInv
  <2>3. QED BY <2>1, <2>2
<1>17. QED BY <1>11, <1>12, <1>13, <1>16 DEF KnowledgeInv, SessionInv

LEMMA CommitIndexStep ==
    ASSUME KnowledgeInv, NEW s \in Sessions, CommitIndex(s)
    PROVE  KnowledgeInv'
<1> DEFINE y == sess[s]
<1>1. y \in SessionState /\ ApprovalOk(y) /\ IndexOk(y) /\ FoundOk(y)
  BY DEF KnowledgeInv, KnowledgeTypeOK, SessionInv
<1>2. /\ docs' = [d \in Docs |-> IF y.new[d] # None THEN y.new[d] ELSE docs[d]]
      /\ mixed' = {d \in mixed : y.new[d] = None}
      /\ sess' = [sess EXCEPT ![s] = IdleSession]
      /\ nextRev' = nextRev
  BY DEF CommitIndex
<1>3. \A q \in Sessions : sess'[q] = IF q = s THEN IdleSession ELSE sess[q]
  BY <1>2 DEF KnowledgeInv, KnowledgeTypeOK
<1>4. \A d \in Docs : docs'[d] = IF y.new[d] # None THEN y.new[d] ELSE docs[d]
  BY <1>2
<1>5. \A d \in Docs : y.new[d] \in Row \cup {None}
  BY <1>1 DEF SessionState
<1>6. KnowledgeTypeOK'
  <2>1. docs' \in [Docs -> Row \cup {None}]
    BY <1>2, <1>5 DEF KnowledgeInv, KnowledgeTypeOK
  <2>2. sess' \in [Sessions -> SessionState]
    BY <1>2, IdleType DEF KnowledgeInv, KnowledgeTypeOK
  <2>3. QED BY <1>2, <2>1, <2>2 DEF KnowledgeInv, KnowledgeTypeOK
<1>7. ReviewedUnlessMixed'
  <2> SUFFICES ASSUME NEW d \in Docs, docs'[d] # None, d \notin mixed'
               PROVE  Reviewed(docs'[d])
    BY DEF ReviewedUnlessMixed, Exists, Reviewed, Chunks
  <2>1. CASE y.new[d] # None
    BY <1>4, <2>1 DEF KnowledgeInv, InsertedInv
  <2>2. CASE y.new[d] = None
    BY <1>2, <1>4, <2>2 DEF KnowledgeInv, ReviewedUnlessMixed, Exists
  <2>3. QED BY <2>1, <2>2
<1>8. RevInv'
  BY <1>2, <1>4 DEF KnowledgeInv, RevInv, InsertedInv, Exists
<1>9. ASSUME NEW q \in Sessions PROVE (ApprovalOk(sess[q]) /\ IndexOk(sess[q]) /\ FoundOk(sess[q]))'
  <2>1. CASE q = s
    BY <1>3, <2>1 DEF IdleSession, ApprovalOk, FoundOk, IndexOk, Approving
  <2>2. CASE q # s
    <3>1. sess'[q] = sess[q] /\ sess[q] \in SessionState
      BY <1>3, <2>2 DEF KnowledgeInv, KnowledgeTypeOK
    <3>2. ApprovalOk(sess[q]) /\ IndexOk(sess[q]) /\ FoundOk(sess[q])
      BY DEF KnowledgeInv, SessionInv
    <3>3. \A d \in Docs : Exists(d) => docs'[d] # None /\ docs'[d].tenant = docs[d].tenant
      BY <1>4 DEF KnowledgeInv, InsertedInv, Exists
    <3>4. \A d \in Docs, rev \in Nat : Known(sess[q], d, rev) /\ docs'[d].rev = rev =>
             docs'[d] = docs[d] /\ (d \in mixed <=> d \in mixed')
      BY <1>2, <1>4 DEF KnowledgeInv, InsertedInv
    <3>5. IndexOk(sess[q])'
      BY <3>1, <3>2, <3>3 DEF IndexOk, Exists, Uploads
    <3>6. FoundOk(sess[q])'
      <4> SUFFICES ASSUME NEW c \in sess[q].found
                   PROVE  /\ sess[q].user \in Users
                          /\ docs'[c.doc] # None
                          /\ c.row.rev < nextRev
                          /\ c.row.tenant \in {Global, TenantOf[sess[q].user]}
                          /\ Level[c.row.text] <= ClearanceFor(RoleOf[sess[q].user])
                          /\ c.doc \notin mixed' /\ docs'[c.doc].rev = c.row.rev
                                => c.row.status = "APPROVED"
        BY <1>2, <3>1 DEF FoundOk, Exists
      <4>1. c.doc \in Docs /\ c.row.rev \in Nat
        BY <3>1, RowFields DEF SessionState, Chunk
      <4>2. Known(sess[q], c.doc, c.row.rev)
        BY DEF Known
      <4>3. QED BY <3>2, <3>3, <3>4, <4>1, <4>2 DEF FoundOk
    <3>7. ApprovalOk(sess[q])'
      <4> SUFFICES ASSUME sess[q].pc \in Approving PROVE ApprovalOk(sess[q])'
        BY <3>1 DEF ApprovalOk
      <4> DEFINE z == sess[q]
      <4>1. z.doc \in Docs /\ z.seen \in Row /\ z.seen.rev \in Nat
        BY <3>2, RowFields DEF ApprovalOk
      <4>2. Known(z, z.doc, z.seen.rev)
        BY DEF Known
      <4>3. SameRow(z)'
        BY <3>1, <3>2, <3>4, <4>1, <4>2 DEF SameRow, ApprovalOk
      <4>4. QED BY <1>2, <3>1, <3>2, <3>3, <4>1, <4>3 DEF ApprovalOk, Exists
    <3>8. QED BY <3>5, <3>6, <3>7
  <2>3. QED BY <2>1, <2>2
<1>10. InsertedInv'
  <2> SUFFICES ASSUME NEW q \in Sessions, NEW d \in Docs, sess'[q].new[d] # None
               PROVE  /\ Reviewed(sess'[q].new[d])
                      /\ sess'[q].new[d].rev < nextRev
                      /\ docs'[d] # None => /\ docs'[d].tenant = sess'[q].new[d].tenant
                                            /\ docs'[d].rev # sess'[q].new[d].rev
                      /\ \A p \in Sessions : /\ p # q => sess'[p].new[d] = None
                                             /\ ~ Known(sess'[p], d, sess'[q].new[d].rev)
    BY <1>2 DEF InsertedInv, Exists, Known
  <2>1. q # s /\ sess'[q] = sess[q]
    BY <1>3 DEF IdleSession
  <2>2. y.new[d] = None /\ docs'[d] = docs[d]
    BY <1>4, <2>1 DEF KnowledgeInv, InsertedInv
  <2>3. \A p \in Sessions : p # q => sess'[p].new[d] = None
    BY <1>3, <2>1 DEF KnowledgeInv, InsertedInv, IdleSession
  <2>4. \A p \in Sessions : ~ Known(sess'[p], d, sess[q].new[d].rev)
    BY <1>3, <2>1 DEF KnowledgeInv, InsertedInv, IdleSession, Known, Approving
  <2>5. QED BY <2>1, <2>2, <2>3, <2>4 DEF KnowledgeInv, InsertedInv, Exists
<1>11. QED BY <1>6, <1>7, <1>8, <1>9, <1>10 DEF KnowledgeInv, SessionInv

(* Approving the row that was read makes it a reviewed one; another row    *)
(* is listed in mixed.                                                     *)
LEMMA CommitApprovalStep ==
    ASSUME KnowledgeInv, NEW s \in Requests, CommitApproval(s)
    PROVE  KnowledgeInv'
<1> DEFINE y == sess[s]
           d == y.doc
           row == ApprovedRow(s, docs[d])
<1>1. s \in Sessions /\ y \in SessionState /\ y.pc = "approved" /\ y.pc \in Approving
  BY DEF CommitApproval, KnowledgeInv, KnowledgeTypeOK, Sessions, Approving
<1>2. /\ d \in Docs /\ y.user \in Users /\ y.seen \in Row
      /\ Exists(d) /\ MayApprove(y.user, y.seen) /\ SameRow(y)
  BY <1>1 DEF KnowledgeInv, SessionInv, ApprovalOk
<1>3. docs[d] \in Row /\ y.todo \subseteq Nat
  BY <1>1, <1>2 DEF KnowledgeInv, KnowledgeTypeOK, Exists, SessionState
<1>4. /\ row.tenant = docs[d].tenant /\ row.text = docs[d].text /\ row.by = docs[d].by
      /\ row.rev = docs[d].rev /\ row.active = docs[d].active \cup y.todo
      /\ row.status = IF y.seen.status = "APPROVED" THEN docs[d].status ELSE "APPROVED"
      /\ row.approver = IF y.seen.approver = y.user THEN docs[d].approver ELSE y.user
  BY <1>3 DEF ApprovedRow, Row
<1>5. row \in Row
  <2> DEFINE r == docs[d]
             status == IF y.seen.status = "APPROVED" THEN r.status ELSE "APPROVED"
             approver == IF y.seen.approver = y.user THEN r.approver ELSE y.user
             active == r.active \cup y.todo
  <2>1. row = [r EXCEPT !.status = status, !.approver = approver, !.active = active]
    BY DEF ApprovedRow
  <2>2. /\ r \in Row /\ status \in {"PENDING_REVIEW", "APPROVED", "QUARANTINED"}
        /\ approver \in Users \cup {Repository, None} /\ active \in SUBSET Nat
    BY <1>2, <1>3 DEF Row
  <2> HIDE DEF row, r, status, approver, active
  <2>3. QED BY <2>1, <2>2 DEF Row
<1>6. /\ docs' = [docs EXCEPT ![d] = row]
      /\ mixed' = IF docs[d].rev = y.seen.rev THEN mixed ELSE mixed \cup {d}
      /\ sess' = [sess EXCEPT ![s] = IdleSession]
      /\ nextRev' = nextRev
  BY DEF CommitApproval
<1> HIDE DEF row
<1>7. \A q \in Sessions : sess'[q] = IF q = s THEN IdleSession ELSE sess[q]
  BY <1>6 DEF KnowledgeInv, KnowledgeTypeOK
<1>8. \A e \in Docs : docs'[e] = IF e = d THEN row ELSE docs[e]
  BY <1>6 DEF KnowledgeInv, KnowledgeTypeOK
<1>9. KnowledgeTypeOK'
  <2>1. docs' \in [Docs -> Row \cup {None}]
    BY <1>5, <1>6 DEF KnowledgeInv, KnowledgeTypeOK
  <2>2. sess' \in [Sessions -> SessionState]
    BY <1>6, IdleType DEF KnowledgeInv, KnowledgeTypeOK
  <2>3. QED BY <1>2, <1>6, <2>1, <2>2 DEF KnowledgeInv, KnowledgeTypeOK
<1>10. RevInv'
  BY <1>2, <1>4, <1>6, <1>8 DEF KnowledgeInv, RevInv, Exists
<1>11. d \notin mixed' => Reviewed(row)
  <2> SUFFICES ASSUME d \notin mixed' PROVE Reviewed(row)
    OBVIOUS
  <2>1. d \notin mixed /\ docs[d].rev = y.seen.rev
    BY <1>6
  <2>2. /\ docs[d].text = y.seen.text /\ docs[d].by = y.seen.by /\ docs[d].tenant = y.seen.tenant
        /\ docs[d].status # "QUARANTINED"
        /\ y.seen.status = "APPROVED" => docs[d].status = "APPROVED"
        /\ Reviewed(y.seen) /\ docs[d].active \cup y.todo = Chunks(docs[d].text)
    BY <1>1, <1>2, <2>1 DEF SameRow
  <2>3. row.status = "APPROVED" /\ row.active = Chunks(row.text)
    BY <1>4, <2>2
  <2>4. Reviewed(docs[d])
    BY <1>2, <2>1 DEF KnowledgeInv, ReviewedUnlessMixed
  <2>5. row.text \notin Flagged
    BY <1>4, <2>2, <2>4 DEF Reviewed
  <2>6. CASE y.seen.approver = y.user
    <3>1. row.approver = docs[d].approver
      BY <1>4, <2>6
    <3>2. y.seen.status = "APPROVED"
      BY <1>2, <2>2, <2>6, KnowledgeAssumption DEF Reviewed
    <3>3. QED BY <1>4, <2>2, <2>3, <2>4, <2>5, <3>1, <3>2 DEF Reviewed
  <2>7. CASE y.seen.approver # y.user
    <3>1. row.approver = y.user /\ row.by # y.user /\ row.tenant = TenantOf[y.user]
      BY <1>2, <1>4, <2>2, <2>7 DEF MayApprove
    <3>2. QED BY <1>2, <2>3, <2>5, <3>1 DEF Reviewed
  <2>8. QED BY <2>6, <2>7
<1>12. ReviewedUnlessMixed'
  <2> SUFFICES ASSUME NEW e \in Docs, docs'[e] # None, e \notin mixed'
               PROVE  Reviewed(docs'[e])
    BY DEF ReviewedUnlessMixed, Exists, Reviewed, Chunks
  <2>1. CASE e = d
    BY <1>8, <1>11, <2>1
  <2>2. CASE e # d
    BY <1>6, <1>8, <2>2 DEF KnowledgeInv, ReviewedUnlessMixed, Exists
  <2>3. QED BY <2>1, <2>2
(* What is true of a document for others, is true of it approved.          *)
<1>13. \A e \in Docs : /\ docs'[e] # None <=> docs[e] # None
                       /\ docs'[e] # None =>
                            /\ docs'[e].tenant = docs[e].tenant /\ docs'[e].rev = docs[e].rev
                            /\ docs'[e].text = docs[e].text /\ docs'[e].by = docs[e].by
                       /\ docs[e] # None /\ docs[e].status = "APPROVED" =>
                            docs'[e].status = "APPROVED"
  BY <1>2, <1>4, <1>5, <1>8, RowFields DEF Exists
<1>14. mixed \subseteq mixed'
  BY <1>6
<1>15. ASSUME NEW q \in Sessions PROVE (ApprovalOk(sess[q]) /\ IndexOk(sess[q]) /\ FoundOk(sess[q]))'
  <2>1. CASE q = s
    BY <1>7, <2>1 DEF IdleSession, ApprovalOk, FoundOk, IndexOk, Approving
  <2>2. CASE q # s
    <3>1. sess'[q] = sess[q] /\ sess[q] \in SessionState
      BY <1>7, <2>2 DEF KnowledgeInv, KnowledgeTypeOK
    <3>2. ApprovalOk(sess[q]) /\ IndexOk(sess[q]) /\ FoundOk(sess[q])
      BY DEF KnowledgeInv, SessionInv
    <3>3. IndexOk(sess[q])'
      BY <1>13, <3>1, <3>2 DEF IndexOk, Exists, Uploads
    <3>4. FoundOk(sess[q])'
      <4>1. \A c \in sess[q].found : c.doc \in Docs
        BY <3>1 DEF SessionState, Chunk
      <4>2. QED BY <1>6, <1>13, <1>14, <3>1, <3>2, <4>1 DEF FoundOk, Exists
    <3>5. ApprovalOk(sess[q])'
      <4> DEFINE z == sess[q]
      <4> SUFFICES ASSUME z.pc \in Approving PROVE ApprovalOk(z)'
        BY <3>1 DEF ApprovalOk
      <4>1. z.doc \in Docs /\ z.seen \in Row /\ docs[z.doc] # None /\ SameRow(z)
        BY <3>2 DEF ApprovalOk, Exists
      <4>2. SameRow(z)'
        <5>1. CASE z.doc # d
          BY <1>8, <1>14, <3>1, <4>1, <5>1 DEF SameRow
        <5>2. CASE z.doc = d
          <6> SUFFICES ASSUME docs[d].rev = z.seen.rev
                       PROVE  /\ row.text = z.seen.text /\ row.by = z.seen.by
                              /\ row.tenant = z.seen.tenant
                              /\ row.status # "QUARANTINED"
                              /\ z.seen.status = "APPROVED" => row.status = "APPROVED"
                              /\ d \notin mixed' =>
                                   /\ Reviewed(z.seen)
                                   /\ z.pc # "approving" =>
                                        row.active \cup z.todo = Chunks(row.text)
            BY <1>2, <1>4, <1>8, <3>1, <5>2 DEF SameRow, Reviewed, Chunks
          <6>1. row.active \subseteq Chunks(row.text) \/ d \in mixed'
            BY <1>11, <1>4 DEF Reviewed
          <6>2. QED BY <1>4, <1>14, <4>1, <5>2, <6>1 DEF SameRow
        <5>3. QED BY <5>1, <5>2
      <4>3. QED BY <1>6, <1>13, <3>1, <3>2, <4>1, <4>2 DEF ApprovalOk, Exists
    <3>6. QED BY <3>3, <3>4, <3>5
  <2>3. QED BY <2>1, <2>2
<1>16. InsertedInv'
  <2> SUFFICES ASSUME NEW q \in Sessions, NEW e \in Docs, sess'[q].new[e] # None
               PROVE  /\ Reviewed(sess'[q].new[e])
                      /\ sess'[q].new[e].rev < nextRev
                      /\ docs'[e] # None => /\ docs'[e].tenant = sess'[q].new[e].tenant
                                            /\ docs'[e].rev # sess'[q].new[e].rev
                      /\ \A p \in Sessions : /\ p # q => sess'[p].new[e] = None
                                             /\ ~ Known(sess'[p], e, sess'[q].new[e].rev)
    BY <1>6 DEF InsertedInv, Exists, Known
  <2>1. q # s /\ sess'[q] = sess[q]
    BY <1>7 DEF IdleSession
  <2>2. \A p \in Sessions : p # q => sess'[p].new[e] = None
    BY <1>7, <2>1 DEF KnowledgeInv, InsertedInv, IdleSession
  <2>3. \A p \in Sessions : ~ Known(sess'[p], e, sess[q].new[e].rev)
    BY <1>7, <2>1 DEF KnowledgeInv, InsertedInv, IdleSession, Known, Approving
  <2>4. QED BY <1>13, <2>1, <2>2, <2>3 DEF KnowledgeInv, InsertedInv, Exists
<1>17. QED BY <1>9, <1>10, <1>12, <1>15, <1>16 DEF KnowledgeInv, SessionInv

LEMMA KnowledgeInductive == KnowledgeInv /\ [KnowledgeNext]_kbVars => KnowledgeInv'
<1> SUFFICES ASSUME KnowledgeInv, [KnowledgeNext]_kbVars PROVE KnowledgeInv'
  OBVIOUS
<1>1. ASSUME NEW s \in Requests, UserStep(s) PROVE KnowledgeInv'
  BY <1>1, UploadStep, ApproveStep, ReadCorpusStep, ReadChunksStep, ActivateStep,
     CommitApprovalStep, RankStep DEF UserStep
<1>2. ASSUME NEW s \in Sessions, Replace(s) \/ CommitIndex(s) \/ Rollback(s) PROVE KnowledgeInv'
  BY <1>2, ReplaceStep, CommitIndexStep, RollbackStep
<1>3. CASE UNCHANGED kbVars
  BY <1>3 DEF kbVars, KnowledgeInv, KnowledgeTypeOK, ReviewedUnlessMixed, Reviewed, SessionInv,
              ApprovalOk, IndexOk, FoundOk, SameRow, InsertedInv, RevInv, Known, Exists
<1>4. QED BY <1>1, <1>2, <1>3, DirectoryStep DEF KnowledgeNext

LEMMA KnowledgeInitial == KnowledgeInit => KnowledgeInv
<1> SUFFICES ASSUME KnowledgeInit PROVE KnowledgeInv
  OBVIOUS
<1>1. KnowledgeTypeOK
  BY IdleType, KnowledgeAssumption DEF KnowledgeInit, KnowledgeTypeOK
<1>2. \A d \in Docs : ~ Exists(d)
  BY DEF KnowledgeInit, Exists
<1>3. \A s \in Sessions : sess[s] = IdleSession
  BY DEF KnowledgeInit
<1>4. SessionInv
  BY <1>3 DEF SessionInv, IdleSession, ApprovalOk, FoundOk, IndexOk, Approving
<1>5. InsertedInv
  BY <1>3 DEF InsertedInv, IdleSession
<1>6. QED BY <1>1, <1>2, <1>4, <1>5 DEF KnowledgeInv, ReviewedUnlessMixed, RevInv

(* The knowledge base is in order after any interleaving of uploads,       *)
(* re-indexing, approvals and searches.                                    *)
THEOREM KnowledgeInvariance == KnowledgeSpec => []KnowledgeInv
<1>1. QED BY KnowledgeInitial, KnowledgeInductive, PTL DEF KnowledgeSpec

(* A document is reviewed unless its approval met a replacement.           *)
THEOREM Reviewing == KnowledgeSpec => []ReviewedUnlessMixed
<1>1. KnowledgeInv => ReviewedUnlessMixed
  BY DEF KnowledgeInv
<1>2. QED BY <1>1, KnowledgeInvariance, PTL

(* What a search returns, its reader may see, and somebody reviewed.       *)
THEOREM Answering == KnowledgeSpec => []AnswersReviewed
<1>1. KnowledgeInv => AnswersReviewed
  BY DEF KnowledgeInv, SessionInv, FoundOk, AnswersReviewed
<1>2. QED BY <1>1, KnowledgeInvariance, PTL

(* A doc_id once taken stays with its tenant.                              *)
THEOREM Pinning == KnowledgeSpec => TenantPinned
<1> DEFINE Pinned == \A d \in Docs : Exists(d) => docs'[d] # None /\ docs'[d].tenant = docs[d].tenant
<1>1. ASSUME KnowledgeInv, NEW s \in Sessions, CommitIndex(s) PROVE Pinned
  BY <1>1 DEF CommitIndex, KnowledgeInv, InsertedInv, Exists
<1>2. ASSUME KnowledgeInv, NEW s \in Requests, CommitApproval(s) PROVE Pinned
  <2> DEFINE d == sess[s].doc
  <2>1. s \in Sessions /\ sess[s].pc \in Approving
    BY <1>2 DEF Sessions, CommitApproval, Approving
  <2>2. d \in Docs /\ Exists(d)
    BY <1>2, <2>1 DEF KnowledgeInv, SessionInv, ApprovalOk
  <2>3. docs[d] \in Row /\ docs \in [Docs -> Row \cup {None}]
    BY <1>2, <2>2 DEF KnowledgeInv, KnowledgeTypeOK, Exists
  <2>4. ApprovedRow(s, docs[d]).tenant = docs[d].tenant
    BY <2>3 DEF ApprovedRow, Row
  <2>5. ApprovedRow(s, docs[d]) # None
    <3>1. ApprovedRow(s, docs[d]) \in Row
      BY <1>2, <2>1, <2>3 DEF ApprovedRow, Row, KnowledgeInv, KnowledgeTypeOK, SessionState,
                              SessionInv, ApprovalOk
    <3>2. QED BY <3>1, NoneAssumption
  <2>6. docs' = [docs EXCEPT ![d] = ApprovedRow(s, docs[d])]
    BY <1>2 DEF CommitApproval
  <2>7. QED BY <2>2, <2>3, <2>4, <2>5, <2>6 DEF Exists
<1>3. ASSUME UNCHANGED docs PROVE Pinned
  BY <1>3 DEF Exists
<1>4. KnowledgeInv /\ [KnowledgeNext]_kbVars => Pinned
  <2> SUFFICES ASSUME KnowledgeInv, [KnowledgeNext]_kbVars PROVE Pinned
    OBVIOUS
  <2> HIDE DEF Pinned
  <2>1. ASSUME NEW s \in Requests, UserStep(s) PROVE Pinned
    BY <2>1, <1>2, <1>3 DEF UserStep, Upload, Approve, ReadCorpus, ReadChunks, Activate, Rank
  <2>2. ASSUME NEW s \in Sessions, Replace(s) \/ CommitIndex(s) \/ Rollback(s) PROVE Pinned
    BY <2>2, <1>1, <1>3 DEF Replace, Rollback
  <2>3. ASSUME StartDirectory \/ \E f \in Files : SkipFile(f) \/ TakeFile(f) PROVE Pinned
    BY <2>3, <1>3 DEF StartDirectory, SkipFile, TakeFile
  <2>4. CASE UNCHANGED kbVars
    BY <2>4, <1>3 DEF kbVars
  <2>5. QED BY <2>1, <2>2, <2>3, <2>4 DEF KnowledgeNext
<1>5. QED BY <1>4, KnowledgeInvariance, PTL DEF KnowledgeSpec, TenantPinned
=============================================================================
