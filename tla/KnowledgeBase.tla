--------------------------- MODULE KnowledgeBase ---------------------------
(***************************************************************************)
(* The documents the agents may cite: rag/indexer.py and its two callers,  *)
(* api/routes/knowledge.py (threads) and index_directory (the pipeline),   *)
(* and the two queries of rag/retriever.py.  Nothing is locked by a read;  *)
(* an UPDATE or DELETE locks its rows until the end of the transaction,    *)
(* and works on whatever row has the primary key by then.                  *)
(*                                                                         *)
(* Simplifications: the audit event between flush and commit is left to    *)
(* AuditChain; a text is a value with a number of chunks, a clearance      *)
(* level and the verdict of prompt_guard.scan; of the ranking only which   *)
(* chunks are candidates is kept.                                          *)
(***************************************************************************)
EXTENDS Integers, FiniteSets, Nullable

CONSTANTS
    Docs,          \* doc_id
    Texts,         \* what a document may say, one content_sha256 each
    Pieces,        \* [Texts -> Nat]: how many chunks chunk_document makes
    Level,         \* [Texts -> 0..3]: CLASSIFICATION_LEVELS of its classification
    Flagged,       \* texts prompt_guard.scan finds something in
    Tenants, Users,
    TenantOf,      \* [Users -> Tenants]
    RoleOf,        \* [Users -> Roles]
    Files,         \* the directory of the repository: files to index, one per document
    Requests,      \* threads of the API
    Pipeline,      \* the process that runs index_directory
    MaxRevisions,  \* bound: rows ever inserted
    Global,        \* tenant_id of a document for everybody
    Repository     \* uploaded_by of index_directory, and its "repository-review"

Sessions == Requests \cup {Pipeline}

Uploads == [doc : Docs, text : Texts, tenant : Tenants \cup {Global}]

ASSUME KnowledgeAssumption ==
    /\ Pieces \in [Texts -> Nat] /\ Level \in [Texts -> 0..3] /\ Flagged \subseteq Texts
    /\ TenantOf \in [Users -> Tenants] /\ Global \notin Tenants
    /\ RoleOf \in [Users -> {"analyst", "investigator", "mlro", "auditor", "admin"}]
    /\ Files \subseteq Uploads
    /\ \A f, g \in Files : f.doc = g.doc => f = g
    /\ Repository \notin Users
    /\ None \notin Users \cup {Repository} \cup Docs \cup Uploads
    /\ Pipeline \notin Requests /\ MaxRevisions \in Nat

VARIABLES
    docs,     \* the committed rows of kb_documents, each with its kb_chunks
    sess,     \* the session of each process: what it read and has flushed
    nextRev,  \* rows inserted so far, plus one
    mixed     \* history: documents last approved on another row than the one read

kbVars == <<docs, sess, nextRev, mixed>>

Chunks(text) == 1..Pieces[text]

(* rev tells apart the rows inserted under one doc_id, as created_at does; *)
(* active: the chunks with is_active.                                      *)
Row == [tenant : Tenants \cup {Global}, text : Texts,
        status : {"PENDING_REVIEW", "APPROVED", "QUARANTINED"},
        by : Users \cup {Repository}, approver : Users \cup {Repository, None},
        active : SUBSET Nat, rev : Nat]

Exists(d) == docs[d] # None

ASSUME NoneAssumption == None \notin Row

(* A chunk as retriever.search reads it, with its document's row.          *)
Chunk == [doc : Docs, index : Nat, row : Row]

IdleSession ==
    [pc |-> "idle", user |-> None, file |-> None, doc |-> None, seen |-> None, todo |-> {},
     new |-> [d \in Docs |-> None], left |-> {}, found |-> {}]

(* The rows a session has updated, deleted or inserted and not committed.  *)
Held(s) ==
    {d \in Docs : sess[s].new[d] # None}
    \cup {d \in Docs : sess[s].pc = "approved" /\ sess[s].doc = d}

Free(s, d) == \A q \in Sessions \ {s} : d \notin Held(q)
-----------------------------------------------------------------------------
(* indexer.index_document                                                  *)

UploadRoles == {"admin"}

ApproveRoles == {"mlro", "admin"}

(* Mutation: the owner of the doc_id is not looked at.                     *)
MayReplaceAnybody(f) == TRUE

(* Another text under a doc_id of the same tenant.                         *)
MayReplace(f) == Exists(f.doc) => docs[f.doc].tenant = f.tenant

SameText(f) == Exists(f.doc) /\ docs[f.doc].text = f.text

Status(text, trusted) ==
    IF text \in Flagged THEN "QUARANTINED"
    ELSE IF trusted THEN "APPROVED" ELSE "PENDING_REVIEW"

NewRow(f, u) ==
    LET status == Status(f.text, u = Repository)
    IN  [tenant |-> f.tenant, text |-> f.text, status |-> status, by |-> u,
         approver |-> IF status = "APPROVED" THEN Repository ELSE None,
         active |-> IF status = "APPROVED" THEN Chunks(f.text) ELSE {},
         rev |-> nextRev]

(* The same content again changes nothing.                                 *)
Upload(s, u, f) ==
    /\ sess[s].pc = "idle"
    /\ RoleOf[u] \in UploadRoles
    /\ f.tenant = TenantOf[u]
    /\ ~ SameText(f) /\ MayReplace(f)
    /\ sess' = [sess EXCEPT ![s] = [IdleSession EXCEPT !.pc = "indexing", !.user = u,
                                                       !.file = f, !.seen = docs[f.doc]]]
    /\ UNCHANGED <<docs, nextRev, mixed>>

(* index_directory takes its files in turn, in one transaction.            *)
StartDirectory ==
    /\ sess[Pipeline].pc = "idle"
    /\ sess' = [sess EXCEPT ![Pipeline] = [IdleSession EXCEPT !.pc = "directory", !.left = Files,
                                                              !.user = Repository]]
    /\ UNCHANGED <<docs, nextRev, mixed>>

SkipFile(f) ==
    /\ sess[Pipeline].pc = "directory"
    /\ f \in sess[Pipeline].left
    /\ SameText(f)
    /\ sess' = [sess EXCEPT ![Pipeline].left = @ \ {f}]
    /\ UNCHANGED <<docs, nextRev, mixed>>

TakeFile(f) ==
    /\ sess[Pipeline].pc = "directory"
    /\ f \in sess[Pipeline].left
    /\ ~ SameText(f) /\ MayReplace(f)
    /\ sess' = [sess EXCEPT ![Pipeline].pc = "indexing", ![Pipeline].file = f,
                            ![Pipeline].seen = docs[f.doc]]
    /\ UNCHANGED <<docs, nextRev, mixed>>

(* The INSERT of a row that was absent fails if it is there by now.        *)
InsertOk(s, d) == Exists(d) => sess[s].seen # None

(* DELETE of the row with this doc_id, if one was read, and INSERT.        *)
Replace(s) ==
    LET f == sess[s].file
        u == sess[s].user
    IN  /\ sess[s].pc = "indexing"
        /\ Free(s, f.doc)
        /\ InsertOk(s, f.doc)
        /\ nextRev <= MaxRevisions
        /\ sess' = [sess EXCEPT ![s].new[f.doc] = NewRow(f, u),
                                ![s].left = @ \ {f},
                                ![s].pc = IF s = Pipeline THEN "directory" ELSE "indexed"]
        /\ nextRev' = nextRev + 1
        /\ UNCHANGED <<docs, mixed>>
-----------------------------------------------------------------------------
(* indexer.approve_document                                                *)

(* Mutation: no four-eyes check.                                           *)
MayApproveOwn(u, row) ==
    row.tenant = TenantOf[u] /\ row.status # "QUARANTINED"

MayApprove(u, row) ==
    /\ row.tenant = TenantOf[u]
    /\ row.status # "QUARANTINED"
    /\ row.by # u

Approve(s, u, d) ==
    /\ sess[s].pc = "idle"
    /\ RoleOf[u] \in ApproveRoles
    /\ Exists(d)
    /\ MayApprove(u, docs[d])
    /\ sess' = [sess EXCEPT ![s] = [IdleSession EXCEPT !.pc = "approving", !.user = u,
                                                       !.doc = d, !.seen = docs[d]]]
    /\ UNCHANGED <<docs, nextRev, mixed>>

(* SELECT of the chunks: those that are inactive by now will be updated.   *)
ReadChunks(s) ==
    LET row == docs[sess[s].doc]
    IN  /\ sess[s].pc = "approving"
        /\ sess' = [sess EXCEPT ![s].pc = "activating", ![s].todo = Chunks(row.text) \ row.active]
        /\ UNCHANGED <<docs, nextRev, mixed>>

(* The UPDATEs: a chunk that is gone makes the flush fail.                 *)
Activate(s) ==
    LET d == sess[s].doc
    IN  /\ sess[s].pc = "activating"
        /\ Free(s, d)
        /\ sess[s].todo \subseteq Chunks(docs[d].text)
        /\ sess' = [sess EXCEPT ![s].pc = "approved"]
        /\ UNCHANGED <<docs, nextRev, mixed>>

(* Only the columns that differ from what was read are updated.            *)
ApprovedRow(s, row) ==
    [row EXCEPT !.status = IF sess[s].seen.status = "APPROVED" THEN @ ELSE "APPROVED",
                !.approver = IF sess[s].seen.approver = sess[s].user THEN @ ELSE sess[s].user,
                !.active = @ \cup sess[s].todo]
-----------------------------------------------------------------------------
(* The end of a transaction                                                *)

CommitIndex(s) ==
    /\ \/ sess[s].pc = "indexed"
       \/ sess[s].pc = "directory" /\ sess[s].left = {}
    /\ docs' = [d \in Docs |-> IF sess[s].new[d] # None THEN sess[s].new[d] ELSE docs[d]]
    /\ mixed' = {d \in mixed : sess[s].new[d] = None}
    /\ sess' = [sess EXCEPT ![s] = IdleSession]
    /\ UNCHANGED nextRev

CommitApproval(s) ==
    LET d == sess[s].doc
    IN  /\ sess[s].pc = "approved"
        /\ docs' = [docs EXCEPT ![d] = ApprovedRow(s, @)]
        /\ mixed' = IF docs[d].rev = sess[s].seen.rev THEN mixed ELSE mixed \cup {d}
        /\ sess' = [sess EXCEPT ![s] = IdleSession]
        /\ UNCHANGED nextRev

(* An error, a lost connection, or the end of a search.                    *)
Rollback(s) ==
    /\ sess[s].pc # "idle"
    /\ sess' = [sess EXCEPT ![s] = IdleSession]
    /\ UNCHANGED <<docs, nextRev, mixed>>
-----------------------------------------------------------------------------
(* Retriever.search                                                        *)

SearchRoles == {"analyst", "investigator", "mlro", "admin"}

(* security/rbac.py: ROLE_CLEARANCE.                                       *)
ClearanceFor(role) ==
    CASE role \in {"analyst", "auditor"} -> 1
      [] role = "investigator" -> 2
      [] OTHER -> 3

(* Mutation: tenant and activity only.                                     *)
AclFilterUncleared(u, c) ==
    c.index \in c.row.active /\ c.row.tenant \in {Global, TenantOf[u]}

AclFilter(u, c) ==
    /\ c.index \in c.row.active
    /\ c.row.tenant \in {Global, TenantOf[u]}
    /\ Level[c.row.text] <= ClearanceFor(RoleOf[u])

(* What the query with acl_filter returns now.                             *)
Permitted(u) ==
    UNION {{c \in [doc : {d}, index : Chunks(docs[d].text), row : {docs[d]}] : AclFilter(u, c)} :
           d \in {e \in Docs : Exists(e)}}

ReadCorpus(s, u) ==
    /\ sess[s].pc = "idle"
    /\ RoleOf[u] \in SearchRoles
    /\ sess' = [sess EXCEPT ![s] = [IdleSession EXCEPT !.pc = "searching", !.user = u,
                                                       !.found = Permitted(u)]]
    /\ UNCHANGED <<docs, nextRev, mixed>>

(* The nearest chunks come from a second query: an id that is not in the   *)
(* corpus read before is a KeyError (Rollback).  Fusion with the lexical   *)
(* ranking of the corpus, and top_k, leave any part of it.                 *)
Rank(s) ==
    /\ sess[s].pc = "searching"
    /\ \E answer \in SUBSET sess[s].found :
          sess' = [sess EXCEPT ![s].pc = "answered", ![s].found = answer]
    /\ UNCHANGED <<docs, nextRev, mixed>>
-----------------------------------------------------------------------------
KnowledgeInit ==
    /\ docs = [d \in Docs |-> None]
    /\ sess = [s \in Sessions |-> IdleSession]
    /\ nextRev = 1
    /\ mixed = {}

UserStep(s) ==
    \/ \E u \in Users :
          \/ \E f \in Uploads : Upload(s, u, f)
          \/ \E d \in Docs : Approve(s, u, d)
          \/ ReadCorpus(s, u)
    \/ ReadChunks(s) \/ Activate(s) \/ CommitApproval(s)
    \/ Rank(s)

KnowledgeNext ==
    \/ \E s \in Requests : UserStep(s)
    \/ StartDirectory
    \/ \E f \in Files : SkipFile(f) \/ TakeFile(f)
    \/ \E s \in Sessions : Replace(s) \/ CommitIndex(s) \/ Rollback(s)

KnowledgeSpec == KnowledgeInit /\ [][KnowledgeNext]_kbVars
-----------------------------------------------------------------------------
(* Properties                                                              *)

SessionState ==
    [pc : {"idle", "directory", "indexing", "indexed", "approving", "activating", "approved",
           "searching", "answered"},
     user : Users \cup {Repository, None}, file : Uploads \cup {None}, doc : Docs \cup {None},
     seen : Row \cup {None}, todo : SUBSET Nat, new : [Docs -> Row \cup {None}],
     left : SUBSET Files, found : SUBSET Chunk]

KnowledgeTypeOK ==
    /\ docs \in [Docs -> Row \cup {None}]
    /\ sess \in [Sessions -> SessionState]
    /\ nextRev \in 1..(MaxRevisions + 1)
    /\ mixed \in SUBSET Docs

(* A row may be retrieved, all of it, if it is approved, by the review of  *)
(* the repository or by somebody of its tenant other than its uploader,    *)
(* and not at all otherwise; flagged text is never approved.               *)
Reviewed(row) ==
    /\ row.active = IF row.status = "APPROVED" THEN Chunks(row.text) ELSE {}
    /\ row.text \in Flagged <=> row.status = "QUARANTINED"
    /\ row.status # "APPROVED" => row.approver = None
    /\ row.status = "APPROVED" =>
         \/ row.approver = Repository /\ row.by = Repository
         \/ /\ row.approver \in Users \ {row.by}
            /\ row.tenant = TenantOf[row.approver]

(* However uploads, approvals and re-indexing interleave, a document is    *)
(* reviewed, unless its last approval met a replacement: approve_document  *)
(* checked one row and updated another (rag/indexer.py:73-85).             *)
ReviewedUnlessMixed == \A d \in Docs : Exists(d) /\ d \notin mixed => Reviewed(docs[d])

(* A doc_id once taken stays with its tenant, although the check           *)
(* (rag/indexer.py:40) and the replacement are two steps, and a document   *)
(* that exists never disappears, although replacing it deletes it.         *)
TenantPinned ==
    [][\A d \in Docs : Exists(d) => docs'[d] # None /\ docs'[d].tenant = docs[d].tenant]_kbVars

(* What a search returns, after two queries and a re-index in between, was *)
(* within the reader's tenant and clearance, and reviewed, when it was     *)
(* read (rag/retriever.py:54).                                             *)
AnswersReviewed ==
    \A s \in Sessions : sess[s].pc = "answered" =>
       \A c \in sess[s].found :
          /\ c.row.tenant \in {Global, TenantOf[sess[s].user]}
          /\ Level[c.row.text] <= ClearanceFor(RoleOf[sess[s].user])
          /\ c.doc \notin mixed /\ docs[c.doc].rev = c.row.rev => c.row.status = "APPROVED"

(* rag/indexer.py:6: "invisible to retrieval until approved by a different *)
(* user with kb:approve (four-eyes). Any injection finding QUARANTINES the *)
(* document".                                                              *)
OnlyReviewedRetrievable == \A d \in Docs : Exists(d) => Reviewed(docs[d])
-----------------------------------------------------------------------------
(* The inductive invariant                                                 *)

Approving == {"approving", "activating", "approved"}

(* A document stays with what an approver read of it as long as its row is *)
(* the same one.                                                           *)
SameRow(x) ==
    docs[x.doc].rev = x.seen.rev =>
       /\ docs[x.doc].text = x.seen.text /\ docs[x.doc].by = x.seen.by
       /\ docs[x.doc].tenant = x.seen.tenant
       /\ docs[x.doc].status # "QUARANTINED"
       /\ x.seen.status = "APPROVED" => docs[x.doc].status = "APPROVED"
       /\ x.doc \notin mixed =>
            /\ Reviewed(x.seen)
            /\ x.pc # "approving" => docs[x.doc].active \cup x.todo = Chunks(docs[x.doc].text)

ApprovalOk(x) ==
    x.pc \in Approving =>
       /\ x.doc \in Docs /\ x.user \in Users /\ x.seen \in Row
       /\ Exists(x.doc)
       /\ MayApprove(x.user, x.seen)
       /\ x.seen.rev < nextRev
       /\ SameRow(x)

IndexOk(x) ==
    /\ x.pc \in {"directory", "indexing"} => x.user \in Users \cup {Repository}
    /\ x.pc = "indexing" =>
         /\ x.file \in Uploads
         /\ x.seen # None => Exists(x.file.doc) /\ docs[x.file.doc].tenant = x.file.tenant

(* What a search read, whether it has answered or not.                     *)
FoundOk(x) ==
    \A c \in x.found :
       /\ x.user \in Users
       /\ Exists(c.doc)
       /\ c.row.rev < nextRev
       /\ c.row.tenant \in {Global, TenantOf[x.user]}
       /\ Level[c.row.text] <= ClearanceFor(RoleOf[x.user])
       /\ c.doc \notin mixed /\ docs[c.doc].rev = c.row.rev => c.row.status = "APPROVED"

SessionInv == \A s \in Sessions : ApprovalOk(sess[s]) /\ IndexOk(sess[s]) /\ FoundOk(sess[s])

(* The session has read row rev of document d.                             *)
Known(x, d, rev) ==
    \/ x.pc \in Approving /\ x.doc = d /\ x.seen.rev = rev
    \/ \E c \in x.found : c.doc = d /\ c.row.rev = rev

(* A row to be inserted is in order, of the tenant that has the doc_id,    *)
(* the only one for its document, and nobody has read it.                  *)
InsertedInv ==
    \A s \in Sessions, d \in Docs : sess[s].new[d] # None =>
       /\ Reviewed(sess[s].new[d])
       /\ sess[s].new[d].rev < nextRev
       /\ Exists(d) => /\ docs[d].tenant = sess[s].new[d].tenant
                       /\ docs[d].rev # sess[s].new[d].rev
       /\ \A q \in Sessions : /\ q # s => sess[q].new[d] = None
                              /\ ~ Known(sess[q], d, sess[s].new[d].rev)

RevInv == \A d \in Docs : Exists(d) => docs[d].rev < nextRev

KnowledgeInv ==
    /\ KnowledgeTypeOK
    /\ ReviewedUnlessMixed
    /\ SessionInv /\ InsertedInv /\ RevInv
=============================================================================
