------------------------------ MODULE Chunking ------------------------------
(***************************************************************************)
(* rag/documents.py, chunk_document: the lines of a document are gathered  *)
(* into sections of paragraphs, the paragraphs cut into windows and the    *)
(* windows packed into overlapping chunks, one step per iteration of each  *)
(* loop.  A word is the line it is on and its place there; a heading is    *)
(* its text.                                                               *)
(***************************************************************************)
EXTENDS Integers, Sequences

CONSTANTS
    Lines,      \* what a line may be: see ChunkingAssumption
    Title,      \* the section before the first heading
    MaxLines,   \* bound of a document's length
    Target,     \* TARGET_WORDS
    Overlap,    \* OVERLAP_WORDS
    Shortest    \* MIN_WORDS

Names == {l.name : l \in {l \in Lines : l.kind = "heading"}} \cup {Title}

ASSUME ChunkingAssumption ==
    /\ \A l \in Lines : l.kind = "text" => l.words \in Nat \ {0}
    /\ MaxLines \in Nat
    /\ Target \in Nat \ {0} /\ Overlap \in Nat /\ Shortest \in Nat
    /\ Overlap < Target /\ Shortest <= Overlap + 1

VARIABLES
    doc,       \* the lines of the body
    at,        \* the line to read next
    buf,       \* words of the current paragraph
    current,   \* the section being read, [name, paras]
    sections,  \* sections read, and not packed yet
    left,      \* words of the paragraph being cut
    cur,       \* words of the chunk being packed
    chunks,    \* [section, words], and how often a short rest was added to it
    phase

chunkingVars == <<doc, at, buf, current, sections, left, cur, chunks, phase>>

Word == (1..MaxLines) \X Nat
-----------------------------------------------------------------------------
(* Lines to sections                                                       *)

reading == <<doc, left, cur, chunks>>

(* flush_para                                                              *)
WithBuf == IF buf = <<>> THEN current ELSE [current EXCEPT !.paras = Append(@, buf)]

(* The sections, with the current one unless it is empty.                  *)
Closed == IF WithBuf.paras = <<>> THEN sections ELSE Append(sections, WithBuf)

WordsOf(i) == [k \in 1..doc[i].words |-> <<i, k>>]

ReadLine ==
    LET line == doc[at] IN
    /\ phase = "reading" /\ at <= Len(doc)
    /\ at' = at + 1
    /\ \/ /\ line.kind = "heading"
          /\ sections' = Closed
          /\ current' = [name |-> line.name, paras |-> <<>>]
          /\ buf' = <<>>
       \/ /\ line.kind = "blank"
          /\ current' = WithBuf
          /\ buf' = <<>>
          /\ UNCHANGED sections
       \/ /\ line.kind = "text"
          /\ buf' = buf \o WordsOf(at)
          /\ UNCHANGED <<current, sections>>
    /\ UNCHANGED <<phase, reading>>

EndReading ==
    /\ phase = "reading" /\ at > Len(doc)
    /\ sections' = Closed
    /\ phase' = "packing"
    /\ UNCHANGED <<at, buf, current, reading>>
-----------------------------------------------------------------------------
(* Sections to chunks                                                      *)

packing == <<doc, at, buf, current>>

Section == Head(sections)

Shorter(n) == IF n < Len(left) THEN n ELSE Len(left)

(* A paragraph of at most Target words, or the next window of a longer one *)
Piece == SubSeq(left, 1, Shorter(Target))

Chunk(name, words) == [section |-> name, words |-> words, rests |-> 0]

NextParagraph ==
    /\ phase = "packing" /\ sections # <<>>
    /\ left = <<>> /\ Section.paras # <<>>
    /\ left' = Head(Section.paras)
    /\ sections' = [sections EXCEPT ![1].paras = Tail(@)]
    /\ UNCHANGED <<cur, chunks, phase, packing>>

(* cur[-OVERLAP_WORDS:]                                                    *)
LastWords == SubSeq(cur, IF Len(cur) > Overlap THEN Len(cur) - Overlap + 1 ELSE 1, Len(cur))

IsFull == cur # <<>> /\ Len(cur) + Len(Piece) > Target

Pack ==
    /\ phase = "packing" /\ left # <<>>
    /\ chunks' = IF IsFull THEN Append(chunks, Chunk(Section.name, cur)) ELSE chunks
    /\ cur' = (IF IsFull THEN LastWords ELSE cur) \o Piece
    /\ left' = SubSeq(left, Len(Piece) + 1, Len(left))
    /\ UNCHANGED <<sections, phase, packing>>

(* Mutation: a short rest joins the last chunk, whatever section that is   *)
(* of.                                                                     *)
StandsAloneIfLong == Len(cur) >= Shortest \/ chunks = <<>>

StandsAlone ==
    \/ Len(cur) >= Shortest \/ chunks = <<>>
    \/ chunks[Len(chunks)].section # Section.name

(* What remains of a section becomes a chunk, or part of the last one if   *)
(* it is short and that is of a section of the same name.                  *)
EndSection ==
    /\ phase = "packing" /\ sections # <<>>
    /\ left = <<>> /\ Section.paras = <<>>
    /\ chunks' = IF StandsAlone THEN Append(chunks, Chunk(Section.name, cur))
                 ELSE [chunks EXCEPT ![Len(chunks)].words = @ \o cur, ![Len(chunks)].rests = @ + 1]
    /\ cur' = <<>>
    /\ sections' = Tail(sections)
    /\ UNCHANGED <<left, phase, packing>>

EndPacking ==
    /\ phase = "packing" /\ sections = <<>>
    /\ phase' = "done"
    /\ UNCHANGED <<sections, left, cur, chunks, packing>>
-----------------------------------------------------------------------------
ChunkingInit ==
    /\ doc \in UNION {[1..n -> Lines] : n \in 0..MaxLines}
    /\ at = 1 /\ buf = <<>> /\ sections = <<>> /\ left = <<>> /\ cur = <<>> /\ chunks = <<>>
    /\ current = [name |-> Title, paras |-> <<>>]
    /\ phase = "reading"

ChunkingNext ==
    ReadLine \/ EndReading \/ NextParagraph \/ Pack \/ EndSection \/ EndPacking

ChunkingSpec == ChunkingInit /\ [][ChunkingNext]_chunkingVars
-----------------------------------------------------------------------------
(* A chunk is as long as the target and the overlap at most, and longer    *)
(* only by the short rests added to it; nothing is packed that is not of   *)
(* the document (chunk_document).                                          *)
ChunkSizes ==
    /\ Len(cur) <= Target + Overlap
    /\ \A i \in 1..Len(chunks) :
          /\ Len(chunks[i].words) \in 1..(Target + Overlap + chunks[i].rests * Shortest)
          /\ chunks[i].section \in Names

Earlier(v, w) == v[1] < w[1] \/ (v[1] = w[1] /\ v[2] < w[2])

(* A chunk has its words in the order of the document and none twice, also *)
(* where chunks overlap and short rests are added (chunk_document).        *)
InReadingOrder ==
    \A i \in 1..Len(chunks) :
       LET ws == chunks[i].words
       IN  \A j \in 1..(Len(ws) - 1) : Earlier(ws[j], ws[j + 1])

(* The line of the heading a line is under, 0 if there is none, found by   *)
(* looking back.                                                           *)
HeadingLine(n) ==
    LET above == {i \in 1..n : doc[i].kind = "heading"}
    IN  IF above = {} THEN 0 ELSE CHOOSE i \in above : \A j \in above : j <= i

HeadingAbove(n) == IF HeadingLine(n) = 0 THEN Title ELSE doc[HeadingLine(n)].name

(* A chunk names the heading that all of its words are under, so that a    *)
(* citation of a section quotes that section (chunk_document).             *)
SectionsTrue ==
    \A i \in 1..Len(chunks) : \A j \in 1..Len(chunks[i].words) :
       chunks[i].section = HeadingAbove(chunks[i].words[j][1])

(* Every word of the document gets into a chunk (chunk_document).          *)
NothingLost ==
    phase = "done" =>
       \A n \in 1..Len(doc) : doc[n].kind = "text" =>
          \A k \in 1..doc[n].words :
             \E i \in 1..Len(chunks) : \E j \in 1..Len(chunks[i].words) : chunks[i].words[j] = <<n, k>>

(* Of two chunks of one section the second begins with the words the first *)
(* ends with, so that a sentence cut in two is whole in one of them        *)
(* (chunk_document).                                                       *)
OverlapKept ==
    \A i \in 1..(Len(chunks) - 1) :
       LET ws == chunks[i].words
           next == chunks[i + 1].words
           n == IF Len(ws) < Overlap THEN Len(ws) ELSE Overlap
       IN  HeadingLine(next[1][1]) = HeadingLine(ws[Len(ws)][1]) =>
              SubSeq(next, 1, n) = SubSeq(ws, Len(ws) - n + 1, Len(ws))

(* What retrieval and citations rely on: no word of a document is lost or  *)
(* out of order, and none is cited under a heading that it is not under.   *)
ChunksFaithful ==
    ChunkSizes /\ InReadingOrder /\ SectionsTrue /\ NothingLost /\ OverlapKept
=============================================================================
