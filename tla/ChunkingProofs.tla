---------------------------- MODULE ChunkingProofs ----------------------------
(***************************************************************************)
(* The chunks of any document are faithful to it (rag/documents.py,        *)
(* chunk_document), whatever its lines and the sizes.                      *)
(*                                                                         *)
(* The invariant follows a word from its line to a chunk: the paragraph,   *)
(* the sections, the paragraph being cut and the chunk being packed hold   *)
(* the words in the order of the document, each section those under its    *)
(* heading, and all of them together every word read.                      *)
(***************************************************************************)
EXTENDS Chunking, SequenceTheorems, WellFoundedInduction, TLAPS
-----------------------------------------------------------------------------
(* The inductive invariant.  d is a document, V and W are sets of words,   *)
(* ps is the paragraphs of a section, ss sections, cs chunks.              *)

(* What a sequence, paragraphs, sections and chunks have in them.          *)
In(s) == {s[i] : i \in 1..Len(s)}
InParas(ps) == UNION {In(p) : p \in In(ps)}
InSections(ss) == UNION {InParas(sec.paras) : sec \in In(ss)}
InChunks(cs) == UNION {In(c.words) : c \in In(cs)}

(* The order of a document: within a sequence, and between two sets.       *)
Sorted(s) == \A i, j \in 1..Len(s) : i < j => Earlier(s[i], s[j])

Precede(V, W) == \A v \in V, w \in W : Earlier(v, w)

(* HeadingLine and HeadingAbove, of a document d.                          *)
Heading(d, n) ==
    LET above == {i \in 1..n : d[i].kind = "heading"}
    IN  IF above = {} THEN 0 ELSE CHOOSE i \in above : \A j \in above : j <= i

NameAt(d, n) == IF Heading(d, n) = 0 THEN Title ELSE d[Heading(d, n)].name

HeadingOk(d, n) ==
    /\ Heading(d, n) \in 0..n
    /\ Heading(d, n) # 0 => d[Heading(d, n)].kind = "heading"
    /\ \A i \in 1..n : d[i].kind = "heading" => i <= Heading(d, n)

(* The heading a word is under.                                            *)
Under(d, w) == Heading(d, w[1])

(* Words under one heading, under different ones, and under one of a name. *)
Together(d, V) == \A v, w \in V : Under(d, v) = Under(d, w)

Apart(d, V, W) == \A v \in V, w \in W : Under(d, v) < Under(d, w)

Named(d, V, name) == \A w \in V : NameAt(d, w[1]) = name

(* Paragraphs that have words, each in order and in the order of the       *)
(* document.                                                               *)
ParasOk(ps) ==
    \A i \in 1..Len(ps) :
       /\ ps[i] # <<>> /\ Sorted(ps[i])
       /\ \A j \in 1..Len(ps) : i < j => Precede(In(ps[i]), In(ps[j]))

SectionOk(d, sec) ==
    /\ ParasOk(sec.paras)
    /\ Named(d, InParas(sec.paras), sec.name)
    /\ Together(d, InParas(sec.paras))

SectionsOk(d, ss) ==
    /\ \A sec \in In(ss) : SectionOk(d, sec)
    /\ \A i, j \in 1..Len(ss) : i < j => Apart(d, InParas(ss[i].paras), InParas(ss[j].paras))

(* Sections to be packed have a paragraph.                                 *)
Filled(ss) == \A sec \in In(ss) : sec.paras # <<>>

(* The words of the first n lines are all in W.                            *)
Covered(d, n, W) ==
    \A i \in 1..n : d[i].kind = "text" => \A k \in 1..d[i].words : <<i, k>> \in W

(* ws begins with the words that previous ends with.                       *)
StartsLike(ws, previous) ==
    LET n == IF Len(previous) < Overlap THEN Len(previous) ELSE Overlap
    IN  /\ n <= Len(ws)
        /\ \A j \in 1..n : ws[j] = previous[Len(previous) - n + j]

(* OverlapKept, of two chunks.                                             *)
Overlaps(d, ws, next) == Under(d, next[1]) = Under(d, ws[Len(ws)]) => StartsLike(next, ws)

(* ChunkSizes, InReadingOrder and SectionsTrue, of a chunk.                *)
ChunkOk(d, c) ==
    /\ c.words # <<>> /\ Sorted(c.words)
    /\ Len(c.words) <= Target + Overlap + c.rests * Shortest
    /\ Named(d, In(c.words), c.section)

ChunksOk(d, cs) ==
    /\ \A c \in In(cs) : ChunkOk(d, c)
    /\ \A i \in 1..(Len(cs) - 1) : Overlaps(d, cs[i].words, cs[i + 1].words)

SectionRecord == [name : Names, paras : Seq(Seq(Word))]
ChunkRecord == [section : Names, words : Seq(Word), rests : Nat]

ChunkTypeOK ==
    /\ doc \in Seq(Lines) /\ Len(doc) <= MaxLines
    /\ at \in 1..(Len(doc) + 1)
    /\ buf \in Seq(Word) /\ left \in Seq(Word) /\ cur \in Seq(Word)
    /\ current \in SectionRecord /\ sections \in Seq(SectionRecord)
    /\ chunks \in Seq(ChunkRecord)
    /\ phase \in {"reading", "packing", "done"}

(* While lines are read: the closed sections are under headings before the *)
(* one being read.                                                         *)
ReadInv ==
    /\ left = <<>> /\ cur = <<>> /\ chunks = <<>>
    /\ Filled(sections)
    /\ \A w \in InSections(sections) : Under(doc, w) < Heading(doc, at - 1)
    /\ SectionOk(doc, current) /\ current.name = NameAt(doc, at - 1)
    /\ Sorted(buf) /\ Precede(InParas(current.paras), In(buf))
    /\ \A w \in In(buf) \cup InParas(current.paras) : Under(doc, w) = Heading(doc, at - 1)
    /\ Covered(doc, at - 1, In(buf) \cup InParas(current.paras) \cup InSections(sections))

(* V, the rest of a section, is of none of the chunks cs, or of the last   *)
(* one and c, the chunk being packed, overlaps with it.                    *)
Continues(cs, c) ==
    /\ cs # <<>> /\ c # <<>> /\ Shortest <= Len(c)
    /\ StartsLike(c, cs[Len(cs)].words)

Begins(d, cs, c, V) == Apart(d, InChunks(cs), V) \/ Continues(cs, c)

Rest(sec, c, l) == In(c) \cup In(l) \cup InParas(sec.paras)

(* A section that is being packed: what is left of it.                     *)
PackingOk(d, sec, cs, c, l) ==
    /\ Sorted(c) /\ Sorted(l) /\ Precede(In(c), In(l))
    /\ Precede(In(c) \cup In(l), InParas(sec.paras))
    /\ Together(d, Rest(sec, c, l)) /\ Named(d, Rest(sec, c, l), sec.name)
    /\ c # <<>> \/ l # <<>> \/ sec.paras # <<>>
    /\ Begins(d, cs, c, Rest(sec, c, l))

(* While sections are packed: those behind the first are untouched, and    *)
(* all words are in a chunk or still to be packed.                         *)
PackInv ==
    /\ at = Len(doc) + 1
    /\ Len(cur) <= Target + Overlap
    /\ IF sections = <<>> THEN cur = <<>> /\ left = <<>>
       ELSE /\ PackingOk(doc, Head(sections), chunks, cur, left)
            /\ Filled(Tail(sections))
            /\ Apart(doc, InChunks(chunks) \cup In(cur) \cup In(left), InSections(Tail(sections)))
    /\ phase = "done" => sections = <<>>
    /\ ChunksOk(doc, chunks)
    /\ Covered(doc, Len(doc), InChunks(chunks) \cup In(cur) \cup In(left) \cup InSections(sections))

(* All words are of lines that have been read.                             *)
WordsRead ==
    \A w \in In(buf) \cup InParas(current.paras) : w[1] < at

ChunkInv ==
    /\ ChunkTypeOK /\ WordsRead
    /\ SectionsOk(doc, sections)
    /\ IF phase = "reading" THEN ReadInv ELSE PackInv
-----------------------------------------------------------------------------
(* Sequences of words, and the headings that words are under               *)

(* A member of a sequence, its first and its last.                         *)
LEMMA InProperties ==
    ASSUME NEW S, NEW s \in Seq(S)
    PROVE  /\ In(s) \subseteq S
           /\ \A i \in 1..Len(s) : s[i] \in In(s)
           /\ In(s) = {} <=> s = <<>>
           /\ s # <<>> => s[1] \in In(s) /\ s[Len(s)] \in In(s) /\ Len(s) >= 1
<1>1. Len(s) \in Nat /\ \A i \in 1..Len(s) : s[i] \in S
  BY ElementOfSeq, LenProperties
<1>2. s # <<>> => Len(s) # 0
  BY EmptySeq
<1>3. Len(<<>>) = 0
  BY EmptySeq
<1>4. In(s) \subseteq S /\ \A i \in 1..Len(s) : s[i] \in In(s)
  BY <1>1 DEF In
<1>5. s # <<>> => s[1] \in In(s) /\ s[Len(s)] \in In(s) /\ Len(s) >= 1
  <2>1. s # <<>> => 1 \in 1..Len(s) /\ Len(s) \in 1..Len(s)
    BY <1>1, <1>2
  <2>2. QED BY <1>1, <1>4, <2>1
<1>6. s = <<>> => In(s) = {}
  BY <1>3 DEF In
<1>7. QED BY <1>4, <1>5, <1>6

(* Nothing is in the empty sequence.                                       *)
LEMMA InEmpty ==
    /\ In(<<>>) = {} /\ InParas(<<>>) = {} /\ InSections(<<>>) = {} /\ InChunks(<<>>) = {}
<1>1. Len(<<>>) = 0
  BY EmptySeq
<1>2. In(<<>>) = {}
  BY <1>1 DEF In
<1>3. QED BY <1>2 DEF InParas, InSections, InChunks

(* What two sequences have together.                                       *)
LEMMA InConcat ==
    ASSUME NEW S, NEW s \in Seq(S), NEW t \in Seq(S)
    PROVE  In(s \o t) = In(s) \cup In(t)
<1>1. /\ Len(s) \in Nat /\ Len(t) \in Nat /\ Len(s \o t) = Len(s) + Len(t)
      /\ \A i \in 1..Len(s) + Len(t) : (s \o t)[i] = IF i <= Len(s) THEN s[i] ELSE t[i - Len(s)]
  BY ConcatProperties, LenProperties
<1>2. ASSUME NEW w \in In(s \o t) PROVE w \in In(s) \cup In(t)
  <2>1. PICK i \in 1..Len(s) + Len(t) : w = (s \o t)[i]
    BY <1>1, <1>2 DEF In
  <2>2. CASE i <= Len(s)
    <3>1. i \in 1..Len(s) /\ w = s[i]
      BY <1>1, <2>1, <2>2
    <3>2. QED BY <3>1 DEF In
  <2>3. CASE i > Len(s)
    <3>1. i - Len(s) \in 1..Len(t) /\ w = t[i - Len(s)]
      BY <1>1, <2>1, <2>3
    <3>2. QED BY <3>1 DEF In
  <2>4. QED BY <1>1, <2>2, <2>3
<1>3. ASSUME NEW w \in In(s) PROVE w \in In(s \o t)
  <2>1. PICK i \in 1..Len(s) : w = s[i]
    BY <1>3 DEF In
  <2>2. i \in 1..Len(s \o t) /\ (s \o t)[i] = w
    BY <1>1, <2>1
  <2>3. QED BY <2>2 DEF In
<1>4. ASSUME NEW w \in In(t) PROVE w \in In(s \o t)
  <2>1. PICK i \in 1..Len(t) : w = t[i]
    BY <1>4 DEF In
  <2>2. Len(s) + i \in 1..Len(s \o t) /\ (s \o t)[Len(s) + i] = w
    BY <1>1, <2>1
  <2>3. QED BY <2>2 DEF In
<1>5. QED BY <1>2, <1>3, <1>4

(* What a sequence has with one more at its end.                           *)
LEMMA InAppend ==
    ASSUME NEW S, NEW s \in Seq(S), NEW x \in S
    PROVE  In(Append(s, x)) = In(s) \cup {x}
<1> DEFINE a == Append(s, x)
<1>1. Len(s) \in Nat /\ Len(a) = Len(s) + 1
  BY LenProperties, AppendProperties
<1>2. (\A i \in 1..Len(s) : a[i] = s[i]) /\ a[Len(s) + 1] = x
  BY AppendProperties
<1> HIDE DEF a
<1>3. ASSUME NEW w \in In(a) PROVE w \in In(s) \cup {x}
  <2>1. PICK i \in 1..Len(a) : w = a[i]
    BY <1>3 DEF In
  <2>2. i \in 1..Len(s) \/ i = Len(s) + 1
    BY <1>1
  <2>3. QED BY <1>2, <2>1, <2>2 DEF In
<1>4. ASSUME NEW w \in In(s) PROVE w \in In(a)
  <2>1. PICK i \in 1..Len(s) : w = s[i]
    BY <1>4 DEF In
  <2>2. i \in 1..Len(a) /\ a[i] = w
    BY <1>1, <1>2, <2>1
  <2>3. QED BY <2>2 DEF In
<1>5. x \in In(a)
  <2>1. Len(s) + 1 \in 1..Len(a)
    BY <1>1
  <2>2. QED BY <1>2, <2>1 DEF In
<1>6. QED BY <1>3, <1>4, <1>5 DEF a

(* What a sequence has is its head and what its tail has.                  *)
LEMMA InHeadTail ==
    ASSUME NEW S, NEW s \in Seq(S), s # <<>>
    PROVE  /\ Head(s) = s[1] /\ Head(s) \in S /\ Tail(s) \in Seq(S)
           /\ Len(s) \in Nat /\ Len(Tail(s)) = Len(s) - 1
           /\ \A i \in 1..(Len(s) - 1) : Tail(s)[i] = s[i + 1]
           /\ In(s) = {Head(s)} \cup In(Tail(s))
<1> DEFINE t == Tail(s)
<1>1. Len(s) \in Nat /\ Len(s) >= 1 /\ \A i \in 1..Len(s) : s[i] \in S
  BY ElementOfSeq, LenProperties, InProperties
<1>2. /\ Head(s) \in S /\ t \in Seq(S) /\ Len(t) = Len(s) - 1
      /\ \A i \in 1..(Len(s) - 1) : t[i] = s[i + 1]
  BY HeadTailProperties
<1>3. Head(s) = s[1]
  OBVIOUS
<1> HIDE DEF t
<1>4. ASSUME NEW w \in In(s) PROVE w \in {Head(s)} \cup In(t)
  <2>1. PICK i \in 1..Len(s) : w = s[i]
    BY <1>4 DEF In
  <2>2. CASE i = 1
    BY <1>3, <2>1, <2>2
  <2>3. CASE i # 1
    <3>1. i - 1 \in 1..(Len(s) - 1) /\ (i - 1) + 1 = i
      BY <1>1, <2>3
    <3>2. t[i - 1] = w /\ i - 1 \in 1..Len(t)
      BY <1>2, <2>1, <3>1
    <3>3. QED BY <3>2 DEF In
  <2>4. QED BY <2>2, <2>3
<1>5. ASSUME NEW w \in In(t) PROVE w \in In(s)
  <2>1. PICK i \in 1..(Len(s) - 1) : w = t[i]
    BY <1>2, <1>5 DEF In
  <2>2. i + 1 \in 1..Len(s) /\ s[i + 1] = w
    BY <1>1, <1>2, <2>1
  <2>3. QED BY <2>2 DEF In
<1>6. Head(s) \in In(s)
  BY <1>3, InProperties
<1>7. In(s) = {Head(s)} \cup In(t)
  BY <1>4, <1>5, <1>6
<1>8. QED BY <1>1, <1>2, <1>3, <1>7 DEF t

(* Two parts of a document in order are in order together.                 *)
LEMMA SortedConcat ==
    ASSUME NEW S, NEW s \in Seq(S), NEW t \in Seq(S),
           Sorted(s), Sorted(t), Precede(In(s), In(t))
    PROVE  Sorted(s \o t)
<1> DEFINE m == Len(s)
           n == Len(t)
           u == s \o t
<1>1. /\ m \in Nat /\ n \in Nat /\ Len(u) = m + n
      /\ \A i \in 1..(m + n) : u[i] = IF i <= m THEN s[i] ELSE t[i - m]
  BY ConcatProperties, LenProperties
<1>2. /\ \A i, j \in 1..m : i < j => Earlier(s[i], s[j])
      /\ \A i, j \in 1..n : i < j => Earlier(t[i], t[j])
      /\ \A i \in 1..m, j \in 1..n : Earlier(s[i], t[j])
  BY InProperties DEF Sorted, Precede
<1> HIDE DEF m, n, u
<1>3. SUFFICES ASSUME NEW i \in 1..(m + n), NEW j \in 1..(m + n), i < j
               PROVE  Earlier(u[i], u[j])
  BY <1>1 DEF Sorted, u
<1>4. CASE j <= m
  <2>1. i \in 1..m /\ j \in 1..m /\ u[i] = s[i] /\ u[j] = s[j]
    BY <1>1, <1>3, <1>4
  <2>2. QED BY <1>2, <1>3, <2>1
<1>5. CASE i > m
  <2>1. /\ i - m \in 1..n /\ j - m \in 1..n /\ i - m < j - m
        /\ u[i] = t[i - m] /\ u[j] = t[j - m]
    BY <1>1, <1>3, <1>5
  <2>2. QED BY <1>2, <2>1
<1>6. CASE i <= m /\ j > m
  <2>1. i \in 1..m /\ j - m \in 1..n /\ u[i] = s[i] /\ u[j] = t[j - m]
    BY <1>1, <1>6
  <2>2. QED BY <1>2, <2>1
<1>7. QED BY <1>1, <1>4, <1>5, <1>6

(* What a sequence is cut into.                                            *)
LEMMA Cut ==
    ASSUME NEW S, NEW s \in Seq(S), NEW n \in 0..Len(s)
    PROVE  LET p == SubSeq(s, 1, n)
               q == SubSeq(s, n + 1, Len(s))
           IN  /\ p \in Seq(S) /\ Len(p) = n /\ \A i \in 1..n : p[i] = s[i]
               /\ q \in Seq(S) /\ Len(q) = Len(s) - n
               /\ \A i \in 1..(Len(s) - n) : q[i] = s[n + i]
               /\ In(s) = In(p) \cup In(q)
               /\ Sorted(s) => Sorted(p) /\ Sorted(q) /\ Precede(In(p), In(q))
<1> DEFINE N == Len(s)
           p == SubSeq(s, 1, n)
           q == SubSeq(s, n + 1, N)
<1>1. N \in Nat /\ n \in Nat /\ \A i \in 1..N : s[i] \in S
  BY ElementOfSeq, LenProperties
<1>2. p \in Seq(S) /\ Len(p) = n /\ \A i \in 1..n : p[i] = s[i]
  <2>1. \A i \in 1..n : s[i] \in S
    BY <1>1
  <2>2. /\ p \in Seq(S) /\ Len(p) = IF 1 <= n THEN n - 1 + 1 ELSE 0
        /\ \A i \in 1..(n - 1 + 1) : p[i] = s[1 + i - 1]
    BY <1>1, <2>1, SubSeqProperties
  <2>3. QED BY <1>1, <2>2
<1>3. q \in Seq(S) /\ Len(q) = N - n /\ \A i \in 1..(N - n) : q[i] = s[n + i]
  <2>1. n + 1 \in Int /\ N \in Int /\ \A i \in (n + 1)..N : s[i] \in S
    BY <1>1
  <2>2. /\ q \in Seq(S) /\ Len(q) = IF n + 1 <= N THEN N - (n + 1) + 1 ELSE 0
        /\ \A i \in 1..(N - (n + 1) + 1) : q[i] = s[(n + 1) + i - 1]
    BY <2>1, SubSeqProperties
  <2> HIDE DEF q
  <2>3. n <= N
    OBVIOUS
  <2> HIDE DEF N
  <2>4. Len(q) = N - n
    BY <1>1, <2>2, <2>3
  <2>5. ASSUME NEW i \in 1..(N - n) PROVE q[i] = s[n + i]
    <3>1. (n + 1) + i - 1 = n + i /\ i \in 1..(N - (n + 1) + 1)
      BY <1>1
    <3>2. QED BY <2>2, <3>1
  <2>6. QED BY <2>2, <2>4, <2>5
<1> HIDE DEF p, q
<1>4. \A i \in 1..n : i \in 1..N
  BY <1>1
<1>5. \A i \in 1..(N - n) : n + i \in 1..N
  BY <1>1
<1>6. In(s) = In(p) \cup In(q)
  <2>1. ASSUME NEW w \in In(s) PROVE w \in In(p) \cup In(q)
    <3>1. PICK i \in 1..N : w = s[i]
      BY <2>1 DEF In
    <3>2. CASE i <= n
      <4>1. i \in 1..Len(p) /\ p[i] = w
        BY <1>1, <1>2, <3>1, <3>2
      <4>2. QED BY <4>1 DEF In
    <3>3. CASE i > n
      <4>1. i - n \in 1..(N - n) /\ n + (i - n) = i
        BY <1>1, <3>3
      <4>2. i - n \in 1..Len(q) /\ q[i - n] = w
        BY <1>3, <3>1, <4>1
      <4>3. QED BY <4>2 DEF In
    <3>4. QED BY <1>1, <3>2, <3>3
  <2>2. In(p) \subseteq In(s)
    BY <1>2, <1>4 DEF In
  <2>3. In(q) \subseteq In(s)
    <3>1. ASSUME NEW i \in 1..(N - n) PROVE q[i] \in In(s)
      BY <1>3, <1>5 DEF In
    <3>2. QED BY <1>3, <3>1 DEF In
  <2>4. QED BY <2>1, <2>2, <2>3
<1>7. ASSUME Sorted(s) PROVE Sorted(p) /\ Sorted(q) /\ Precede(In(p), In(q))
  <2>1. \A i, j \in 1..N : i < j => Earlier(s[i], s[j])
    BY <1>7 DEF Sorted
  <2>2. Sorted(p)
    BY <1>2, <1>4, <2>1 DEF Sorted
  <2>3. Sorted(q)
    <3>1. SUFFICES ASSUME NEW i \in 1..(N - n), NEW j \in 1..(N - n), i < j
                   PROVE  Earlier(q[i], q[j])
      BY <1>3 DEF Sorted
    <3>2. n + i < n + j
      BY <1>1, <3>1
    <3>3. QED BY <1>3, <1>5, <2>1, <3>2
  <2>4. ASSUME NEW v \in In(p), NEW w \in In(q) PROVE Earlier(v, w)
    <3>1. PICK i \in 1..n : v = s[i]
      BY <1>2 DEF In
    <3>2. PICK j \in 1..(N - n) : w = s[n + j]
      BY <1>3 DEF In
    <3>3. i < n + j
      BY <1>1
    <3>4. QED BY <1>4, <1>5, <2>1, <3>1, <3>2, <3>3
  <2>5. QED BY <2>2, <2>3, <2>4 DEF Precede
<1>8. QED BY <1>2, <1>3, <1>6, <1>7 DEF p, q

(* HeadingLine is found.                                                   *)
LEMMA HeadingFound ==
    ASSUME NEW d, NEW n \in Nat
    PROVE  HeadingOk(d, n)
<1> DEFINE IsHeading(i) == d[i].kind = "heading"
           Bad == {k \in Nat : ~ HeadingOk(d, k)}
           R == OpToRel(<, Nat)
<1>1. IsWellFoundedOn(R, Nat)
  BY NatLessThanWellFounded
<1>2. \A k, m \in Nat : k < m => <<k, m>> \in R
  BY DEF OpToRel
<1>3. SUFFICES ASSUME Bad # {} PROVE FALSE
  OBVIOUS
<1>4. PICK m \in Bad : \A k \in Bad : ~ (<<k, m>> \in R)
  <2>1. Bad \in SUBSET Nat
    OBVIOUS
  <2> HIDE DEF R, Bad
  <2>2. QED BY <1>1, <1>3, <2>1, WFMin
<1> HIDE DEF R
<1>5. m \in Nat /\ ~ HeadingOk(d, m)
  OBVIOUS
<1>6. CASE m = 0
  <2>1. Heading(d, 0) = 0
    BY DEF Heading
  <2>2. HeadingOk(d, 0)
    BY <2>1 DEF HeadingOk
  <2>3. QED BY <1>5, <1>6, <2>2
<1>7. CASE m # 0
  <2> DEFINE k == m - 1
             above == {i \in 1..m : IsHeading(i)}
  <2>1. k \in Nat /\ k < m /\ m = k + 1
    BY <1>5, <1>7
  <2>2. HeadingOk(d, k)
    BY <1>2, <1>4, <1>5, <2>1
  <2>3. \E i \in 0..m : /\ i # 0 => i \in above
                        /\ \A j \in above : j <= i
                        /\ above # {} => i # 0
    <3>1. CASE IsHeading(m)
      BY <1>5, <1>7, <3>1
    <3>2. CASE ~ IsHeading(m)
      <4>1. Heading(d, k) \in 0..k /\ (Heading(d, k) # 0 => Heading(d, k) \in above)
        BY <2>1, <2>2 DEF HeadingOk
      <4>2. \A j \in above : j \in 1..k
        BY <2>1, <3>2
      <4>3. \A j \in above : 1 <= j /\ j <= Heading(d, k)
        BY <2>2, <4>2 DEF HeadingOk
      <4>4. Heading(d, k) \in 0..m
        BY <2>1, <4>1
      <4>5. above # {} => Heading(d, k) # 0
        BY <4>3, <4>4
      <4>6. QED BY <4>1, <4>3, <4>4, <4>5
    <3>3. QED BY <3>1, <3>2
  <2>4. Heading(d, m) = IF above = {} THEN 0 ELSE CHOOSE i \in above : \A j \in above : j <= i
    BY DEF Heading
  <2>5. \A i \in above : i \in 1..m /\ IsHeading(i)
    OBVIOUS
  <2>6. \A i \in 1..m : IsHeading(i) => i \in above
    OBVIOUS
  <2> HIDE DEF above
  <2>7. /\ above = {} => Heading(d, m) = 0
        /\ above # {} => Heading(d, m) \in above /\ \A j \in above : j <= Heading(d, m)
    BY <2>3, <2>4
  <2>8. HeadingOk(d, m)
    BY <1>5, <2>5, <2>6, <2>7 DEF HeadingOk
  <2>9. QED BY <1>5, <2>8
<1>8. QED BY <1>6, <1>7

(* The next line is under its own heading, or what the line before it is.  *)
LEMMA NextHeading ==
    ASSUME NEW d, NEW n \in Nat \ {0}
    PROVE  Heading(d, n) = IF d[n].kind = "heading" THEN n ELSE Heading(d, n - 1)
<1>1. n - 1 \in Nat
  OBVIOUS
<1>2. HeadingOk(d, n) /\ HeadingOk(d, n - 1)
  BY <1>1, HeadingFound
<1>3. /\ Heading(d, n) \in 0..n /\ Heading(d, n - 1) \in 0..(n - 1)
      /\ Heading(d, n) # 0 => d[Heading(d, n)].kind = "heading"
      /\ Heading(d, n - 1) # 0 => d[Heading(d, n - 1)].kind = "heading"
      /\ \A i \in 1..n : d[i].kind = "heading" => i <= Heading(d, n)
      /\ \A i \in 1..(n - 1) : d[i].kind = "heading" => i <= Heading(d, n - 1)
  BY <1>2 DEF HeadingOk
<1> DEFINE h == Heading(d, n)
           g == Heading(d, n - 1)
<1> HIDE DEF h, g
<1>4. /\ h \in 0..n /\ g \in 0..(n - 1)
      /\ h # 0 => d[h].kind = "heading"
      /\ g # 0 => d[g].kind = "heading"
      /\ \A i \in 1..n : d[i].kind = "heading" => i <= h
      /\ \A i \in 1..(n - 1) : d[i].kind = "heading" => i <= g
  BY <1>3 DEF h, g
<1>5. CASE d[n].kind = "heading"
  <2>1. n \in 1..n
    OBVIOUS
  <2>2. n <= h
    BY <1>4, <1>5, <2>1
  <2>3. QED BY <1>4, <1>5, <2>2 DEF h
<1>6. CASE d[n].kind # "heading"
  <2>1. h # n
    BY <1>4, <1>6
  <2>2. h <= g
    <3>1. CASE h = 0
      BY <1>4, <3>1
    <3>2. CASE h # 0
      <4>1. h \in 1..(n - 1)
        BY <1>4, <2>1, <3>2
      <4>2. QED BY <1>4, <3>2, <4>1
    <3>3. QED BY <3>1, <3>2
  <2>3. g <= h
    <3>1. CASE g = 0
      BY <1>4, <3>1
    <3>2. CASE g # 0
      <4>1. g \in 1..n
        BY <1>4, <3>2
      <4>2. QED BY <1>4, <3>2, <4>1
    <3>3. QED BY <3>1, <3>2
  <2>4. g = h
    BY <1>4, <2>2, <2>3
  <2>5. QED BY <1>6, <2>4 DEF g, h
<1>7. QED BY <1>5, <1>6

(* A word is under a heading at or before its line.                        *)
LEMMA UnderType ==
    ASSUME NEW d, NEW w \in Word
    PROVE  w[1] \in Nat \ {0} /\ w[2] \in Nat /\ Under(d, w) \in 0..w[1]
<1>1. w[1] \in 1..MaxLines /\ w[2] \in Nat
  BY DEF Word
<1>2. w[1] \in Nat \ {0}
  BY <1>1, ChunkingAssumption
<1>3. QED BY <1>1, <1>2, HeadingFound DEF HeadingOk, Under

(* Words under different headings are in the order of the headings.        *)
LEMMA ApartPrecede ==
    ASSUME NEW d, NEW V \in SUBSET Word, NEW W \in SUBSET Word, Apart(d, V, W)
    PROVE  Precede(V, W)
<1>1. SUFFICES ASSUME NEW v \in V, NEW w \in W PROVE v[1] < w[1]
  BY DEF Precede, Earlier
<1>2. /\ v[1] \in Nat \ {0} /\ w[1] \in Nat \ {0}
      /\ Under(d, v) \in 0..v[1] /\ Under(d, w) \in 0..w[1]
  BY UnderType
<1>3. Under(d, v) < Under(d, w)
  BY DEF Apart
<1>4. SUFFICES ASSUME w[1] <= v[1] PROVE FALSE
  BY <1>2
<1>5. HeadingOk(d, v[1]) /\ HeadingOk(d, w[1])
  BY <1>2, HeadingFound
<1>6. Under(d, w) # 0 /\ Under(d, w) \in 1..v[1] /\ d[Under(d, w)].kind = "heading"
  BY <1>2, <1>3, <1>4, <1>5 DEF HeadingOk, Under
<1>7. Under(d, w) <= Under(d, v)
  BY <1>5, <1>6 DEF HeadingOk, Under
<1>8. QED BY <1>2, <1>3, <1>7

(* Lines under the same heading have the same section name.                *)
LEMMA SameName ==
    ASSUME NEW d, NEW m, NEW n, Heading(d, m) = Heading(d, n)
    PROVE  NameAt(d, m) = NameAt(d, n)
BY DEF NameAt
-----------------------------------------------------------------------------
(* Paragraphs, sections and chunks, and what is added to them              *)

(* A paragraph is added to a section.                                      *)
LEMMA ParasAppend ==
    ASSUME NEW ps \in Seq(Seq(Word)), NEW p \in Seq(Word), p # <<>>, Sorted(p),
           ParasOk(ps), Precede(InParas(ps), In(p))
    PROVE  /\ Append(ps, p) \in Seq(Seq(Word)) /\ Append(ps, p) # <<>>
           /\ ParasOk(Append(ps, p))
           /\ InParas(Append(ps, p)) = InParas(ps) \cup In(p)
<1> DEFINE qs == Append(ps, p)
           n == Len(ps)
<1>1. /\ n \in Nat /\ qs \in Seq(Seq(Word)) /\ qs # <<>> /\ Len(qs) = n + 1
      /\ (\A i \in 1..n : qs[i] = ps[i]) /\ qs[n + 1] = p
  BY LenProperties, AppendProperties
<1>2. InParas(qs) = InParas(ps) \cup In(p)
  BY InAppend DEF InParas
<1>3. \A i \in 1..n : In(ps[i]) \subseteq InParas(ps)
  BY InProperties DEF InParas
<1>4. /\ \A i \in 1..n : ps[i] # <<>> /\ Sorted(ps[i])
      /\ \A i, j \in 1..n : i < j => Precede(In(ps[i]), In(ps[j]))
  BY DEF ParasOk
<1> HIDE DEF qs, n
<1>5. ASSUME NEW i \in 1..(n + 1)
      PROVE  /\ qs[i] # <<>> /\ Sorted(qs[i])
             /\ \A j \in 1..(n + 1) : i < j => Precede(In(qs[i]), In(qs[j]))
  <2>1. CASE i = n + 1
    <3>1. qs[i] = p
      BY <1>1, <2>1
    <3>2. \A j \in 1..(n + 1) : ~ (i < j)
      BY <1>1, <2>1
    <3>3. QED BY <3>1, <3>2
  <2>2. CASE i # n + 1
    <3>1. i \in 1..n /\ qs[i] = ps[i]
      BY <1>1, <2>2
    <3>2. ASSUME NEW j \in 1..(n + 1), i < j PROVE Precede(In(qs[i]), In(qs[j]))
      <4>1. CASE j = n + 1
        BY <1>1, <1>3, <3>1, <4>1 DEF Precede
      <4>2. CASE j # n + 1
        <5>1. j \in 1..n /\ qs[j] = ps[j]
          BY <1>1, <4>2
        <5>2. QED BY <1>4, <3>1, <3>2, <5>1
      <4>3. QED BY <4>1, <4>2
    <3>3. QED BY <1>4, <3>1, <3>2
  <2>3. QED BY <2>1, <2>2
<1>6. ParasOk(qs)
  BY <1>1, <1>5 DEF ParasOk
<1>7. QED BY <1>1, <1>2, <1>6 DEF qs

(* A paragraph is taken from a section.                                    *)
LEMMA ParasTail ==
    ASSUME NEW ps \in Seq(Seq(Word)), ps # <<>>, ParasOk(ps)
    PROVE  /\ Head(ps) \in Seq(Word) /\ Tail(ps) \in Seq(Seq(Word))
           /\ Head(ps) # <<>> /\ Sorted(Head(ps))
           /\ ParasOk(Tail(ps))
           /\ InParas(ps) = In(Head(ps)) \cup InParas(Tail(ps))
           /\ Precede(In(Head(ps)), InParas(Tail(ps)))
<1> DEFINE t == Tail(ps)
           n == Len(ps) - 1
<1>1. /\ Head(ps) \in Seq(Word) /\ t \in Seq(Seq(Word)) /\ Head(ps) = ps[1]
      /\ Len(t) = n /\ n \in Nat /\ Len(ps) = n + 1
      /\ (\A i \in 1..n : t[i] = ps[i + 1]) /\ In(ps) = {Head(ps)} \cup In(t)
  BY InHeadTail, InProperties
<1>2. /\ \A i \in 1..(n + 1) : ps[i] # <<>> /\ Sorted(ps[i])
      /\ \A i, j \in 1..(n + 1) : i < j => Precede(In(ps[i]), In(ps[j]))
  BY <1>1 DEF ParasOk
<1>3. InParas(ps) = In(Head(ps)) \cup InParas(t)
  BY <1>1 DEF InParas
<1> HIDE DEF t, n
<1>4. 1 \in 1..(n + 1) /\ \A i \in 1..n : i + 1 \in 1..(n + 1) /\ 1 < i + 1
  BY <1>1
<1>5. ParasOk(t)
  <2>1. ASSUME NEW i \in 1..n
        PROVE  /\ t[i] # <<>> /\ Sorted(t[i])
               /\ \A j \in 1..n : i < j => Precede(In(t[i]), In(t[j]))
    <3>1. \A j \in 1..n : i < j => i + 1 < j + 1
      OBVIOUS
    <3>2. QED BY <1>1, <1>2, <1>4, <3>1
  <2>2. QED BY <1>1, <2>1 DEF ParasOk
<1>6. Precede(In(Head(ps)), InParas(t))
  <2>1. ASSUME NEW p \in In(t) PROVE Precede(In(Head(ps)), In(p))
    <3>1. PICK i \in 1..n : p = t[i]
      BY <1>1, <2>1 DEF In
    <3>2. QED BY <1>1, <1>2, <1>4, <3>1
  <2>2. QED BY <2>1 DEF InParas, Precede
<1>7. QED BY <1>1, <1>2, <1>3, <1>4, <1>5, <1>6 DEF t

(* The words of a section are among those of all.                          *)
LEMMA InSectionsType ==
    ASSUME NEW ss \in Seq(SectionRecord)
    PROVE  \A sec \in In(ss) : InParas(sec.paras) \subseteq InSections(ss)
BY DEF InSections

(* A section is closed.                                                    *)
LEMMA SectionsAppend ==
    ASSUME NEW d, NEW ss \in Seq(SectionRecord), NEW x \in SectionRecord,
           SectionsOk(d, ss), SectionOk(d, x), Apart(d, InSections(ss), InParas(x.paras))
    PROVE  /\ Append(ss, x) \in Seq(SectionRecord)
           /\ SectionsOk(d, Append(ss, x))
           /\ InSections(Append(ss, x)) = InSections(ss) \cup InParas(x.paras)
           /\ Filled(ss) /\ x.paras # <<>> => Filled(Append(ss, x))
<1> DEFINE rs == Append(ss, x)
           n == Len(ss)
<1>1. /\ n \in Nat /\ rs \in Seq(SectionRecord) /\ Len(rs) = n + 1
      /\ (\A i \in 1..n : rs[i] = ss[i]) /\ rs[n + 1] = x
      /\ In(rs) = In(ss) \cup {x}
  BY LenProperties, AppendProperties, InAppend
<1>2. /\ \A sec \in In(ss) : SectionOk(d, sec)
      /\ \A i, j \in 1..n : i < j => Apart(d, InParas(ss[i].paras), InParas(ss[j].paras))
  BY DEF SectionsOk
<1>3. \A i \in 1..n : InParas(ss[i].paras) \subseteq InSections(ss)
  BY InProperties, InSectionsType
<1>4. InSections(rs) = InSections(ss) \cup InParas(x.paras)
  BY <1>1 DEF InSections
<1>5. Filled(ss) /\ x.paras # <<>> => Filled(rs)
  BY <1>1 DEF Filled
<1> HIDE DEF rs, n
<1>6. ASSUME NEW i \in 1..(n + 1), NEW j \in 1..(n + 1), i < j
      PROVE  Apart(d, InParas(rs[i].paras), InParas(rs[j].paras))
  <2>1. i \in 1..n /\ rs[i] = ss[i]
    BY <1>1, <1>6
  <2>2. CASE j = n + 1
    BY <1>1, <1>3, <2>1, <2>2 DEF Apart
  <2>3. CASE j # n + 1
    <3>1. j \in 1..n /\ rs[j] = ss[j]
      BY <1>1, <2>3
    <3>2. QED BY <1>2, <1>6, <2>1, <3>1
  <2>4. QED BY <2>2, <2>3
<1>7. SectionsOk(d, rs)
  BY <1>1, <1>2, <1>6 DEF SectionsOk
<1>8. QED BY <1>1, <1>4, <1>5, <1>7 DEF rs

(* A section is packed and gone.                                           *)
LEMMA SectionsTail ==
    ASSUME NEW d, NEW ss \in Seq(SectionRecord), ss # <<>>, SectionsOk(d, ss)
    PROVE  /\ Head(ss) \in SectionRecord /\ Tail(ss) \in Seq(SectionRecord)
           /\ SectionOk(d, Head(ss)) /\ SectionsOk(d, Tail(ss))
           /\ InSections(ss) = InParas(Head(ss).paras) \cup InSections(Tail(ss))
           /\ Apart(d, InParas(Head(ss).paras), InSections(Tail(ss)))
           /\ Filled(ss) => Filled(Tail(ss)) /\ Head(ss).paras # <<>>
<1> DEFINE t == Tail(ss)
           n == Len(ss) - 1
<1>1. /\ Head(ss) \in SectionRecord /\ t \in Seq(SectionRecord) /\ Head(ss) = ss[1]
      /\ Len(t) = n /\ n \in Nat /\ Len(ss) = n + 1
      /\ (\A i \in 1..n : t[i] = ss[i + 1]) /\ In(ss) = {Head(ss)} \cup In(t)
  BY InHeadTail, InProperties
<1>2. /\ \A sec \in In(ss) : SectionOk(d, sec)
      /\ \A i, j \in 1..(n + 1) : i < j => Apart(d, InParas(ss[i].paras), InParas(ss[j].paras))
  BY <1>1 DEF SectionsOk
<1>3. InSections(ss) = InParas(Head(ss).paras) \cup InSections(t)
  BY <1>1 DEF InSections
<1>4. Filled(ss) => Filled(t) /\ Head(ss).paras # <<>>
  BY <1>1 DEF Filled
<1> HIDE DEF t, n
<1>5. 1 \in 1..(n + 1) /\ \A i \in 1..n : i + 1 \in 1..(n + 1) /\ 1 < i + 1
  BY <1>1
<1>6. SectionsOk(d, t)
  <2>1. ASSUME NEW i \in 1..n, NEW j \in 1..n, i < j
        PROVE  Apart(d, InParas(t[i].paras), InParas(t[j].paras))
    <3>1. i + 1 < j + 1
      BY <2>1
    <3>2. QED BY <1>1, <1>2, <1>5, <3>1
  <2>2. QED BY <1>1, <1>2, <2>1 DEF SectionsOk
<1>7. Apart(d, InParas(Head(ss).paras), InSections(t))
  <2>1. ASSUME NEW sec \in In(t) PROVE Apart(d, InParas(Head(ss).paras), InParas(sec.paras))
    <3>1. PICK i \in 1..n : sec = t[i]
      BY <1>1, <2>1 DEF In
    <3>2. QED BY <1>1, <1>2, <1>5, <3>1
  <2>2. QED BY <2>1 DEF InSections, Apart
<1>8. QED BY <1>1, <1>2, <1>3, <1>4, <1>6, <1>7 DEF t

(* A paragraph is taken from the first section.                            *)
LEMMA SectionsReplace ==
    ASSUME NEW d, NEW ss \in Seq(SectionRecord), ss # <<>>, SectionsOk(d, ss),
           NEW x \in SectionRecord, SectionOk(d, x),
           InParas(x.paras) \subseteq InParas(Head(ss).paras)
    PROVE  LET rs == [ss EXCEPT ![1] = x]
           IN  /\ rs \in Seq(SectionRecord) /\ rs # <<>>
               /\ Head(rs) = x /\ Tail(rs) = Tail(ss)
               /\ SectionsOk(d, rs)
<1> DEFINE rs == [ss EXCEPT ![1] = x]
           n == Len(ss)
<1>1. n \in Nat /\ n >= 1 /\ Head(ss) = ss[1]
  BY InHeadTail, InProperties
<1> DEFINE one == 1
<1>2. one \in 1..Len(ss)
  BY <1>1
<1>3. /\ rs \in Seq(SectionRecord) /\ Len(rs) = n
      /\ \A j \in 1..n : rs[j] = IF j = 1 THEN x ELSE ss[j]
  <2> HIDE DEF one
  <2>1. /\ [ss EXCEPT ![one] = x] \in Seq(SectionRecord) /\ Len([ss EXCEPT ![one] = x]) = n
        /\ \A j \in 1..n : [ss EXCEPT ![one] = x][j] = IF j = one THEN x ELSE ss[j]
    BY <1>2, ExceptSeq
  <2>2. QED BY <2>1 DEF one
<1> HIDE DEF rs, n, one
<1>4. rs # <<>>
  BY <1>1, <1>3, EmptySeq
<1>5. Head(rs) = x
  <2>1. Head(rs) = rs[1] /\ 1 \in 1..n
    BY <1>1, <1>3, <1>4, InHeadTail
  <2>2. QED BY <1>3, <2>1
<1>6. Tail(rs) = Tail(ss)
  <2>1. /\ Tail(rs) \in Seq(SectionRecord) /\ Tail(ss) \in Seq(SectionRecord)
        /\ Len(Tail(rs)) = n - 1 /\ Len(Tail(ss)) = n - 1
        /\ \A i \in 1..(n - 1) : Tail(rs)[i] = rs[i + 1] /\ Tail(ss)[i] = ss[i + 1]
    BY <1>3, <1>4, InHeadTail DEF n
  <2>2. \A i \in 1..(n - 1) : i + 1 \in 1..n /\ i + 1 # 1
    BY <1>1
  <2>3. \A i \in 1..(n - 1) : Tail(rs)[i] = Tail(ss)[i]
    BY <1>3, <2>1, <2>2
  <2>4. QED BY <2>1, <2>3, SeqEqual
<1>7. SectionsOk(d, rs)
  <2>1. /\ \A sec \in In(ss) : SectionOk(d, sec)
        /\ \A i, j \in 1..n : i < j => Apart(d, InParas(ss[i].paras), InParas(ss[j].paras))
    BY DEF SectionsOk, n
  <2>2. ASSUME NEW sec \in In(rs) PROVE SectionOk(d, sec)
    <3>1. PICK j \in 1..n : sec = rs[j]
      BY <1>3 DEF In
    <3>2. ss[j] \in In(ss)
      BY <3>1 DEF In, n
    <3>3. QED BY <1>3, <2>1, <3>1, <3>2
  <2>3. \A i \in 1..n : InParas(rs[i].paras) \subseteq InParas(ss[i].paras)
    BY <1>1, <1>3
  <2>4. ASSUME NEW i \in 1..n, NEW j \in 1..n, i < j
        PROVE  Apart(d, InParas(rs[i].paras), InParas(rs[j].paras))
    BY <2>1, <2>3, <2>4 DEF Apart
  <2>5. QED BY <1>3, <2>2, <2>4 DEF SectionsOk
<1>8. QED BY <1>3, <1>4, <1>5, <1>6, <1>7 DEF rs

(* A chunk that is packed further begins as it did.                        *)
LEMMA StartsConcat ==
    ASSUME NEW p \in Seq(Word), NEW c \in Seq(Word), NEW t \in Seq(Word), StartsLike(c, p)
    PROVE  StartsLike(c \o t, p)
<1> DEFINE n == IF Len(p) < Overlap THEN Len(p) ELSE Overlap
           u == c \o t
<1>1. /\ Len(c) \in Nat /\ Len(t) \in Nat /\ Len(p) \in Nat /\ Len(u) = Len(c) + Len(t)
      /\ \A i \in 1..Len(c) + Len(t) : u[i] = IF i <= Len(c) THEN c[i] ELSE t[i - Len(c)]
  BY ConcatProperties, LenProperties
<1>2. n \in Nat
  BY <1>1, ChunkingAssumption
<1>3. n <= Len(c) /\ \A j \in 1..n : c[j] = p[Len(p) - n + j]
  BY DEF StartsLike
<1> HIDE DEF n, u
<1>4. n <= Len(u)
  BY <1>1, <1>2, <1>3
<1>5. ASSUME NEW j \in 1..n PROVE u[j] = c[j]
  BY <1>1, <1>2, <1>3
<1>6. n <= Len(u) /\ \A j \in 1..n : u[j] = p[Len(p) - n + j]
  BY <1>3, <1>4, <1>5
<1>7. QED BY <1>6 DEF StartsLike, n, u

(* A chunk is closed.                                                      *)
LEMMA ChunksAppend ==
    ASSUME NEW d, NEW cs \in Seq(ChunkRecord), NEW x \in ChunkRecord,
           ChunksOk(d, cs), ChunkOk(d, x),
           cs # <<>> => Overlaps(d, cs[Len(cs)].words, x.words)
    PROVE  LET rs == Append(cs, x)
           IN  /\ rs \in Seq(ChunkRecord) /\ rs # <<>> /\ rs[Len(rs)] = x
               /\ ChunksOk(d, rs)
               /\ InChunks(rs) = InChunks(cs) \cup In(x.words)
<1> DEFINE rs == Append(cs, x)
           n == Len(cs)
<1>1. /\ n \in Nat /\ rs \in Seq(ChunkRecord) /\ rs # <<>> /\ Len(rs) = n + 1
      /\ (\A i \in 1..n : rs[i] = cs[i]) /\ rs[n + 1] = x
      /\ In(rs) = In(cs) \cup {x}
  BY LenProperties, AppendProperties, InAppend
<1>2. InChunks(rs) = InChunks(cs) \cup In(x.words)
  BY <1>1 DEF InChunks
<1>3. /\ \A c \in In(cs) : ChunkOk(d, c)
      /\ \A i \in 1..(n - 1) : Overlaps(d, cs[i].words, cs[i + 1].words)
  BY DEF ChunksOk
<1>4. n # 0 => Overlaps(d, cs[n].words, x.words)
  BY EmptySeq
<1> HIDE DEF rs, n
<1>5. ASSUME NEW i \in 1..n PROVE Overlaps(d, rs[i].words, rs[i + 1].words)
  <2>1. CASE i = n
    BY <1>1, <1>4, <2>1
  <2>2. CASE i # n
    <3>1. i \in 1..(n - 1) /\ i + 1 \in 1..n
      BY <1>1, <2>2
    <3>2. QED BY <1>1, <1>3, <3>1
  <2>3. QED BY <2>1, <2>2
<1>6. Len(rs) - 1 = n
  BY <1>1
<1>7. ChunksOk(d, rs)
  BY <1>1, <1>3, <1>5, <1>6 DEF ChunksOk
<1>8. QED BY <1>1, <1>2, <1>7 DEF rs

(* A chunk grows by a short rest.                                          *)
LEMMA Longer ==
    ASSUME NEW b \in Nat, NEW r \in Nat, NEW s \in Nat, NEW m \in Nat, NEW n \in Nat,
           m <= b + r * s, n <= s
    PROVE  m + n <= b + (r + 1) * s
<1>1. (r + 1) * s = r * s + s
  OBVIOUS
<1>2. r * s \in Nat
  OBVIOUS
<1>3. QED BY <1>1, <1>2

(* An updated chunk.                                                       *)
LEMMA Updated ==
    ASSUME NEW c \in ChunkRecord, NEW w, NEW r
    PROVE  [[c EXCEPT !.words = w] EXCEPT !.rests = r] = [section |-> c.section, words |-> w, rests |-> r]
<1>1. c = [section |-> c.section, words |-> c.words, rests |-> c.rests]
  BY DEF ChunkRecord
<1>2. [c EXCEPT !.words = w] = [section |-> c.section, words |-> w, rests |-> c.rests]
  BY DEF ChunkRecord
<1> DEFINE e == [c EXCEPT !.words = w]
<1>3. /\ e \in [{"section", "words", "rests"} -> {e.section, e.words, e.rests}]
      /\ e.section = c.section /\ e.words = w
  BY <1>2
<1> HIDE DEF e
<1>4. [e EXCEPT !.rests = r] = [section |-> e.section, words |-> e.words, rests |-> r]
  BY <1>3
<1>5. QED BY <1>3, <1>4 DEF e

(* A short rest joins the last chunk.                                      *)
LEMMA ChunksExtend ==
    ASSUME NEW d, NEW cs \in Seq(ChunkRecord), cs # <<>>, ChunksOk(d, cs),
           NEW ws \in Seq(Word), Sorted(ws), Len(ws) < Shortest,
           Apart(d, InChunks(cs), In(ws)), Named(d, In(ws), cs[Len(cs)].section)
    PROVE  LET rs == [cs EXCEPT ![Len(cs)].words = @ \o ws, ![Len(cs)].rests = @ + 1]
           IN  /\ rs \in Seq(ChunkRecord) /\ rs # <<>>
               /\ ChunksOk(d, rs)
               /\ InChunks(rs) = InChunks(cs) \cup In(ws)
<1> DEFINE n == Len(cs)
           c == cs[n]
           us == c.words \o ws
           y == [section |-> c.section, words |-> us, rests |-> c.rests + 1]
           rs == [cs EXCEPT ![n].words = @ \o ws, ![n].rests = @ + 1]
<1>1. n \in Nat \ {0} /\ n \in 1..n /\ cs \in [1..n -> ChunkRecord] /\ c \in In(cs) /\ c \in ChunkRecord
  BY LenProperties, InProperties
<1>2. /\ c.section \in Names /\ c.words \in Seq(Word) /\ c.rests \in Nat
      /\ DOMAIN c = {"section", "words", "rests"}
      /\ c = [section |-> c.section, words |-> c.words, rests |-> c.rests]
  BY <1>1 DEF ChunkRecord
<1>3. us \in Seq(Word) /\ Len(us) = Len(c.words) + Len(ws) /\ In(us) = In(c.words) \cup In(ws)
  BY <1>2, ConcatProperties, InConcat
<1>4. y \in ChunkRecord
  BY <1>2, <1>3 DEF ChunkRecord
<1>5. rs = [cs EXCEPT ![n] = y]
  <2>1. [[c EXCEPT !.words = c.words \o ws] EXCEPT !.rests = c.rests + 1] = y
    BY <1>1, Updated
  <2>2. rs = [cs EXCEPT ![n] = [[c EXCEPT !.words = c.words \o ws] EXCEPT !.rests = c.rests + 1]]
    BY <1>1
  <2>3. QED BY <2>1, <2>2
<1>6. /\ rs \in Seq(ChunkRecord) /\ Len(rs) = n
      /\ \A j \in 1..n : rs[j] = IF j = n THEN y ELSE cs[j]
  <2> HIDE DEF y, rs
  <2>1. n \in 1..Len(cs)
    BY <1>1
  <2>2. /\ [cs EXCEPT ![n] = y] \in Seq(ChunkRecord) /\ Len([cs EXCEPT ![n] = y]) = Len(cs)
        /\ \A j \in 1..Len(cs) : [cs EXCEPT ![n] = y][j] = IF j = n THEN y ELSE cs[j]
    BY <1>4, <2>1, ExceptSeq
  <2>3. QED BY <1>5, <2>2
<1>7. /\ y.section = c.section /\ y.words = us /\ y.rests = c.rests + 1
  OBVIOUS
<1> HIDE DEF rs, y, us
<1>8. /\ \A x \in In(cs) : ChunkOk(d, x)
      /\ \A i \in 1..(n - 1) : Overlaps(d, cs[i].words, cs[i + 1].words)
  BY DEF ChunksOk
<1>9. /\ c.words # <<>> /\ Sorted(c.words) /\ Named(d, In(c.words), c.section)
      /\ Len(c.words) <= Target + Overlap + c.rests * Shortest
      /\ Len(c.words) \in Nat /\ Len(c.words) >= 1 /\ Len(ws) \in Nat
  BY <1>1, <1>2, <1>8, LenProperties, InProperties DEF ChunkOk
<1>10. ChunkOk(d, y)
  <2>1. Sorted(us)
    <3>1. In(c.words) \in SUBSET Word /\ In(ws) \in SUBSET Word
      BY <1>2, InProperties
    <3>2. In(c.words) \subseteq InChunks(cs)
      BY <1>1 DEF InChunks
    <3>3. Apart(d, In(c.words), In(ws))
      BY <3>2 DEF Apart
    <3>4. Precede(In(c.words), In(ws))
      BY <3>1, <3>3, ApartPrecede
    <3>5. QED BY <1>2, <1>9, <3>4, SortedConcat DEF us
  <2>2. us # <<>>
    <3>1. Len(us) # 0
      BY <1>3, <1>9
    <3>2. QED BY <3>1, EmptySeq
  <2>3. Len(us) <= Target + Overlap + (c.rests + 1) * Shortest
    <3>1. Target + Overlap \in Nat /\ Shortest \in Nat
      BY ChunkingAssumption
    <3>2. Len(ws) <= Shortest
      BY <1>9, <3>1
    <3>3. Len(c.words) + Len(ws) <= (Target + Overlap) + (c.rests + 1) * Shortest
      BY <1>2, <1>9, <3>1, <3>2, Longer
    <3>4. QED BY <1>3, <3>3
  <2>4. Named(d, In(us), c.section)
    BY <1>3, <1>9 DEF Named
  <2>5. QED BY <1>7, <2>1, <2>2, <2>3, <2>4 DEF ChunkOk
<1>11. us[1] = c.words[1]
  <2>1. \A i \in 1..(Len(c.words) + Len(ws)) :
           us[i] = IF i <= Len(c.words) THEN c.words[i] ELSE ws[i - Len(c.words)]
    BY <1>2, ConcatProperties DEF us
  <2>2. 1 \in 1..(Len(c.words) + Len(ws)) /\ 1 <= Len(c.words)
    BY <1>9
  <2>3. QED BY <2>1, <2>2
<1>12. ASSUME NEW i \in 1..(n - 1) PROVE Overlaps(d, rs[i].words, rs[i + 1].words)
  <2> HIDE DEF n, c
  <2>1. i \in 1..n /\ i # n /\ i + 1 \in 1..n /\ rs[i] = cs[i]
    BY <1>1, <1>6
  <2>2. Overlaps(d, cs[i].words, cs[i + 1].words)
    BY <1>8
  <2>3. CASE i + 1 = n
    <3>1. rs[i + 1].words = us /\ cs[i + 1] = c
      BY <1>6, <1>7, <2>1, <2>3 DEF c
    <3>2. cs[i].words \in Seq(Word)
      BY <1>1, <2>1 DEF ChunkRecord
    <3>3. StartsLike(c.words, cs[i].words) => StartsLike(us, cs[i].words)
      BY <1>2, <3>2, StartsConcat DEF us
    <3>4. QED BY <1>11, <2>1, <2>2, <3>1, <3>3 DEF Overlaps
  <2>4. CASE i + 1 # n
    BY <1>6, <2>1, <2>2, <2>4
  <2>5. QED BY <2>3, <2>4
<1>13. (\A x \in In(rs) : x = y \/ x \in In(cs)) /\ (\A x \in In(cs) : x = c \/ x \in In(rs))
  <2>1. ASSUME NEW x \in In(rs) PROVE x = y \/ x \in In(cs)
    <3>1. PICK i \in 1..n : x = rs[i]
      BY <1>6, <2>1 DEF In
    <3>2. cs[i] \in In(cs)
      BY DEF In
    <3>3. QED BY <1>6, <3>1, <3>2
  <2>2. ASSUME NEW x \in In(cs) PROVE x = c \/ x \in In(rs)
    <3>1. PICK i \in 1..n : x = cs[i]
      BY <2>2 DEF In
    <3>2. rs[i] \in In(rs)
      BY <1>6 DEF In
    <3>3. QED BY <1>6, <3>1, <3>2
  <2>3. QED BY <2>1, <2>2
<1>14. InChunks(rs) = InChunks(cs) \cup In(ws)
  <2>1. In(y.words) = In(c.words) \cup In(ws) /\ y \in In(rs)
    <3>1. rs[n] = y /\ n \in 1..Len(rs)
      BY <1>1, <1>6
    <3>2. QED BY <1>3, <1>7, <3>1 DEF In
  <2>2. QED BY <1>1, <1>13, <2>1 DEF InChunks
<1>15. ChunksOk(d, rs)
  <2>1. \A x \in In(rs) : ChunkOk(d, x)
    BY <1>8, <1>10, <1>13
  <2>2. QED BY <1>6, <1>12, <2>1 DEF ChunksOk
<1>16. rs # <<>>
  BY <1>1, <1>6, EmptySeq
<1>17. QED BY <1>6, <1>14, <1>15, <1>16 DEF rs
-----------------------------------------------------------------------------
(* Lines to sections                                                       *)

(* What is covered stays covered by more words.                            *)
LEMMA CoveredMore ==
    ASSUME NEW d, NEW n, NEW V, NEW W, Covered(d, n, V), V \subseteq W
    PROVE  Covered(d, n, W)
BY DEF Covered

(* One more line: it has no words, or they are in W.                       *)
LEMMA CoveredNext ==
    ASSUME NEW d, NEW n \in Nat \ {0}, NEW W, Covered(d, n - 1, W),
           d[n].kind = "text" => \A k \in 1..d[n].words : <<n, k>> \in W
    PROVE  Covered(d, n, W)
<1>1. SUFFICES ASSUME NEW i \in 1..n, d[i].kind = "text" PROVE \A k \in 1..d[i].words : <<i, k>> \in W
  BY DEF Covered
<1>2. CASE i = n
  BY <1>1, <1>2
<1>3. CASE i # n
  <2>1. i \in 1..(n - 1)
    BY <1>3
  <2>2. QED BY <1>1, <2>1 DEF Covered
<1>4. QED BY <1>2, <1>3

(* The length of a sequence given as a function.                           *)
LEMMA LengthOf ==
    ASSUME NEW S, NEW s \in Seq(S), NEW n \in Nat, s \in [1..n -> S]
    PROVE  Len(s) = n
<1> DEFINE m == Len(s)
<1>1. DOMAIN s = 1..m /\ DOMAIN s = 1..n /\ m \in Nat
  BY LenProperties
<1> HIDE DEF m
<1>2. (m # 0 => m \in 1..m) /\ (n # 0 => n \in 1..n)
  BY <1>1
<1>3. (m # 0 => m \in 1..n) /\ (n # 0 => n \in 1..m)
  BY <1>1, <1>2
<1>4. m = n
  BY <1>1, <1>3
<1>5. QED BY <1>4 DEF m

(* The words of a section are words.                                       *)
LEMMA InRecordWords ==
    \A sec \in SectionRecord : InParas(sec.paras) \subseteq Word
<1>1. \A ps \in Seq(Seq(Word)) : InParas(ps) \subseteq Word
  BY InProperties DEF InParas
<1>2. QED BY <1>1 DEF SectionRecord

(* The words of sections are words.                                        *)
LEMMA InSectionsWords ==
    ASSUME NEW ss \in Seq(SectionRecord)
    PROVE  InSections(ss) \subseteq Word
<1>1. In(ss) \subseteq SectionRecord
  BY InProperties
<1>2. QED BY <1>1, InRecordWords DEF InSections

(* The words of a line, in order.                                          *)
LEMMA WordsOfLine ==
    ASSUME ChunkTypeOK, at <= Len(doc), doc[at].kind = "text"
    PROVE  /\ WordsOf(at) \in Seq(Word) /\ Sorted(WordsOf(at))
           /\ In(WordsOf(at)) = {<<at, k>> : k \in 1..doc[at].words}
<1> DEFINE ws == WordsOf(at)
           n == doc[at].words
<1>1. Len(doc) \in Nat /\ at \in Nat /\ at \in 1..Len(doc) /\ at \in 1..MaxLines
  BY LenProperties, ChunkingAssumption DEF ChunkTypeOK
<1>2. doc[at] \in Lines
  BY <1>1, ElementOfSeq DEF ChunkTypeOK
<1>3. n \in Nat
  BY <1>2, ChunkingAssumption
<1>4. ws = [k \in 1..n |-> <<at, k>>]
  BY DEF WordsOf
<1> HIDE DEF ws, n
<1>5. \A k \in 1..n : <<at, k>> \in Word
  BY <1>1, <1>3 DEF Word
<1>6. ws \in [1..n -> Word] /\ \A k \in 1..n : ws[k] = <<at, k>>
  BY <1>4, <1>5
<1>7. ws \in Seq(Word)
  BY <1>3, <1>6, SeqDef
<1>8. Len(ws) = n
  BY <1>3, <1>6, <1>7, LengthOf
<1>9. Sorted(ws)
  BY <1>1, <1>6, <1>8 DEF Sorted, Earlier
<1>10. In(ws) = {<<at, k>> : k \in 1..n}
  BY <1>6, <1>8 DEF In
<1>11. QED BY <1>7, <1>9, <1>10 DEF ws, n

(* flush_para                                                              *)
LEMMA Flushed ==
    ASSUME ChunkTypeOK, ReadInv
    PROVE  /\ WithBuf \in SectionRecord /\ SectionOk(doc, WithBuf)
           /\ WithBuf.name = current.name
           /\ InParas(WithBuf.paras) = InParas(current.paras) \cup In(buf)
<1>1. current \in SectionRecord /\ buf \in Seq(Word) /\ SectionOk(doc, current)
  BY DEF ChunkTypeOK, ReadInv
<1>2. CASE buf = <<>>
  BY <1>1, <1>2, InEmpty DEF WithBuf
<1>3. CASE buf # <<>>
  <2> DEFINE ps == Append(current.paras, buf)
  <2>1. current.paras \in Seq(Seq(Word)) /\ current.name \in Names
    BY <1>1 DEF SectionRecord
  <2>2. ParasOk(current.paras) /\ Sorted(buf) /\ Precede(InParas(current.paras), In(buf))
    BY DEF ReadInv, SectionOk
  <2>3. /\ ps \in Seq(Seq(Word)) /\ ParasOk(ps)
        /\ InParas(ps) = InParas(current.paras) \cup In(buf)
    BY <1>1, <1>3, <2>1, <2>2, ParasAppend
  <2>4. WithBuf = [current EXCEPT !.paras = ps]
    BY <1>3 DEF WithBuf
  <2> HIDE DEF ps
  <2>5. WithBuf \in SectionRecord /\ WithBuf.name = current.name /\ WithBuf.paras = ps
    BY <1>1, <2>3, <2>4 DEF SectionRecord
  <2>6. \A w \in InParas(ps) : Heading(doc, w[1]) = Heading(doc, at - 1)
    BY <2>3 DEF ReadInv, Under
  <2>7. current.name = NameAt(doc, at - 1)
    BY DEF ReadInv
  <2>8. Named(doc, InParas(ps), current.name) /\ Together(doc, InParas(ps))
    BY <2>6, <2>7, SameName DEF Named, Together, Under
  <2>9. QED BY <2>3, <2>5, <2>8 DEF SectionOk
<1>4. QED BY <1>2, <1>3

(* The current section closed.                                             *)
LEMMA ClosedSections ==
    ASSUME ChunkTypeOK, ReadInv, SectionsOk(doc, sections)
    PROVE  /\ Closed \in Seq(SectionRecord) /\ SectionsOk(doc, Closed) /\ Filled(Closed)
           /\ InSections(Closed) = InSections(sections) \cup InParas(current.paras) \cup In(buf)
           /\ \A w \in InSections(Closed) : Under(doc, w) <= Heading(doc, at - 1)
<1> DEFINE V == InParas(current.paras) \cup In(buf)
           h == Heading(doc, at - 1)
<1>1. /\ WithBuf \in SectionRecord /\ SectionOk(doc, WithBuf) /\ InParas(WithBuf.paras) = V
  BY Flushed
<1>2. /\ sections \in Seq(SectionRecord) /\ Filled(sections)
      /\ \A w \in InSections(sections) : Under(doc, w) < h
      /\ \A w \in V : Under(doc, w) = h
  BY DEF ChunkTypeOK, ReadInv
<1>3. h \in Int
  <2>1. at - 1 \in Nat
    BY LenProperties DEF ChunkTypeOK
  <2>2. QED BY <2>1, HeadingFound DEF HeadingOk
<1>4. V \subseteq Word /\ InSections(sections) \subseteq Word
  BY <1>1, <1>2, InRecordWords, InSectionsWords
<1>5. Apart(doc, InSections(sections), V)
  BY <1>2 DEF Apart
<1> HIDE DEF V, h
<1>6. CASE WithBuf.paras = <<>>
  <2>1. V = {} /\ Closed = sections
    BY <1>1, <1>6, InEmpty DEF Closed
  <2>2. \A w \in InSections(Closed) : Under(doc, w) <= h
    <3>1. \A w \in InSections(sections) : Under(doc, w) \in Nat /\ Under(doc, w) < h
      BY <1>2, <1>4, UnderType
    <3>2. QED BY <1>3, <2>1, <3>1
  <2>3. QED BY <1>2, <2>1, <2>2 DEF V, h
<1>7. CASE WithBuf.paras # <<>>
  <2>1. Closed = Append(sections, WithBuf)
    BY <1>7 DEF Closed
  <2>2. /\ Closed \in Seq(SectionRecord) /\ SectionsOk(doc, Closed) /\ Filled(Closed)
        /\ InSections(Closed) = InSections(sections) \cup V
    BY <1>1, <1>2, <1>5, <1>7, <2>1, SectionsAppend
  <2>3. \A w \in InSections(Closed) : Under(doc, w) <= h
    <3>1. \A w \in InSections(sections) : Under(doc, w) \in Nat /\ Under(doc, w) < h
      BY <1>2, <1>4, UnderType
    <3>2. \A w \in InSections(Closed) : Under(doc, w) < h \/ Under(doc, w) = h
      BY <1>2, <2>2
    <3>3. \A w \in InSections(Closed) : Under(doc, w) \in Nat
      BY <1>4, <2>2, UnderType DEF V
    <3>4. QED BY <1>3, <3>2, <3>3
  <2>4. QED BY <2>2, <2>3 DEF V, h
<1>8. QED BY <1>6, <1>7

(* No line is read, and there is nothing to be read yet.                   *)
LEMMA InitInv == ChunkingInit => ChunkInv
<1> SUFFICES ASSUME ChunkingInit PROVE ChunkInv
  OBVIOUS
<1> DEFINE none == <<>>
<1>1. \A S : none \in Seq(S)
  BY EmptySeq
<1>2. Len(none) = 0 /\ In(none) = {} /\ InParas(none) = {} /\ InSections(none) = {}
  BY EmptySeq, InEmpty
<1>3. doc \in Seq(Lines) /\ Len(doc) <= MaxLines /\ Len(doc) \in Nat
  <2>1. PICK n \in 0..MaxLines : doc \in [1..n -> Lines]
    BY DEF ChunkingInit
  <2>2. n \in Nat /\ doc \in Seq(Lines)
    BY <2>1, SeqDef, ChunkingAssumption
  <2>3. Len(doc) = n
    BY <2>1, <2>2, LengthOf
  <2>4. QED BY <2>1, <2>2, <2>3
<1> HIDE DEF none
<1>4. /\ at = 1 /\ buf = none /\ sections = none /\ left = none /\ cur = none /\ chunks = none
      /\ current = [name |-> Title, paras |-> none] /\ phase = "reading"
  BY DEF ChunkingInit, none
<1>5. current \in SectionRecord /\ current.paras = none /\ current.name = Title
  BY <1>1, <1>4 DEF SectionRecord, Names
<1>6. ChunkTypeOK
  BY <1>1, <1>3, <1>4, <1>5 DEF ChunkTypeOK
<1>7. Heading(doc, at - 1) = 0
  <2>1. Heading(doc, 0) = 0
    BY DEF Heading
  <2>2. at - 1 = 0
    BY <1>4
  <2>3. QED BY <2>1, <2>2
<1>8. SectionOk(doc, current) /\ SectionsOk(doc, sections)
  BY <1>2, <1>4, <1>5 DEF SectionOk, SectionsOk, ParasOk, Named, Together
<1>9. ReadInv
  <2>1. Sorted(buf)
    BY <1>2, <1>4 DEF Sorted
  <2>2. Covered(doc, at - 1, In(buf) \cup InParas(current.paras) \cup InSections(sections))
    BY <1>4 DEF Covered
  <2>3. current.name = NameAt(doc, at - 1)
    BY <1>5, <1>7 DEF NameAt
  <2>4. QED BY <1>2, <1>4, <1>5, <1>8, <2>1, <2>2, <2>3 DEF ReadInv, Filled, Precede, none
<1>10. WordsRead
  BY <1>2, <1>4, <1>5 DEF WordsRead
<1>11. QED BY <1>4, <1>6, <1>8, <1>9, <1>10 DEF ChunkInv

(* What is known while a line is read.                                     *)
LEMMA ReadingFacts ==
    ASSUME ChunkInv, ReadLine
    PROVE  /\ ChunkTypeOK /\ ReadInv /\ SectionsOk(doc, sections) /\ WordsRead
           /\ at \in Nat \ {0} /\ at <= Len(doc) /\ Len(doc) \in Nat /\ doc[at] \in Lines
           /\ at' = at + 1 /\ at' - 1 = at
           /\ phase = "reading" /\ UNCHANGED <<doc, left, cur, chunks, phase>>
           /\ Heading(doc, at) \in Nat
           /\ Heading(doc, at) = IF doc[at].kind = "heading" THEN at ELSE Heading(doc, at - 1)
           /\ Heading(doc, at - 1) \in 0..(at - 1)
<1>1. phase = "reading" /\ UNCHANGED <<doc, left, cur, chunks, phase>> /\ at' = at + 1 /\ at <= Len(doc)
  BY DEF ReadLine, reading
<1>2. ChunkTypeOK /\ ReadInv /\ SectionsOk(doc, sections) /\ WordsRead
  BY <1>1 DEF ChunkInv
<1>3. Len(doc) \in Nat /\ at \in 1..(Len(doc) + 1) /\ doc \in Seq(Lines)
  BY <1>2, LenProperties DEF ChunkTypeOK
<1>4. at \in Nat \ {0} /\ at - 1 \in Nat /\ at \in 1..Len(doc)
  BY <1>1, <1>3
<1>5. doc[at] \in Lines
  BY <1>3, <1>4, ElementOfSeq
<1>6. Heading(doc, at) = IF doc[at].kind = "heading" THEN at ELSE Heading(doc, at - 1)
  BY <1>4, NextHeading
<1>7. Heading(doc, at) \in 0..at /\ Heading(doc, at - 1) \in 0..(at - 1)
  BY <1>4, HeadingFound DEF HeadingOk
<1>8. at' - 1 = at
  BY <1>1, <1>4
<1>9. QED BY <1>1, <1>2, <1>3, <1>4, <1>5, <1>6, <1>7, <1>8

(* A heading closes the current section.                                   *)
LEMMA ReadHeading ==
    ASSUME ChunkInv, ReadLine, doc[at].kind = "heading"
    PROVE  ChunkInv'
<1> DEFINE none == <<>>
<1>1. /\ ChunkTypeOK /\ ReadInv /\ SectionsOk(doc, sections)
      /\ at \in Nat \ {0} /\ at <= Len(doc) /\ Len(doc) \in Nat /\ doc[at] \in Lines
      /\ at' = at + 1 /\ at' - 1 = at
      /\ phase = "reading" /\ UNCHANGED <<doc, left, cur, chunks, phase>>
      /\ Heading(doc, at) = at /\ Heading(doc, at - 1) \in 0..(at - 1)
  BY ReadingFacts
<1>2. sections' = Closed /\ current' = [name |-> doc[at].name, paras |-> none] /\ buf' = none
  BY DEF ReadLine
<1>3. /\ Closed \in Seq(SectionRecord) /\ SectionsOk(doc, Closed) /\ Filled(Closed)
      /\ InSections(Closed) = InSections(sections) \cup InParas(current.paras) \cup In(buf)
      /\ \A w \in InSections(Closed) : Under(doc, w) <= Heading(doc, at - 1)
  BY <1>1, ClosedSections
<1>4. Len(none) = 0 /\ In(none) = {} /\ InParas(none) = {} /\ \A S : none \in Seq(S)
  BY EmptySeq, InEmpty
<1> HIDE DEF none
<1>5. current' \in SectionRecord /\ current'.paras = none /\ current'.name = doc[at].name
  BY <1>1, <1>2, <1>4 DEF SectionRecord, Names
<1>6. ChunkTypeOK'
  BY <1>1, <1>2, <1>3, <1>4, <1>5 DEF ChunkTypeOK
<1>7. WordsRead'
  BY <1>2, <1>4, <1>5 DEF WordsRead
<1>8. SectionOk(doc, current')
  BY <1>4, <1>5 DEF SectionOk, ParasOk, Named, Together
<1>9. current'.name = NameAt(doc, at)
  BY <1>1, <1>5 DEF NameAt
<1>10. \A w \in InSections(Closed) : Under(doc, w) < at
  <2>1. \A w \in InSections(Closed) : Under(doc, w) \in Nat
    <3>1. InSections(Closed) \subseteq Word
      BY <1>3, InSectionsWords
    <3>2. QED BY <3>1, UnderType
  <2>2. QED BY <1>1, <1>3, <2>1
<1>11. Covered(doc, at, In(none) \cup InParas(none) \cup InSections(Closed))
  <2> DEFINE W == In(buf) \cup InParas(current.paras) \cup InSections(sections)
  <2>1. Covered(doc, at - 1, W)
    BY <1>1 DEF ReadInv
  <2>2. Covered(doc, at, W)
    BY <1>1, <2>1, CoveredNext
  <2>3. QED BY <1>3, <2>2, CoveredMore
<1>12. ReadInv'
  <2>1. Sorted(none) /\ Precede(InParas(none), In(none))
    BY <1>4 DEF Sorted, Precede
  <2>2. left' = <<>> /\ cur' = <<>> /\ chunks' = <<>>
    BY <1>1 DEF ReadInv
  <2>3. QED BY <1>1, <1>2, <1>3, <1>4, <1>5, <1>8, <1>9, <1>10, <1>11, <2>1, <2>2 DEF ReadInv
<1>13. QED BY <1>1, <1>2, <1>3, <1>6, <1>7, <1>12 DEF ChunkInv

(* A blank line ends the paragraph.                                        *)
LEMMA ReadBlank ==
    ASSUME ChunkInv, ReadLine, doc[at].kind = "blank"
    PROVE  ChunkInv'
<1> DEFINE none == <<>>
<1>1. /\ ChunkTypeOK /\ ReadInv /\ SectionsOk(doc, sections) /\ WordsRead
      /\ at \in Nat \ {0} /\ at <= Len(doc) /\ Len(doc) \in Nat
      /\ at' = at + 1 /\ at' - 1 = at
      /\ phase = "reading" /\ UNCHANGED <<doc, left, cur, chunks, phase>>
      /\ Heading(doc, at) = Heading(doc, at - 1)
  BY ReadingFacts
<1>2. UNCHANGED sections /\ current' = WithBuf /\ buf' = none
  BY DEF ReadLine
<1>3. /\ WithBuf \in SectionRecord /\ SectionOk(doc, WithBuf) /\ WithBuf.name = current.name
      /\ InParas(WithBuf.paras) = InParas(current.paras) \cup In(buf)
  BY <1>1, Flushed
<1>4. Len(none) = 0 /\ In(none) = {} /\ \A S : none \in Seq(S)
  BY EmptySeq, InEmpty
<1> HIDE DEF none
<1>5. ChunkTypeOK'
  BY <1>1, <1>2, <1>3, <1>4 DEF ChunkTypeOK
<1>6. WordsRead'
  <2>1. \A w \in In(buf) \cup InParas(current.paras) : w \in Word /\ w[1] < at
    BY <1>1, InRecordWords, InProperties DEF WordsRead, ChunkTypeOK
  <2>2. \A w \in In(buf) \cup InParas(current.paras) : w[1] \in Nat
    BY <2>1, UnderType
  <2>3. \A w \in In(buf) \cup InParas(current.paras) : w[1] < at + 1
    BY <1>1, <2>1, <2>2
  <2>4. QED BY <1>1, <1>2, <1>3, <1>4, <2>3 DEF WordsRead
<1>7. ReadInv'
  <2>1. Sorted(none) /\ Precede(InParas(WithBuf.paras), In(none))
    BY <1>4 DEF Sorted, Precede
  <2>2. left' = <<>> /\ cur' = <<>> /\ chunks' = <<>>
    BY <1>1 DEF ReadInv
  <2>3. current.name = NameAt(doc, at)
    BY <1>1, SameName DEF ReadInv
  <2>4. /\ \A w \in InSections(sections) : Under(doc, w) < Heading(doc, at)
        /\ \A w \in In(none) \cup InParas(WithBuf.paras) : Under(doc, w) = Heading(doc, at)
        /\ Filled(sections)
    BY <1>1, <1>3, <1>4 DEF ReadInv
  <2>5. Covered(doc, at, In(none) \cup InParas(WithBuf.paras) \cup InSections(sections))
    <3> DEFINE W == In(buf) \cup InParas(current.paras) \cup InSections(sections)
    <3>1. Covered(doc, at - 1, W)
      BY <1>1 DEF ReadInv
    <3>2. Covered(doc, at, W)
      BY <1>1, <3>1, CoveredNext
    <3>3. QED BY <1>3, <3>2, CoveredMore
  <2>6. QED BY <1>1, <1>2, <1>3, <2>1, <2>2, <2>3, <2>4, <2>5 DEF ReadInv
<1>8. QED BY <1>1, <1>2, <1>5, <1>6, <1>7 DEF ChunkInv

(* A line adds its words to the paragraph.                                 *)
LEMMA ReadText ==
    ASSUME ChunkInv, ReadLine, doc[at].kind = "text"
    PROVE  ChunkInv'
<1> DEFINE ws == WordsOf(at)
<1>1. /\ ChunkTypeOK /\ ReadInv /\ SectionsOk(doc, sections) /\ WordsRead
      /\ at \in Nat \ {0} /\ at <= Len(doc) /\ Len(doc) \in Nat
      /\ at' = at + 1 /\ at' - 1 = at
      /\ phase = "reading" /\ UNCHANGED <<doc, left, cur, chunks, phase>>
      /\ Heading(doc, at) = Heading(doc, at - 1)
  BY ReadingFacts
<1>2. UNCHANGED <<current, sections>> /\ buf' = buf \o ws
  BY DEF ReadLine
<1>3. /\ ws \in Seq(Word) /\ Sorted(ws) /\ In(ws) = {<<at, k>> : k \in 1..doc[at].words}
  BY <1>1, WordsOfLine
<1> HIDE DEF ws
<1>4. \A w \in In(ws) : w[1] = at
  BY <1>3
<1>5. buf \in Seq(Word) /\ current \in SectionRecord
  BY <1>1 DEF ChunkTypeOK
<1>6. buf' \in Seq(Word) /\ In(buf') = In(buf) \cup In(ws)
  BY <1>2, <1>3, <1>5, ConcatProperties, InConcat
<1>7. \A w \in In(buf) \cup InParas(current.paras) : w[1] \in Nat /\ w[1] < at
  <2>1. \A w \in In(buf) \cup InParas(current.paras) : w \in Word /\ w[1] < at
    BY <1>1, <1>5, InRecordWords, InProperties DEF WordsRead
  <2>2. QED BY <2>1, UnderType
<1>8. ChunkTypeOK'
  BY <1>1, <1>2, <1>6 DEF ChunkTypeOK
<1>9. WordsRead'
  <2>1. \A w \in In(buf) \cup InParas(current.paras) : w[1] < at + 1
    BY <1>1, <1>7
  <2>2. \A w \in In(ws) : w[1] < at + 1
    BY <1>1, <1>4
  <2>3. QED BY <1>1, <1>2, <1>6, <2>1, <2>2 DEF WordsRead
<1>10. Precede(In(buf) \cup InParas(current.paras), In(ws))
  BY <1>4, <1>7 DEF Precede, Earlier
<1>11. ReadInv'
  <2>1. Sorted(buf')
    BY <1>1, <1>2, <1>3, <1>5, <1>10, SortedConcat DEF ReadInv, Precede
  <2>2. Precede(InParas(current.paras), In(buf'))
    BY <1>1, <1>6, <1>10 DEF ReadInv, Precede
  <2>3. left' = <<>> /\ cur' = <<>> /\ chunks' = <<>>
    BY <1>1 DEF ReadInv
  <2>4. current.name = NameAt(doc, at)
    BY <1>1, SameName DEF ReadInv
  <2>5. /\ \A w \in InSections(sections) : Under(doc, w) < Heading(doc, at)
        /\ \A w \in In(buf) \cup InParas(current.paras) : Under(doc, w) = Heading(doc, at)
        /\ Filled(sections) /\ SectionOk(doc, current)
    BY <1>1 DEF ReadInv
  <2>6. \A w \in In(ws) : Under(doc, w) = Heading(doc, at)
    BY <1>4 DEF Under
  <2>7. \A w \in In(buf') \cup InParas(current.paras) : Under(doc, w) = Heading(doc, at)
    BY <1>6, <2>5, <2>6
  <2>8. Covered(doc, at, In(buf') \cup InParas(current.paras) \cup InSections(sections))
    <3> DEFINE W == In(buf') \cup InParas(current.paras) \cup InSections(sections)
    <3>1. Covered(doc, at - 1, W)
      <4>1. Covered(doc, at - 1, In(buf) \cup InParas(current.paras) \cup InSections(sections))
        BY <1>1 DEF ReadInv
      <4>2. QED BY <1>6, <4>1, CoveredMore
    <3>2. \A k \in 1..doc[at].words : <<at, k>> \in W
      BY <1>3, <1>6
    <3>3. QED BY <1>1, <3>1, <3>2, CoveredNext
  <2>9. QED BY <1>1, <1>2, <2>1, <2>2, <2>3, <2>4, <2>5, <2>7, <2>8 DEF ReadInv
<1>12. QED BY <1>1, <1>2, <1>8, <1>9, <1>11 DEF ChunkInv
-----------------------------------------------------------------------------
(* Sections to chunks                                                      *)

(* No words are apart from any.                                            *)
LEMMA ApartEmpty ==
    ASSUME NEW d, NEW V PROVE Apart(d, {}, V) /\ Apart(d, V, {})
BY DEF Apart

(* The last section is closed and the first one is packed next.            *)
LEMMA EndReadingInv ==
    ASSUME ChunkInv, EndReading
    PROVE  ChunkInv'
<1>1. phase = "reading" /\ ~ (at <= Len(doc)) /\ sections' = Closed /\ phase' = "packing"
      /\ UNCHANGED <<at, buf, current, doc, left, cur, chunks>>
  <2>1. /\ phase = "reading" /\ at > Len(doc) /\ sections' = Closed /\ phase' = "packing"
        /\ UNCHANGED <<at, buf, current, doc, left, cur, chunks>>
    BY DEF EndReading, reading
  <2>2. at \in Int /\ Len(doc) \in Int
    BY LenProperties DEF ChunkInv, ChunkTypeOK
  <2>3. QED BY <2>1, <2>2
<1>2. ChunkTypeOK /\ ReadInv /\ SectionsOk(doc, sections) /\ WordsRead
  BY <1>1 DEF ChunkInv
<1>3. /\ Closed \in Seq(SectionRecord) /\ SectionsOk(doc, Closed) /\ Filled(Closed)
      /\ InSections(Closed) = InSections(sections) \cup InParas(current.paras) \cup In(buf)
  BY <1>2, ClosedSections
<1>4. at = Len(doc) + 1 /\ at - 1 = Len(doc) /\ Len(doc) \in Nat
  BY <1>1, <1>2, LenProperties DEF ChunkTypeOK
<1>5. ChunkTypeOK'
  BY <1>1, <1>2, <1>3 DEF ChunkTypeOK
<1>6. WordsRead'
  BY <1>1, <1>2 DEF WordsRead
<1> DEFINE none == <<>>
<1>7. left = none /\ cur = none /\ chunks = none
  BY <1>2 DEF ReadInv
<1>8. Len(none) = 0 /\ In(none) = {} /\ InChunks(none) = {}
  BY EmptySeq, InEmpty
<1> HIDE DEF none
<1>9. CASE Closed = <<>>
  <2>1. TRUE
    OBVIOUS
  <2>2. Covered(doc, Len(doc), InChunks(chunks) \cup In(cur) \cup In(left) \cup InSections(Closed))
    <3>1. Covered(doc, at - 1, In(buf) \cup InParas(current.paras) \cup InSections(sections))
      BY <1>2 DEF ReadInv
    <3>2. QED BY <1>3, <1>4, <3>1, CoveredMore
  <2>3. ChunksOk(doc, none)
    BY <1>8 DEF ChunksOk
  <2>4. Len(cur) <= Target + Overlap
    BY <1>7, <1>8, ChunkingAssumption
  <2>5. PackInv'
    BY <1>1, <1>4, <1>7, <1>9, <2>2, <2>3, <2>4 DEF PackInv, none
  <2>6. QED BY <1>1, <1>3, <1>5, <1>6, <2>5 DEF ChunkInv
<1>10. CASE Closed # <<>>
  <2> DEFINE x == Head(Closed)
             t == Tail(Closed)
  <2>1. /\ SectionOk(doc, x) /\ Filled(t) /\ x.paras # <<>>
    BY <1>3, <1>10, SectionsTail
  <2> HIDE DEF x, t
  <2>2. Covered(doc, Len(doc), InChunks(chunks) \cup In(cur) \cup In(left) \cup InSections(Closed))
    <3>1. Covered(doc, at - 1, In(buf) \cup InParas(current.paras) \cup InSections(sections))
      BY <1>2 DEF ReadInv
    <3>2. QED BY <1>3, <1>4, <3>1, CoveredMore
  <2>3. ChunksOk(doc, none)
    BY <1>8 DEF ChunksOk
  <2>4. Len(cur) <= Target + Overlap
    BY <1>7, <1>8, ChunkingAssumption
  <2>5. Rest(x, none, none) = InParas(x.paras)
    BY <1>8 DEF Rest
  <2>6. PackingOk(doc, x, none, none, none)
    <3>1. Sorted(none) /\ Precede(In(none), In(none)) /\ Precede(In(none) \cup In(none), InParas(x.paras))
      BY <1>8 DEF Sorted, Precede
    <3>2. Begins(doc, none, none, InParas(x.paras))
      BY <1>8, ApartEmpty DEF Begins
    <3>3. QED BY <2>1, <2>5, <3>1, <3>2 DEF PackingOk, SectionOk
  <2>7. Apart(doc, InChunks(none) \cup In(none) \cup In(none), InSections(t))
    BY <1>8 DEF Apart
  <2>8. PackInv'
    BY <1>1, <1>4, <1>7, <1>10, <2>1, <2>2, <2>3, <2>4, <2>6, <2>7 DEF PackInv, x, t
  <2>9. QED BY <1>1, <1>3, <1>5, <1>6, <2>8 DEF ChunkInv
<1>11. QED BY <1>9, <1>10

(* What is known while a section is packed.                                *)
LEMMA PackingFacts ==
    ASSUME ChunkInv, phase = "packing", sections # <<>>
    PROVE  /\ ChunkTypeOK /\ WordsRead /\ PackInv
           /\ left \in Seq(Word) /\ cur \in Seq(Word) /\ chunks \in Seq(ChunkRecord)
           /\ sections \in Seq(SectionRecord)
           /\ Section \in SectionRecord /\ Section = Head(sections) /\ Section = sections[1]
           /\ Section.name \in Names /\ Section.paras \in Seq(Seq(Word))
           /\ SectionsOk(doc, sections) /\ SectionOk(doc, Section)
           /\ SectionsOk(doc, Tail(sections)) /\ Tail(sections) \in Seq(SectionRecord)
           /\ InSections(sections) = InParas(Section.paras) \cup InSections(Tail(sections))
           /\ Apart(doc, InParas(Section.paras), InSections(Tail(sections)))
           /\ PackingOk(doc, Section, chunks, cur, left)
           /\ Filled(Tail(sections))
           /\ Apart(doc, InChunks(chunks) \cup In(cur) \cup In(left), InSections(Tail(sections)))
           /\ ChunksOk(doc, chunks)
           /\ Len(cur) <= Target + Overlap
           /\ Covered(doc, Len(doc), InChunks(chunks) \cup In(cur) \cup In(left) \cup InSections(sections))
<1>1. ChunkTypeOK /\ WordsRead /\ PackInv /\ SectionsOk(doc, sections)
  BY DEF ChunkInv
<1>2. Section = Head(sections) /\ Section = sections[1]
  BY <1>1, InHeadTail DEF Section, ChunkTypeOK
<1>3. sections \in Seq(SectionRecord)
  BY <1>1 DEF ChunkTypeOK
<1>4. /\ Head(sections) \in SectionRecord /\ SectionOk(doc, Head(sections))
      /\ SectionsOk(doc, Tail(sections)) /\ Tail(sections) \in Seq(SectionRecord)
      /\ InSections(sections) = InParas(Head(sections).paras) \cup InSections(Tail(sections))
      /\ Apart(doc, InParas(Head(sections).paras), InSections(Tail(sections)))
  BY <1>1, <1>3, SectionsTail
<1>5. Section.name \in Names /\ Section.paras \in Seq(Seq(Word))
  BY <1>2, <1>4 DEF SectionRecord
<1>6. QED BY <1>1, <1>2, <1>3, <1>4, <1>5 DEF PackInv, ChunkTypeOK

(* A section with other paragraphs.                                        *)
LEMMA WithParas ==
    ASSUME NEW sec \in SectionRecord, NEW ps
    PROVE  [sec EXCEPT !.paras = ps] = [name |-> sec.name, paras |-> ps]
BY DEF SectionRecord

(* The next paragraph of a section is cut.                                 *)
LEMMA NextParagraphInv ==
    ASSUME ChunkInv, NextParagraph
    PROVE  ChunkInv'
<1> DEFINE none == <<>>
           p == Head(Section.paras)
           t == Tail(Section.paras)
           x == [name |-> Section.name, paras |-> t]
<1>1. /\ phase = "packing" /\ sections # <<>> /\ left = none /\ Section.paras # <<>>
      /\ left' = p /\ sections' = [sections EXCEPT ![1].paras = Tail(@)]
      /\ UNCHANGED <<cur, chunks, phase, doc, at, buf, current>>
  BY DEF NextParagraph, packing
<1>2. /\ ChunkTypeOK /\ WordsRead /\ PackInv /\ cur \in Seq(Word) /\ sections \in Seq(SectionRecord)
      /\ Section \in SectionRecord /\ Section = Head(sections) /\ Section = sections[1]
      /\ Section.name \in Names /\ Section.paras \in Seq(Seq(Word))
      /\ SectionsOk(doc, sections) /\ SectionOk(doc, Section)
      /\ InSections(sections) = InParas(Section.paras) \cup InSections(Tail(sections))
      /\ Apart(doc, InParas(Section.paras), InSections(Tail(sections)))
      /\ PackingOk(doc, Section, chunks, cur, left)
      /\ Filled(Tail(sections))
      /\ Apart(doc, InChunks(chunks) \cup In(cur) \cup In(left), InSections(Tail(sections)))
      /\ Covered(doc, Len(doc), InChunks(chunks) \cup In(cur) \cup In(left) \cup InSections(sections))
  BY <1>1, PackingFacts
<1>3. /\ p \in Seq(Word) /\ t \in Seq(Seq(Word)) /\ p # <<>> /\ Sorted(p) /\ ParasOk(t)
      /\ InParas(Section.paras) = In(p) \cup InParas(t)
      /\ Precede(In(p), InParas(t))
  BY <1>1, <1>2, ParasTail DEF SectionOk
<1>4. In(none) = {}
  BY InEmpty
<1>5. x \in SectionRecord /\ x.name = Section.name /\ x.paras = t
  BY <1>2, <1>3 DEF SectionRecord
<1>6. SectionOk(doc, x)
  BY <1>2, <1>3, <1>5 DEF SectionOk, Named, Together
<1>7. sections' = [sections EXCEPT ![1] = x]
  <2>1. [Section EXCEPT !.paras = t] = x
    BY <1>2, WithParas
  <2>2. sections' = [sections EXCEPT ![1] = [Section EXCEPT !.paras = t]]
    BY <1>1, <1>2
  <2>3. QED BY <2>1, <2>2
<1> HIDE DEF none, p, t, x
<1>8. /\ sections' \in Seq(SectionRecord) /\ sections' # <<>>
      /\ Head(sections') = x /\ Tail(sections') = Tail(sections) /\ SectionsOk(doc, sections')
  <2>1. InParas(x.paras) \subseteq InParas(Head(sections).paras)
    BY <1>2, <1>3, <1>5
  <2> DEFINE rs == [sections EXCEPT ![1] = x]
  <2>2. /\ rs \in Seq(SectionRecord) /\ rs # <<>>
        /\ Head(rs) = x /\ Tail(rs) = Tail(sections) /\ SectionsOk(doc, rs)
    BY <1>1, <1>2, <1>5, <1>6, <2>1, SectionsReplace
  <2>3. sections' = rs
    BY <1>7
  <2> HIDE DEF rs
  <2>4. QED BY <2>2, <2>3
<1>9. InSections(sections') = InParas(t) \cup InSections(Tail(sections))
  BY <1>5, <1>8, SectionsTail
<1>10. Rest(x, cur, p) = Rest(Section, cur, left)
  BY <1>1, <1>3, <1>4, <1>5 DEF Rest
<1>11. PackingOk(doc, x, chunks, cur, p)
  <2>1. Precede(In(cur), In(p)) /\ Precede(In(cur) \cup In(p), InParas(t))
    BY <1>2, <1>3 DEF PackingOk, Precede
  <2>2. QED BY <1>2, <1>3, <1>5, <1>10, <2>1 DEF PackingOk
<1>12. Apart(doc, InChunks(chunks) \cup In(cur) \cup In(p), InSections(Tail(sections)))
  BY <1>2, <1>3 DEF Apart
<1>13. Covered(doc, Len(doc), InChunks(chunks) \cup In(cur) \cup In(p) \cup InSections(sections'))
  BY <1>1, <1>2, <1>3, <1>4, <1>9, CoveredMore
<1>14. PackInv'
  BY <1>1, <1>2, <1>8, <1>11, <1>12, <1>13 DEF PackInv
<1>15. ChunkTypeOK'
  BY <1>1, <1>2, <1>3, <1>8 DEF ChunkTypeOK
<1>16. WordsRead'
  BY <1>1, <1>2 DEF WordsRead
<1>17. QED BY <1>1, <1>8, <1>14, <1>15, <1>16 DEF ChunkInv

(* cur[-OVERLAP_WORDS:]                                                    *)
LEMMA LastWordsFacts ==
    ASSUME cur \in Seq(Word)
    PROVE  LET n == IF Len(cur) < Overlap THEN Len(cur) ELSE Overlap
           IN  /\ LastWords \in Seq(Word) /\ Len(LastWords) = n
               /\ \A i \in 1..n : LastWords[i] = cur[Len(cur) - n + i]
               /\ In(LastWords) \subseteq In(cur)
               /\ Sorted(cur) => Sorted(LastWords)
               /\ StartsLike(LastWords, cur)
<1> DEFINE N == Len(cur)
           n == IF N < Overlap THEN N ELSE Overlap
           m == N - n
           q == SubSeq(cur, m + 1, N)
<1>1. N \in Nat /\ Overlap \in Nat /\ n \in Nat /\ m \in 0..N /\ N - m = n
  <2>1. N \in Nat /\ Overlap \in Nat
    BY LenProperties, ChunkingAssumption
  <2> HIDE DEF N
  <2>2. QED BY <2>1
<1>2. LastWords = q
  <2>1. (IF N > Overlap THEN N - Overlap + 1 ELSE 1) = m + 1
    <3> HIDE DEF N
    <3>1. QED BY <1>1
  <2>2. QED BY <2>1 DEF LastWords
<1> HIDE DEF m, n
<1>3. /\ q \in Seq(Word) /\ Len(q) = N - m /\ \A i \in 1..(N - m) : q[i] = cur[m + i]
      /\ In(q) \subseteq In(cur) /\ (Sorted(cur) => Sorted(q))
  BY <1>1, Cut
<1> HIDE DEF q, N
<1>4. StartsLike(q, cur)
  <2>1. n <= Len(q) /\ \A j \in 1..n : q[j] = cur[N - n + j]
    <3>1. N - n = m /\ N - m = n
      BY <1>1 DEF m
    <3>2. QED BY <1>1, <1>3, <3>1
  <2>2. QED BY <2>1 DEF StartsLike, n, N
<1>5. QED BY <1>1, <1>2, <1>3, <1>4 DEF m, n, N

(* The words of chunks are words.                                          *)
LEMMA ChunkWords ==
    ASSUME NEW cs \in Seq(ChunkRecord)
    PROVE  /\ InChunks(cs) \subseteq Word
           /\ cs # <<>> => /\ cs[Len(cs)] \in In(cs) /\ cs[Len(cs)] \in ChunkRecord
                           /\ cs[Len(cs)].words \in Seq(Word)
                           /\ In(cs[Len(cs)].words) \subseteq InChunks(cs)
<1>1. \A c \in ChunkRecord : c.words \in Seq(Word) /\ In(c.words) \subseteq Word
  BY InProperties DEF ChunkRecord
<1>2. In(cs) \subseteq ChunkRecord /\ (cs # <<>> => cs[Len(cs)] \in In(cs))
  BY InProperties
<1>3. QED BY <1>1, <1>2 DEF InChunks

(* The chunk being packed may be closed.                                   *)
LEMMA NewChunk ==
    ASSUME ChunkInv, phase = "packing", sections # <<>>, cur # <<>>
    PROVE  LET x == Chunk(Section.name, cur)
           IN  /\ x \in ChunkRecord /\ x.words = cur
               /\ ChunkOk(doc, x)
               /\ chunks # <<>> => Overlaps(doc, chunks[Len(chunks)].words, x.words)
<1> DEFINE x == Chunk(Section.name, cur)
           last == chunks[Len(chunks)].words
           V == Rest(Section, cur, left)
<1>1. /\ cur \in Seq(Word) /\ left \in Seq(Word) /\ chunks \in Seq(ChunkRecord)
      /\ Section.name \in Names /\ PackingOk(doc, Section, chunks, cur, left)
      /\ ChunksOk(doc, chunks) /\ Len(cur) <= Target + Overlap
  BY PackingFacts
<1>2. x = [section |-> Section.name, words |-> cur, rests |-> 0]
  BY DEF Chunk
<1>3. x \in ChunkRecord /\ x.words = cur /\ x.section = Section.name /\ x.rests = 0
  BY <1>1, <1>2 DEF ChunkRecord
<1> HIDE DEF x, V
<1>4. In(cur) \subseteq V
  BY DEF V, Rest
<1>5. ChunkOk(doc, x)
  <2>1. Sorted(cur) /\ Named(doc, In(cur), Section.name)
    BY <1>1, <1>4 DEF PackingOk, Named, V
  <2>2. Len(cur) <= Target + Overlap + 0 * Shortest
    <3>1. 0 * Shortest = 0 /\ Target + Overlap + 0 = Target + Overlap
      BY ChunkingAssumption
    <3>2. QED BY <1>1, <3>1
  <2>3. QED BY <1>3, <2>1, <2>2 DEF ChunkOk
<1>6. ASSUME chunks # <<>> PROVE Overlaps(doc, last, cur)
  <2>1. last \in Seq(Word) /\ last # <<>> /\ In(last) \subseteq InChunks(chunks)
    BY <1>1, <1>6, ChunkWords DEF ChunksOk, ChunkOk
  <2>2. last[Len(last)] \in In(last) /\ cur[1] \in In(cur)
    BY <1>1, <2>1, InProperties
  <2>3. Begins(doc, chunks, cur, V)
    BY <1>1 DEF PackingOk, V
  <2>4. CASE Apart(doc, InChunks(chunks), V)
    <3>1. Under(doc, last[Len(last)]) < Under(doc, cur[1])
      BY <1>4, <2>1, <2>2, <2>4 DEF Apart
    <3>2. last[Len(last)] \in Word /\ cur[1] \in Word
      BY <1>1, <2>1, <2>2, InProperties
    <3>3. Under(doc, last[Len(last)]) \in Nat /\ Under(doc, cur[1]) \in Nat
      BY <3>2, UnderType
    <3>4. Under(doc, last[Len(last)]) # Under(doc, cur[1])
      BY <3>1, <3>3
    <3>5. QED BY <3>4 DEF Overlaps
  <2>5. CASE Continues(chunks, cur)
    BY <2>5 DEF Continues, Overlaps
  <2>6. QED BY <2>3, <2>4, <2>5 DEF Begins
<1>7. QED BY <1>3, <1>5, <1>6 DEF x

(* A piece is packed, after the chunk before it is closed if it is full;   *)
(* the new one then begins with its last words.                            *)
LEMMA PackStepInv ==
    ASSUME ChunkInv, Pack
    PROVE  ChunkInv'
<1> DEFINE k == Shorter(Target)
           p == Piece
           q == SubSeq(left, k + 1, Len(left))
           x == Chunk(Section.name, cur)
           base == IF IsFull THEN LastWords ELSE cur
           rest == Tail(sections)
           V == Rest(Section, cur, left)
           W == Rest(Section, base \o p, q)
<1>1. /\ phase = "packing" /\ left # <<>>
      /\ chunks' = (IF IsFull THEN Append(chunks, x) ELSE chunks)
      /\ cur' = base \o p
      /\ left' = SubSeq(left, Len(p) + 1, Len(left))
      /\ UNCHANGED <<sections, phase, doc, at, buf, current>>
  BY DEF Pack, packing
<1>2. sections # <<>>
  BY <1>1 DEF ChunkInv, PackInv
<1>3. /\ ChunkTypeOK /\ WordsRead /\ PackInv
      /\ left \in Seq(Word) /\ cur \in Seq(Word) /\ chunks \in Seq(ChunkRecord)
      /\ sections \in Seq(SectionRecord) /\ Section = Head(sections)
      /\ SectionsOk(doc, sections)
      /\ InSections(sections) = InParas(Section.paras) \cup InSections(rest)
      /\ PackingOk(doc, Section, chunks, cur, left)
      /\ Filled(rest)
      /\ Apart(doc, InChunks(chunks) \cup In(cur) \cup In(left), InSections(rest))
      /\ ChunksOk(doc, chunks)
      /\ Len(cur) <= Target + Overlap
      /\ Covered(doc, Len(doc), InChunks(chunks) \cup In(cur) \cup In(left) \cup InSections(sections))
  BY <1>1, <1>2, PackingFacts
<1>4. /\ Len(left) \in Nat /\ Len(left) >= 1 /\ Len(cur) \in Nat
      /\ Target \in Nat \ {0} /\ Overlap \in Nat /\ Shortest \in Nat
      /\ Overlap < Target /\ Shortest <= Overlap + 1
  BY <1>1, <1>3, LenProperties, InProperties, ChunkingAssumption
<1>5. k \in 0..Len(left) /\ k >= 1 /\ k <= Target
  BY <1>4 DEF Shorter
<1>6. p = SubSeq(left, 1, k)
  BY DEF Piece
<1> HIDE DEF k
<1>7. /\ p \in Seq(Word) /\ Len(p) = k /\ q \in Seq(Word)
      /\ In(left) = In(p) \cup In(q)
      /\ Sorted(p) /\ Sorted(q) /\ Precede(In(p), In(q))
  BY <1>3, <1>5, <1>6, Cut DEF PackingOk
<1>8. left' = q
  BY <1>1, <1>7
<1> HIDE DEF p, q, x
<1>9. /\ LastWords \in Seq(Word) /\ Len(LastWords) \in 0..Overlap
      /\ Len(LastWords) = IF Len(cur) < Overlap THEN Len(cur) ELSE Overlap
      /\ In(LastWords) \subseteq In(cur) /\ Sorted(LastWords)
  BY <1>3, <1>4, LastWordsFacts DEF PackingOk
<1>10. /\ base \in Seq(Word) /\ In(base) \subseteq In(cur) /\ Sorted(base)
       /\ ~ IsFull => base = cur
       /\ IsFull => base = LastWords
  BY <1>3, <1>9 DEF PackingOk
<1>11. IsFull <=> cur # <<>> /\ Len(cur) + k > Target
  BY <1>7 DEF IsFull, p
<1> HIDE DEF base
<1>12. /\ cur' \in Seq(Word) /\ In(cur') = In(base) \cup In(p) /\ Len(cur') = Len(base) + k
       /\ Len(base) \in Nat
  <2> DEFINE u == base \o p
  <2>1. u \in Seq(Word) /\ Len(u) = Len(base) + Len(p)
    BY <1>7, <1>10, ConcatProperties
  <2>2. In(u) = In(base) \cup In(p)
    BY <1>7, <1>10, InConcat
  <2>3. Len(base) \in Nat
    BY <1>10, LenProperties
  <2>4. cur' = u
    BY <1>1
  <2> HIDE DEF u
  <2>5. QED BY <1>7, <2>1, <2>2, <2>3, <2>4
<1>13. Len(cur') <= Target + Overlap
  <2>1. CASE IsFull
    <3>1. Len(base) <= Overlap
      BY <1>4, <1>9, <1>10, <2>1
    <3>2. QED BY <1>4, <1>5, <1>12, <3>1
  <2>2. CASE ~ IsFull /\ cur = <<>>
    <3>1. Len(base) = 0
      BY <1>10, <2>2, EmptySeq
    <3>2. QED BY <1>4, <1>5, <1>12, <3>1
  <2>3. CASE ~ IsFull /\ cur # <<>>
    <3>1. ~ (Len(cur) + k > Target) /\ Len(base) = Len(cur)
      BY <1>10, <1>11, <2>3
    <3>2. QED BY <1>4, <1>5, <1>12, <3>1
  <2>4. QED BY <2>1, <2>2, <2>3
<1>14. /\ Precede(In(cur), In(left)) /\ Precede(In(cur) \cup In(left), InParas(Section.paras))
       /\ Together(doc, V) /\ Named(doc, V, Section.name) /\ Begins(doc, chunks, cur, V)
  BY <1>3 DEF PackingOk
<1>15. Sorted(cur')
  <2>1. Precede(In(base), In(p))
    BY <1>7, <1>10, <1>14 DEF Precede
  <2>2. QED BY <1>1, <1>7, <1>10, <2>1, SortedConcat
<1>16. Precede(In(cur'), In(q))
  BY <1>7, <1>10, <1>12, <1>14 DEF Precede
<1>17. Precede(In(cur') \cup In(q), InParas(Section.paras))
  BY <1>7, <1>10, <1>12, <1>14 DEF Precede
<1>18. Rest(Section, cur', q) \subseteq V
  BY <1>7, <1>10, <1>12 DEF Rest
<1> HIDE DEF V
<1>19. Together(doc, Rest(Section, cur', q)) /\ Named(doc, Rest(Section, cur', q), Section.name)
  BY <1>14, <1>18 DEF Together, Named
<1>20. cur' # <<>>
  <2>1. Len(cur') # 0
    BY <1>4, <1>5, <1>12
  <2>2. QED BY <2>1, EmptySeq
<1>21. /\ chunks' \in Seq(ChunkRecord) /\ ChunksOk(doc, chunks')
       /\ InChunks(chunks') \subseteq InChunks(chunks) \cup In(cur)
       /\ InChunks(chunks) \cup In(cur) \subseteq InChunks(chunks') \cup In(cur')
       /\ IsFull => chunks' # <<>> /\ chunks'[Len(chunks')].words = cur
  <2>1. CASE IsFull
    <3>1. cur # <<>>
      BY <1>11, <2>1
    <3>2. /\ x \in ChunkRecord /\ x.words = cur /\ ChunkOk(doc, x)
          /\ chunks # <<>> => Overlaps(doc, chunks[Len(chunks)].words, x.words)
      BY <1>1, <1>2, <3>1, NewChunk DEF x
    <3>3. chunks' = Append(chunks, x)
      BY <1>1, <2>1
    <3> DEFINE rs == Append(chunks, x)
    <3>4. /\ rs \in Seq(ChunkRecord) /\ rs # <<>> /\ rs[Len(rs)] = x
          /\ ChunksOk(doc, rs) /\ InChunks(rs) = InChunks(chunks) \cup In(x.words)
      BY <1>3, <3>2, ChunksAppend
    <3> HIDE DEF rs
    <3>5. chunks' = rs
      BY <3>3 DEF rs
    <3>6. InChunks(chunks') = InChunks(rs) /\ ChunksOk(doc, chunks')
      BY <3>4, <3>5
    <3>7. QED BY <3>2, <3>4, <3>5, <3>6
  <2>2. CASE ~ IsFull
    <3>1. chunks' = chunks /\ base = cur
      BY <1>1, <1>10, <2>2
    <3>2. QED BY <1>3, <1>12, <2>2, <3>1
  <2>3. QED BY <2>1, <2>2
<1>22. Begins(doc, chunks', cur', Rest(Section, cur', q))
  <2>1. CASE IsFull
    <3>1. cur # <<>> /\ Len(cur) + k > Target
      BY <1>11, <2>1
    <3>2. Shortest <= Len(cur')
      BY <1>4, <1>5, <1>9, <1>10, <1>12, <2>1, <3>1
    <3>3. StartsLike(LastWords, cur)
      BY <1>3, LastWordsFacts
    <3>4. StartsLike(cur', cur)
      BY <1>1, <1>3, <1>7, <1>10, <2>1, <3>3, StartsConcat
    <3>5. Continues(chunks', cur')
      BY <1>20, <1>21, <2>1, <3>2, <3>4 DEF Continues
    <3>6. QED BY <3>5 DEF Begins
  <2>2. CASE ~ IsFull
    <3>1. chunks' = chunks /\ base = cur
      BY <1>1, <1>10, <2>2
    <3>2. CASE Apart(doc, InChunks(chunks), V)
      BY <1>18, <3>1, <3>2 DEF Begins, Apart
    <3>3. CASE Continues(chunks, cur)
      <4>1. chunks # <<>> /\ Shortest <= Len(cur) /\ StartsLike(cur, chunks[Len(chunks)].words)
        BY <3>3 DEF Continues
      <4>2. Shortest <= Len(cur')
        BY <1>4, <1>5, <1>12, <3>1, <4>1
      <4>3. chunks[Len(chunks)].words \in Seq(Word)
        BY <1>3, <4>1, ChunkWords
      <4>4. StartsLike(cur', chunks[Len(chunks)].words)
        BY <1>1, <1>3, <1>7, <3>1, <4>1, <4>3, StartsConcat
      <4>5. Continues(chunks', cur')
        BY <1>20, <3>1, <4>1, <4>2, <4>4 DEF Continues
      <4>6. QED BY <4>5 DEF Begins
    <3>4. QED BY <1>14, <3>2, <3>3 DEF Begins
  <2>3. QED BY <2>1, <2>2
<1>23. PackingOk(doc, Section, chunks', cur', q)
  BY <1>7, <1>15, <1>16, <1>17, <1>19, <1>20, <1>22 DEF PackingOk
<1>24. Apart(doc, InChunks(chunks') \cup In(cur') \cup In(q), InSections(rest))
  <2>1. InChunks(chunks') \cup In(cur') \cup In(q) \subseteq InChunks(chunks) \cup In(cur) \cup In(left)
    BY <1>7, <1>10, <1>12, <1>21
  <2>2. QED BY <1>3, <2>1 DEF Apart
<1>25. Covered(doc, Len(doc), InChunks(chunks') \cup In(cur') \cup In(q) \cup InSections(sections))
  <2>1. InChunks(chunks) \cup In(cur) \cup In(left) \cup InSections(sections)
          \subseteq InChunks(chunks') \cup In(cur') \cup In(q) \cup InSections(sections)
    BY <1>7, <1>12, <1>21
  <2>2. QED BY <1>3, <2>1, CoveredMore
<1> HIDE DEF rest, W
<1>26. PackInv'
  <2>1. Head(sections)' = Section /\ Tail(sections)' = rest
    BY <1>1, <1>3 DEF rest
  <2>2. QED BY <1>1, <1>2, <1>3, <1>8, <1>13, <1>21, <1>23, <1>24, <1>25, <2>1 DEF PackInv
<1>27. ChunkTypeOK'
  BY <1>1, <1>3, <1>7, <1>8, <1>12, <1>21 DEF ChunkTypeOK
<1>28. WordsRead'
  BY <1>1, <1>3 DEF WordsRead
<1>29. QED BY <1>1, <1>3, <1>26, <1>27, <1>28 DEF ChunkInv

(* The rest of a section is a chunk, or joins the last one: one that short *)
(* does not begin with the last words of a chunk, so it is all of a        *)
(* section of its own.                                                     *)
LEMMA EndedChunks ==
    ASSUME ChunkInv, EndSection
    PROVE  /\ chunks' \in Seq(ChunkRecord) /\ ChunksOk(doc, chunks')
           /\ InChunks(chunks') = InChunks(chunks) \cup In(cur)
<1> DEFINE x == Chunk(Section.name, cur)
           N == Len(chunks)
           rs == [chunks EXCEPT ![N].words = @ \o cur, ![N].rests = @ + 1]
           ts == Append(chunks, x)
<1>1. /\ phase = "packing" /\ sections # <<>> /\ left = <<>> /\ Section.paras = <<>>
      /\ chunks' = IF StandsAlone THEN ts ELSE rs
  BY DEF EndSection
<1>2. /\ cur \in Seq(Word) /\ chunks \in Seq(ChunkRecord)
      /\ PackingOk(doc, Section, chunks, cur, left) /\ ChunksOk(doc, chunks)
  BY <1>1, PackingFacts
<1>3. Rest(Section, cur, left) = In(cur)
  BY <1>1, InEmpty DEF Rest
<1>4. /\ cur # <<>> /\ Sorted(cur) /\ Named(doc, In(cur), Section.name)
      /\ Begins(doc, chunks, cur, In(cur))
  BY <1>1, <1>2, <1>3 DEF PackingOk
<1>5. CASE StandsAlone
  <2>1. /\ x \in ChunkRecord /\ x.words = cur /\ ChunkOk(doc, x)
        /\ chunks # <<>> => Overlaps(doc, chunks[Len(chunks)].words, x.words)
    BY <1>1, <1>4, NewChunk
  <2> HIDE DEF x
  <2>2. ts \in Seq(ChunkRecord) /\ ChunksOk(doc, ts) /\ InChunks(ts) = InChunks(chunks) \cup In(x.words)
    BY <1>2, <2>1, ChunksAppend
  <2>3. chunks' = ts
    BY <1>1, <1>5
  <2> HIDE DEF ts
  <2>4. InChunks(chunks') = InChunks(ts) /\ ChunksOk(doc, chunks') /\ chunks' \in Seq(ChunkRecord)
    BY <2>2, <2>3
  <2>5. QED BY <2>1, <2>2, <2>4
<1>6. CASE ~ StandsAlone
  <2>1. ~ (Len(cur) >= Shortest) /\ chunks # <<>> /\ chunks[N].section = Section.name
    BY <1>6 DEF StandsAlone
  <2>2. Len(cur) \in Nat /\ Shortest \in Nat
    BY <1>2, LenProperties, ChunkingAssumption
  <2>3. Len(cur) < Shortest /\ ~ (Shortest <= Len(cur))
    BY <2>1, <2>2
  <2>4. Apart(doc, InChunks(chunks), In(cur))
    BY <1>4, <2>3 DEF Begins, Continues
  <2>5. Named(doc, In(cur), chunks[Len(chunks)].section)
    BY <1>4, <2>1
  <2>6. rs \in Seq(ChunkRecord) /\ ChunksOk(doc, rs) /\ InChunks(rs) = InChunks(chunks) \cup In(cur)
    BY <1>2, <1>4, <2>1, <2>3, <2>4, <2>5, ChunksExtend
  <2>7. chunks' = rs
    BY <1>1, <1>6
  <2> HIDE DEF rs
  <2>8. InChunks(chunks') = InChunks(rs) /\ ChunksOk(doc, chunks') /\ chunks' \in Seq(ChunkRecord)
    BY <2>6, <2>7
  <2>9. QED BY <2>6, <2>8
<1>7. QED BY <1>5, <1>6

(* The next section begins where no chunk has words of its heading.        *)
LEMMA EndSectionInv ==
    ASSUME ChunkInv, EndSection
    PROVE  ChunkInv'
<1> DEFINE rest == Tail(sections)
           V == InChunks(chunks) \cup In(cur)
<1>1. /\ phase = "packing" /\ sections # <<>> /\ left = <<>> /\ Section.paras = <<>>
      /\ cur' = <<>> /\ sections' = rest
      /\ UNCHANGED <<left, phase, doc, at, buf, current>>
  BY DEF EndSection, packing
<1>2. /\ ChunkTypeOK /\ WordsRead /\ PackInv
      /\ sections \in Seq(SectionRecord)
      /\ SectionsOk(doc, rest) /\ rest \in Seq(SectionRecord)
      /\ InSections(sections) = InParas(Section.paras) \cup InSections(rest)
      /\ Filled(rest)
      /\ Apart(doc, InChunks(chunks) \cup In(cur) \cup In(left), InSections(rest))
      /\ Covered(doc, Len(doc), InChunks(chunks) \cup In(cur) \cup In(left) \cup InSections(sections))
  BY <1>1, PackingFacts
<1>3. /\ chunks' \in Seq(ChunkRecord) /\ ChunksOk(doc, chunks') /\ InChunks(chunks') = V
  BY EndedChunks
<1> HIDE DEF rest, V
<1>4. /\ InParas(Section.paras) = {} /\ In(left) = {} /\ In(cur') = {} /\ In(left') = {}
  BY <1>1, InEmpty
<1>5. Apart(doc, V, InSections(rest))
  BY <1>2, <1>4 DEF V
<1>6. Covered(doc, Len(doc), V \cup InSections(rest))
  BY <1>2, <1>4 DEF V
<1>7. ASSUME rest # <<>>
      PROVE  /\ PackingOk(doc, Head(rest), chunks', <<>>, <<>>)
             /\ Filled(Tail(rest)) /\ Apart(doc, V, InSections(Tail(rest)))
  <2> DEFINE h == Head(rest)
  <2>1. /\ h \in SectionRecord /\ SectionOk(doc, h)
        /\ InSections(rest) = InParas(h.paras) \cup InSections(Tail(rest))
        /\ Filled(Tail(rest)) /\ h.paras # <<>>
    BY <1>2, <1>7, SectionsTail
  <2> HIDE DEF h
  <2>2. Apart(doc, V, InParas(h.paras)) /\ Apart(doc, V, InSections(Tail(rest)))
    BY <1>5, <2>1 DEF Apart
  <2>3. Rest(h, <<>>, <<>>) = InParas(h.paras)
    BY InEmpty DEF Rest
  <2>4. Sorted(<<>>) /\ Precede(In(<<>>), In(<<>>)) /\ Precede(In(<<>>) \cup In(<<>>), InParas(h.paras))
    <3>1. Sorted(<<>>)
      BY EmptySeq DEF Sorted
    <3>2. QED BY <3>1, InEmpty DEF Precede
  <2>5. Together(doc, InParas(h.paras)) /\ Named(doc, InParas(h.paras), h.name)
    BY <2>1 DEF SectionOk
  <2>6. Begins(doc, chunks', <<>>, InParas(h.paras))
    BY <1>3, <2>2 DEF Begins
  <2>7. PackingOk(doc, h, chunks', <<>>, <<>>)
    BY <2>1, <2>3, <2>4, <2>5, <2>6 DEF PackingOk
  <2>8. QED BY <2>1, <2>2, <2>7 DEF h
<1>8. PackInv'
  <2>1. at' = Len(doc)' + 1
    BY <1>1, <1>2 DEF PackInv
  <2>2. Len(cur') <= Target + Overlap
    <3>1. Len(cur') = 0
      BY <1>1, EmptySeq
    <3>2. QED BY <3>1, ChunkingAssumption
  <2>3. InChunks(chunks') \cup In(cur') \cup In(left') = V
    BY <1>3, <1>4
  <2>4. (phase = "done" => sections = <<>>)'
    BY <1>1
  <2>5. ASSUME sections' # <<>>
        PROVE  /\ PackingOk(doc, Head(sections), chunks, cur, left)'
               /\ Filled(Tail(sections))'
               /\ Apart(doc, InChunks(chunks) \cup In(cur) \cup In(left), InSections(Tail(sections)))'
    BY <1>1, <1>7, <2>3, <2>5
  <2>6. Covered(doc, Len(doc), InChunks(chunks) \cup In(cur) \cup In(left) \cup InSections(sections))'
    BY <1>1, <1>6, <2>3
  <2>7. ChunksOk(doc, chunks)'
    BY <1>1, <1>3
  <2>8. sections' = <<>> => cur' = <<>> /\ left' = <<>>
    BY <1>1
  <2>9. QED BY <2>1, <2>2, <2>4, <2>5, <2>6, <2>7, <2>8 DEF PackInv
<1>9. ChunkTypeOK'
  <2>1. cur' \in Seq(Word)
    BY <1>1, EmptySeq
  <2>2. QED BY <1>1, <1>2, <1>3, <2>1 DEF ChunkTypeOK
<1>10. WordsRead'
  BY <1>1, <1>2 DEF WordsRead
<1>11. QED BY <1>1, <1>2, <1>8, <1>9, <1>10 DEF ChunkInv

(* Every section is packed.                                                *)
LEMMA EndPackingInv ==
    ASSUME ChunkInv, EndPacking
    PROVE  ChunkInv'
<1>1. /\ phase = "packing" /\ sections = <<>> /\ phase' = "done"
      /\ UNCHANGED <<sections, left, cur, chunks, doc, at, buf, current>>
  BY DEF EndPacking, packing
<1>2. ChunkTypeOK /\ WordsRead /\ PackInv /\ SectionsOk(doc, sections)
  BY <1>1 DEF ChunkInv
<1>3. PackInv'
  BY <1>1, <1>2 DEF PackInv
<1>4. ChunkTypeOK' /\ WordsRead' /\ SectionsOk(doc, sections)'
  BY <1>1, <1>2 DEF ChunkTypeOK, WordsRead
<1>5. QED BY <1>1, <1>3, <1>4 DEF ChunkInv
-----------------------------------------------------------------------------
(* The invariant holds, and the chunks are faithful                        *)

(* Every step preserves the invariant.                                     *)
LEMMA ChunkStep == ChunkInv /\ [ChunkingNext]_chunkingVars => ChunkInv'
<1> SUFFICES ASSUME ChunkInv, [ChunkingNext]_chunkingVars
             PROVE  ChunkInv'
  OBVIOUS
<1>1. CASE ReadLine
  <2>1. \/ doc[at].kind = "heading" \/ doc[at].kind = "blank" \/ doc[at].kind = "text"
    BY <1>1 DEF ReadLine
  <2>2. QED BY <1>1, <2>1, ReadHeading, ReadBlank, ReadText
<1>2. CASE EndReading
  BY <1>2, EndReadingInv
<1>3. CASE NextParagraph
  BY <1>3, NextParagraphInv
<1>4. CASE Pack
  BY <1>4, PackStepInv
<1>5. CASE EndSection
  BY <1>5, EndSectionInv
<1>6. CASE EndPacking
  BY <1>6, EndPackingInv
<1>7. CASE UNCHANGED chunkingVars
  <2>1. UNCHANGED <<doc, at, buf, current, sections, left, cur, chunks, phase>>
    BY <1>7 DEF chunkingVars
  <2>2. ChunkTypeOK' /\ WordsRead' /\ SectionsOk(doc, sections)'
    BY <2>1 DEF ChunkInv, ChunkTypeOK, WordsRead
  <2>3. CASE phase = "reading"
    <3>1. ReadInv'
      BY <2>1, <2>3 DEF ChunkInv, ReadInv
    <3>2. QED BY <2>1, <2>2, <2>3, <3>1 DEF ChunkInv
  <2>4. CASE phase # "reading"
    <3>1. PackInv'
      BY <2>1, <2>4 DEF ChunkInv, PackInv
    <3>2. QED BY <2>1, <2>2, <2>4, <3>1 DEF ChunkInv
  <2>5. QED BY <2>3, <2>4
<1>8. QED BY <1>1, <1>2, <1>3, <1>4, <1>5, <1>6, <1>7 DEF ChunkingNext

(* What the invariant says of the chunks.                                  *)
LEMMA ChunkFacts ==
    ASSUME ChunkInv
    PROVE  /\ chunks \in Seq(ChunkRecord) /\ ChunksOk(doc, chunks)
           /\ cur \in Seq(Word) /\ Len(cur) <= Target + Overlap
           /\ phase = "done" => Covered(doc, Len(doc), InChunks(chunks))
<1>1. ChunkTypeOK
  BY DEF ChunkInv
<1>2. CASE phase = "reading"
  <2> DEFINE none == <<>>
  <2>1. chunks = none /\ cur = none
    BY <1>2 DEF ChunkInv, ReadInv
  <2>2. In(none) = {} /\ Len(none) = 0
    BY InEmpty, EmptySeq
  <2>3. 0 <= Target + Overlap
    BY ChunkingAssumption
  <2> HIDE DEF none
  <2>4. \A i \in 1..(Len(none) - 1) : FALSE
    BY <2>2
  <2>5. ChunksOk(doc, none)
    BY <2>2, <2>4 DEF ChunksOk
  <2>6. Len(cur) <= Target + Overlap
    BY <2>1, <2>2, <2>3
  <2>7. QED BY <1>1, <1>2, <2>1, <2>5, <2>6 DEF ChunkTypeOK
<1>3. CASE phase # "reading"
  <2>1. PackInv
    BY <1>3 DEF ChunkInv
  <2>2. ASSUME phase = "done" PROVE Covered(doc, Len(doc), InChunks(chunks))
    <3>1. sections = <<>> /\ cur = <<>> /\ left = <<>>
      BY <2>1, <2>2 DEF PackInv
    <3>2. InChunks(chunks) \cup In(cur) \cup In(left) \cup InSections(sections) = InChunks(chunks)
      BY <3>1, InEmpty
    <3>3. QED BY <2>1, <3>2 DEF PackInv
  <2>3. QED BY <1>1, <2>1, <2>2 DEF PackInv, ChunkTypeOK
<1>4. QED BY <1>2, <1>3

(* A chunk of the document, by its place.                                  *)
LEMMA ChunkAt ==
    ASSUME ChunkInv, NEW i \in 1..Len(chunks)
    PROVE  /\ chunks[i] \in In(chunks) /\ chunks[i] \in ChunkRecord /\ ChunkOk(doc, chunks[i])
           /\ chunks[i].words \in Seq(Word) /\ chunks[i].section \in Names /\ chunks[i].rests \in Nat
<1>1. chunks \in Seq(ChunkRecord) /\ ChunksOk(doc, chunks)
  BY ChunkFacts
<1>2. chunks[i] \in In(chunks) /\ In(chunks) \subseteq ChunkRecord
  BY <1>1, InProperties
<1>3. QED BY <1>1, <1>2 DEF ChunksOk, ChunkRecord

(* Each part of ChunksFaithful from the invariant.                         *)
LEMMA SizesHold == ChunkInv => ChunkSizes
<1> SUFFICES ASSUME ChunkInv PROVE ChunkSizes
  OBVIOUS
<1>1. ASSUME NEW i \in 1..Len(chunks)
      PROVE  /\ Len(chunks[i].words) \in 1..(Target + Overlap + chunks[i].rests * Shortest)
             /\ chunks[i].section \in Names
  <2> DEFINE ws == chunks[i].words
             r == chunks[i].rests
             b == Target + Overlap + r * Shortest
  <2>1. ws \in Seq(Word) /\ r \in Nat /\ chunks[i].section \in Names /\ ws # <<>> /\ Len(ws) <= b
    BY ChunkAt DEF ChunkOk
  <2>2. b \in Nat
    BY <2>1, ChunkingAssumption
  <2>3. Len(ws) \in Nat /\ Len(ws) >= 1
    BY <2>1, InProperties, LenProperties
  <2> HIDE DEF ws, b
  <2>4. Len(ws) \in 1..b
    BY <2>1, <2>2, <2>3
  <2>5. QED BY <2>1, <2>4 DEF ws, b
<1>2. QED BY <1>1, ChunkFacts DEF ChunkSizes

(* The words of a chunk are in the order of the document.                  *)
LEMMA OrderHolds == ChunkInv => InReadingOrder
<1> SUFFICES ASSUME ChunkInv,
                    NEW i \in 1..Len(chunks), NEW j \in 1..(Len(chunks[i].words) - 1)
             PROVE  Earlier(chunks[i].words[j], chunks[i].words[j + 1])
  BY DEF InReadingOrder
<1> DEFINE ws == chunks[i].words
<1>1. ws \in Seq(Word) /\ Sorted(ws)
  BY ChunkAt DEF ChunkOk
<1>2. Len(ws) \in Nat
  BY <1>1, LenProperties
<1>3. j \in 1..(Len(ws) - 1)
  OBVIOUS
<1> HIDE DEF ws
<1>4. j \in 1..Len(ws) /\ j + 1 \in 1..Len(ws) /\ j < j + 1
  BY <1>2, <1>3
<1>5. Earlier(ws[j], ws[j + 1])
  BY <1>1, <1>4 DEF Sorted
<1>6. QED BY <1>5 DEF ws

(* The words of a chunk are under the heading it names.                    *)
LEMMA SectionsHold == ChunkInv => SectionsTrue
<1> SUFFICES ASSUME ChunkInv,
                    NEW i \in 1..Len(chunks), NEW j \in 1..Len(chunks[i].words)
             PROVE  chunks[i].section = HeadingAbove(chunks[i].words[j][1])
  BY DEF SectionsTrue
<1> DEFINE w == chunks[i].words[j]
<1>1. w \in In(chunks[i].words)
  BY DEF In
<1>2. NameAt(doc, w[1]) = chunks[i].section
  BY <1>1, ChunkAt DEF ChunkOk, Named
<1>3. \A n : HeadingAbove(n) = NameAt(doc, n)
  BY DEF HeadingAbove, HeadingLine, NameAt, Heading
<1>4. QED BY <1>2, <1>3

(* At the end every word is in a chunk.                                    *)
LEMMA NothingIsLost == ChunkInv => NothingLost
<1> SUFFICES ASSUME ChunkInv, phase = "done",
                    NEW n \in 1..Len(doc), doc[n].kind = "text", NEW k \in 1..doc[n].words
             PROVE  \E i \in 1..Len(chunks) : \E j \in 1..Len(chunks[i].words) :
                       chunks[i].words[j] = <<n, k>>
  BY DEF NothingLost
<1>1. <<n, k>> \in InChunks(chunks)
  BY ChunkFacts DEF Covered
<1>2. PICK c \in In(chunks) : <<n, k>> \in In(c.words)
  BY <1>1 DEF InChunks
<1>3. PICK i \in 1..Len(chunks) : chunks[i] = c
  BY DEF In
<1>4. PICK j \in 1..Len(c.words) : c.words[j] = <<n, k>>
  BY <1>2 DEF In
<1>5. QED BY <1>3, <1>4

(* A chunk begins with the last words of the one before it in its section. *)
LEMMA OverlapHolds == ChunkInv => OverlapKept
<1> SUFFICES ASSUME ChunkInv, NEW i \in 1..(Len(chunks) - 1)
             PROVE  LET ws == chunks[i].words
                        next == chunks[i + 1].words
                        n == IF Len(ws) < Overlap THEN Len(ws) ELSE Overlap
                    IN  HeadingLine(next[1][1]) = HeadingLine(ws[Len(ws)][1]) =>
                           SubSeq(next, 1, n) = SubSeq(ws, Len(ws) - n + 1, Len(ws))
  BY DEF OverlapKept
<1> DEFINE ws == chunks[i].words
           next == chunks[i + 1].words
           N == Len(ws)
           n == IF N < Overlap THEN N ELSE Overlap
           m == N - n
<1>1. chunks \in Seq(ChunkRecord) /\ ChunksOk(doc, chunks)
  BY ChunkFacts
<1>2. i \in 1..Len(chunks) /\ i + 1 \in 1..Len(chunks)
  <2> DEFINE L == Len(chunks)
  <2>1. L \in Nat /\ i \in 1..(L - 1)
    BY <1>1, LenProperties
  <2> HIDE DEF L
  <2>2. i \in 1..L /\ i + 1 \in 1..L
    BY <2>1
  <2>3. QED BY <2>2 DEF L
<1>3. ws \in Seq(Word) /\ next \in Seq(Word)
  BY <1>2, ChunkAt
<1>4. Overlaps(doc, ws, next)
  BY <1>1 DEF ChunksOk
<1>5. N \in Nat /\ Overlap \in Nat /\ Len(next) \in Nat
  BY <1>3, LenProperties, ChunkingAssumption
<1>6. Under(doc, next[1]) = HeadingLine(next[1][1]) /\ Under(doc, ws[N]) = HeadingLine(ws[N][1])
  BY DEF Under, HeadingLine, Heading
<1> SUFFICES ASSUME HeadingLine(next[1][1]) = HeadingLine(ws[N][1])
             PROVE  SubSeq(next, 1, n) = SubSeq(ws, m + 1, N)
  OBVIOUS
<1>7. StartsLike(next, ws)
  BY <1>4, <1>6 DEF Overlaps
<1>8. n <= Len(next) /\ \A j \in 1..n : next[j] = ws[N - n + j]
  BY <1>7 DEF StartsLike
<1> HIDE DEF ws, next, N
<1>9. n \in Nat /\ m \in 0..N /\ N - m = n /\ N - n = m /\ n \in 0..Len(next)
  BY <1>5, <1>8
<1> HIDE DEF n, m
<1>10. /\ SubSeq(next, 1, n) \in Seq(Word) /\ Len(SubSeq(next, 1, n)) = n
       /\ \A j \in 1..n : SubSeq(next, 1, n)[j] = next[j]
  BY <1>3, <1>9, Cut
<1>11. /\ SubSeq(ws, m + 1, N) \in Seq(Word) /\ Len(SubSeq(ws, m + 1, N)) = n
       /\ \A j \in 1..n : SubSeq(ws, m + 1, N)[j] = ws[m + j]
  <2>1. m \in 0..Len(ws) /\ N = Len(ws)
    BY <1>9 DEF N
  <2>2. /\ SubSeq(ws, m + 1, Len(ws)) \in Seq(Word) /\ Len(SubSeq(ws, m + 1, Len(ws))) = Len(ws) - m
        /\ \A j \in 1..(Len(ws) - m) : SubSeq(ws, m + 1, Len(ws))[j] = ws[m + j]
    BY <1>3, <2>1, Cut
  <2>3. QED BY <1>9, <2>1, <2>2
<1>12. \A j \in 1..n : SubSeq(next, 1, n)[j] = SubSeq(ws, m + 1, N)[j]
  BY <1>8, <1>9, <1>10, <1>11
<1>13. QED BY <1>10, <1>11, <1>12, SeqEqual

(* ChunksFaithful of any document: no word is lost, out of order or named  *)
(* after a heading that it is not under, no chunk is longer than the       *)
(* target, the overlap and the short rests added to it, and the chunks of  *)
(* a section overlap (chunk_document).                                     *)
THEOREM ChunksAlwaysFaithful == ChunkingSpec => []ChunksFaithful
<1>1. ChunkInv => ChunksFaithful
  BY SizesHold, OrderHolds, SectionsHold, NothingIsLost, OverlapHolds DEF ChunksFaithful
<1>2. QED BY <1>1, InitInv, ChunkStep, PTL DEF ChunkingSpec
=============================================================================
