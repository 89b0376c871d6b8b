----------------------- MODULE PolicyIngestionProofs -----------------------
(***************************************************************************)
(* A policy is found as a whole or not at all, and its chunks overlap as   *)
(* configured: for documents of any length, any size of the chunks and any *)
(* overlap that is smaller, however calls of ingest overlap or fail.       *)
(*                                                                         *)
(* What the recursion of `chunk` computes is shown by induction, without   *)
(* the induction theorems of the library, which take an operator: a set    *)
(* stands for the predicate, and a least element of its complement for the *)
(* counterexample (Least, FromTheEnd).                                     *)
(***************************************************************************)
EXTENDS PolicyIngestion, SequenceTheorems, FiniteSetTheorems, WellFoundedInduction, TLAPS

\* Every set of natural numbers has a least element.
LEMMA Least ==
  ASSUME NEW T, T \subseteq Nat, T # {}
  PROVE  \E x \in T : \A y \in T : x <= y
<1>1. PICK x \in T : \A y \in T : <<y, x>> \notin OpToRel(<, Nat)
  BY WFMin, NatLessThanWellFounded
<1>2. \A y \in T : ~ (y < x)
  BY <1>1 DEF OpToRel
<1> QED
  BY <1>2

\* What holds of a number as soon as it holds of all greater ones, up to n,
\* holds of all.
LEMMA FromTheEnd ==
  ASSUME NEW n \in Nat, NEW G,
         \A k \in 0 .. n : (\A j \in k + 1 .. n : j \in G) => k \in G
  PROVE  \A k \in 0 .. n : k \in G
<1> DEFINE Bad == {m \in Nat : m <= n /\ n - m \notin G}
<1>1. ASSUME NEW k \in 0 .. n, k \notin G PROVE FALSE
  <2>1. n - k \in Nat /\ n - k <= n /\ n - (n - k) = k
    OBVIOUS
  <2>2. n - k \in Bad
    BY <2>1, <1>1
  <2>3. PICK m \in Bad : \A y \in Bad : m <= y
    <3>1. Bad \subseteq Nat /\ Bad # {}
      BY <2>2
    <3> HIDE DEF Bad
    <3> QED
      BY <3>1, Least
  <2>4. m \in Nat /\ m <= n /\ n - m \notin G
    OBVIOUS
  <2>5. ASSUME NEW j \in n - m + 1 .. n PROVE j \in G
    <3>1. n - j \in Nat /\ n - j <= n /\ n - (n - j) = j /\ ~ (m <= n - j)
      BY <2>4, <2>5
    <3>2. n - j \notin Bad
      BY <2>3, <3>1
    <3> QED
      BY <3>1, <3>2
  <2>6. n - m \in 0 .. n
    BY <2>4
  <2> QED
    BY <2>4, <2>5, <2>6
<1> QED
  BY <1>1

-----------------------------------------------------------------------------
(***************************************************************************)
(* The recursion of ChunksFrom.                                            *)
(***************************************************************************)
ChunkEnd(words, start) == IF start + ChunkSize < words THEN start + ChunkSize ELSE words

\* One step of the recursion, on what g has for later starts.
ChunksAt(g, words, start) ==
  LET end == IF start + ChunkSize < words THEN start + ChunkSize ELSE words
  IN  IF start = words THEN << >>
      ELSE <<[from |-> start, to |-> end]>> \o
           (IF end = words THEN << >> ELSE g[end - Overlap])

\* The end of a chunk comes after its start, and so does the next start.
LEMMA EndBounds ==
  ASSUME NEW words \in Nat, NEW start \in 0 .. words, start # words
  PROVE  /\ ChunkEnd(words, start) \in start + 1 .. words
         /\ ChunkEnd(words, start) <= start + ChunkSize
         /\ ChunkEnd(words, start) # words =>
              /\ ChunkEnd(words, start) = start + ChunkSize
              /\ ChunkEnd(words, start) - Overlap \in start + 1 .. words - 1
              /\ ChunkEnd(words, start) <
                   ChunkEnd(words, ChunkEnd(words, start) - Overlap)
  BY ChunkAssumption DEF ChunkEnd

\* A step looks at later starts only.
LEMMA StepLooksAhead ==
  ASSUME NEW words \in Nat, NEW start \in 0 .. words, NEW g, NEW h,
         \A x \in start + 1 .. words : g[x] = h[x]
  PROVE  ChunksAt(g, words, start) = ChunksAt(h, words, start)
<1>1. CASE start = words
  BY <1>1, Zenon DEF ChunksAt
<1>2. CASE start # words /\ ChunkEnd(words, start) = words
  BY <1>2, Zenon DEF ChunksAt, ChunkEnd
<1>3. CASE start # words /\ ChunkEnd(words, start) # words
  <2>1. ChunkEnd(words, start) - Overlap \in start + 1 .. words
    BY <1>3, EndBounds
  <2>2. g[ChunkEnd(words, start) - Overlap] = h[ChunkEnd(words, start) - Overlap]
    BY <2>1
  <2> QED
    BY <2>2, Zenon DEF ChunksAt, ChunkEnd
<1> QED
  BY <1>1, <1>2, <1>3

\* There is a function that solves the recursion.
LEMMA RecursionHasSolution ==
  ASSUME NEW words \in Nat
  PROVE  \E g : g = [start \in 0 .. words |-> ChunksAt(g, words, start)]
<1> DEFINE Solves(g, k) == \A start \in k .. words : g[start] = ChunksAt(g, words, start)
           G == {k \in 0 .. words : \E g : Solves(g, k)}
<1>1. ASSUME NEW k \in 0 .. words, \A j \in k + 1 .. words : j \in G
      PROVE  k \in G
  <2>1. \E g : \A start \in k + 1 .. words : g[start] = ChunksAt(g, words, start)
    <3>1. CASE k = words
      BY <3>1
    <3>2. CASE k # words
      <4>1. k + 1 \in G
        BY <3>2, <1>1
      <4> QED
        BY <4>1
    <3> QED
      BY <3>1, <3>2
  <2>2. PICK g : \A start \in k + 1 .. words : g[start] = ChunksAt(g, words, start)
    BY <2>1
  <2> DEFINE first == ChunksAt(g, words, k)
             h == [x \in 0 .. words |-> IF x = k THEN first ELSE g[x]]
  <2>3. /\ h[k] = first
        /\ \A x \in k + 1 .. words : h[x] = g[x]
    <3> HIDE DEF first
    <3> QED
      OBVIOUS
  <2>4. first = ChunksAt(g, words, k)
    OBVIOUS
  <2> HIDE DEF h, first
  <2>5. ASSUME NEW start \in k .. words PROVE h[start] = ChunksAt(h, words, start)
    <3>1. ChunksAt(g, words, start) = ChunksAt(h, words, start)
      <4>1. start \in 0 .. words /\ \A x \in start + 1 .. words : x \in k + 1 .. words
        OBVIOUS
      <4>2. \A x \in start + 1 .. words : g[x] = h[x]
        BY <4>1, <2>3
      <4> QED
        BY <4>1, <4>2, StepLooksAhead
    <3>2. CASE start = k
      BY <3>1, <3>2, <2>3, <2>4
    <3>3. CASE start # k
      <4>1. start \in k + 1 .. words
        BY <3>3
      <4> QED
        BY <4>1, <3>1, <2>2, <2>3
    <3> QED
      BY <3>2, <3>3
  <2> QED
    BY <2>5
<1>2. 0 \in G
  <2> HIDE DEF G
  <2>1. \A k \in 0 .. words : (\A j \in k + 1 .. words : j \in G) => k \in G
    BY <1>1
  <2>2. \A k \in 0 .. words : k \in G
    BY <2>1, FromTheEnd, Zenon
  <2> QED
    BY <2>2
<1>3. PICK g : Solves(g, 0)
  BY <1>2
<1> DEFINE f == [start \in 0 .. words |-> g[start]]
<1>4. \A start \in 0 .. words : f[start] = g[start]
  OBVIOUS
<1>5. ASSUME NEW start \in 0 .. words PROVE g[start] = ChunksAt(f, words, start)
  <2>1. \A x \in start + 1 .. words : g[x] = f[x]
    BY <1>4
  <2> HIDE DEF f
  <2>2. ChunksAt(g, words, start) = ChunksAt(f, words, start)
    BY <2>1, StepLooksAhead
  <2> QED
    BY <2>2, <1>3
<1>6. f = [start \in 0 .. words |-> ChunksAt(f, words, start)]
  BY <1>5, Zenon
<1> QED
  BY <1>6

\* So ChunksFrom does.
LEMMA ChunksFromStep ==
  ASSUME NEW words \in Nat
  PROVE  \A start \in 0 .. words :
           ChunksFrom(words)[start] = ChunksAt(ChunksFrom(words), words, start)
<1>1. PICK g : g = [start \in 0 .. words |-> ChunksAt(g, words, start)]
  BY RecursionHasSolution
<1>2. LET h == ChunksFrom(words)
      IN  h = [start \in 0 .. words |-> ChunksAt(h, words, start)]
  BY <1>1, Zenon DEF ChunksFrom, ChunksAt
<1> QED
  BY <1>2, Zenon

-----------------------------------------------------------------------------
(***************************************************************************)
(* What `chunk` returns.                                                   *)
(***************************************************************************)
\* The chunks s cut the words from start + 1 to the last: each is within the
\* size, each but the last has that size, each next one starts an overlap
\* before its end and goes beyond it.
CutFrom(words, start, s) ==
  /\ s \in Seq(Chunk) /\ Len(s) > 0
  /\ s[1] = [from |-> start, to |-> ChunkEnd(words, start)]
  /\ \A i \in 1 .. Len(s) :
       /\ s[i].from < s[i].to /\ s[i].to <= words
       /\ s[i].to <= s[i].from + ChunkSize
  /\ \A i \in 1 .. Len(s) - 1 :
       /\ s[i].to = s[i].from + ChunkSize
       /\ s[i + 1].from = s[i].to - Overlap
       /\ s[i].to < s[i + 1].to
  /\ UNION {Words(s[i]) : i \in 1 .. Len(s)} = start + 1 .. words

\* A sequence with one more element in front.
LEMMA Prepended ==
  ASSUME NEW S, NEW c \in S, NEW r \in Seq(S)
  PROVE  /\ <<c>> \o r \in Seq(S) /\ Len(<<c>> \o r) = Len(r) + 1
         /\ (<<c>> \o r)[1] = c
         /\ \A i \in 1 .. Len(r) : (<<c>> \o r)[i + 1] = r[i]
<1>1. <<c>> \in Seq(S) /\ Len(<<c>>) = 1 /\ <<c>>[1] = c /\ Len(r) \in Nat
  OBVIOUS
<1>2. /\ <<c>> \o r \in Seq(S) /\ Len(<<c>> \o r) = 1 + Len(r)
      /\ \A i \in 1 .. 1 + Len(r) :
           (<<c>> \o r)[i] = IF i <= 1 THEN <<c>>[i] ELSE r[i - 1]
  BY <1>1, ConcatProperties
<1> DEFINE s == <<c>> \o r
<1> HIDE DEF s
<1>3. \A i \in 1 .. 1 + Len(r) : s[i] = IF i <= 1 THEN <<c>>[i] ELSE r[i - 1]
  BY <1>2 DEF s
<1>4. s[1] = c /\ \A i \in 1 .. Len(r) : s[i + 1] = r[i]
  BY <1>1, <1>3
<1> QED
  BY <1>2, <1>4 DEF s

\* The last chunk is a cut of what is left.
LEMMA LastCuts ==
  ASSUME NEW words \in Nat, NEW start \in 0 .. words, start # words,
         ChunkEnd(words, start) = words
  PROVE  CutFrom(words, start, <<[from |-> start, to |-> words]>>)
<1> DEFINE c == [from |-> start, to |-> words]
           s == <<c>>
<1>1. c \in Chunk /\ c.from = start /\ c.to = words
  BY DEF Chunk
<1>2. start < words /\ words <= start + ChunkSize
  BY EndBounds
<1> HIDE DEF c
<1>3. s \in Seq(Chunk) /\ Len(s) = 1 /\ s[1] = c
  BY <1>1
<1> HIDE DEF s
<1>4. UNION {Words(s[i]) : i \in 1 .. Len(s)} = start + 1 .. words
  <2>1. \A i \in 1 .. Len(s) : i = 1
    BY <1>3
  <2>2. {Words(s[i]) : i \in 1 .. Len(s)} = {Words(c)}
    BY <2>1, <1>3
  <2>3. Words(c) = start + 1 .. words
    BY <1>1 DEF Words
  <2> QED
    BY <2>2, <2>3, Zenon
<1>5. s[1] = [from |-> start, to |-> ChunkEnd(words, start)]
  BY <1>3 DEF c
<1>6. CutFrom(words, start, s)
  <2>1. \A i \in 1 .. Len(s) : s[i].from < s[i].to /\ s[i].to <= words
                               /\ s[i].to <= s[i].from + ChunkSize
    BY <1>1, <1>2, <1>3
  <2>2. 1 .. Len(s) - 1 = {}
    BY <1>3
  <2> QED
    BY <1>3, <1>4, <1>5, <2>1, <2>2 DEF CutFrom
<1> QED
  BY <1>6 DEF s, c

\* A chunk before a cut of the rest is a cut.
LEMMA NextCuts ==
  ASSUME NEW words \in Nat, NEW start \in 0 .. words, start # words,
         ChunkEnd(words, start) # words,
         NEW r, CutFrom(words, ChunkEnd(words, start) - Overlap, r)
  PROVE  CutFrom(words, start, <<[from |-> start, to |-> ChunkEnd(words, start)]>> \o r)
<1> DEFINE end == ChunkEnd(words, start)
           c == [from |-> start, to |-> end]
           s == <<c>> \o r
<1>1. /\ end \in start + 1 .. words - 1 /\ end = start + ChunkSize
      /\ end - Overlap \in start + 1 .. words - 1
      /\ end < ChunkEnd(words, end - Overlap)
  BY EndBounds
<1>2. Overlap \in Nat /\ ChunkSize \in Nat
  BY ChunkAssumption
<1>3. /\ r \in Seq(Chunk) /\ Len(r) > 0
      /\ r[1] = [from |-> end - Overlap, to |-> ChunkEnd(words, end - Overlap)]
      /\ \A i \in 1 .. Len(r) :
           r[i].from < r[i].to /\ r[i].to <= words /\ r[i].to <= r[i].from + ChunkSize
      /\ \A i \in 1 .. Len(r) - 1 :
           /\ r[i].to = r[i].from + ChunkSize
           /\ r[i + 1].from = r[i].to - Overlap /\ r[i].to < r[i + 1].to
      /\ UNION {Words(r[i]) : i \in 1 .. Len(r)} = end - Overlap + 1 .. words
  BY DEF CutFrom
<1> HIDE DEF end
<1>4. c \in Chunk /\ c.from = start /\ c.to = end
  BY <1>1 DEF Chunk
<1>5. r[1].from = end - Overlap /\ end < r[1].to
  BY <1>1, <1>3
<1> HIDE DEF c
<1>6. /\ s \in Seq(Chunk) /\ Len(s) = Len(r) + 1 /\ s[1] = c /\ Len(r) \in Nat
      /\ \A i \in 1 .. Len(r) : s[i + 1] = r[i]
  BY <1>3, <1>4, Prepended
<1> HIDE DEF s
<1>7. \A i \in 2 .. Len(s) : i - 1 \in 1 .. Len(r) /\ s[i] = r[i - 1]
  <2>1. ASSUME NEW i \in 2 .. Len(s)
        PROVE  i - 1 \in 1 .. Len(r) /\ s[i] = r[i - 1]
    <3>1. i - 1 \in 1 .. Len(r) /\ (i - 1) + 1 = i
      BY <1>6
    <3>2. s[(i - 1) + 1] = r[i - 1]
      BY <3>1, <1>6
    <3> QED
      BY <3>1, <3>2
  <2> QED
    BY <2>1
<1>8. \A i \in 1 .. Len(s) :
        s[i].from < s[i].to /\ s[i].to <= words /\ s[i].to <= s[i].from + ChunkSize
  <2>1. s[1].from < s[1].to /\ s[1].to <= words /\ s[1].to <= s[1].from + ChunkSize
    BY <1>1, <1>4, <1>6
  <2>2. \A i \in 1 .. Len(s) : i = 1 \/ i \in 2 .. Len(s)
    BY <1>6
  <2> QED
    BY <2>1, <2>2, <1>3, <1>7
<1>9. \A i \in 1 .. Len(s) - 1 :
        /\ s[i].to = s[i].from + ChunkSize
        /\ s[i + 1].from = s[i].to - Overlap /\ s[i].to < s[i + 1].to
  <2>1. /\ s[1].to = s[1].from + ChunkSize
        /\ s[2].from = s[1].to - Overlap /\ s[1].to < s[2].to
    <3>1. 1 \in 1 .. Len(r) /\ 1 + 1 = 2
      BY <1>3, <1>6
    <3>2. s[2] = r[1]
      BY <3>1, <1>6
    <3> QED
      BY <3>2, <1>1, <1>4, <1>5, <1>6
  <2>2. ASSUME NEW i \in 2 .. Len(s) - 1
        PROVE  /\ s[i].to = s[i].from + ChunkSize
               /\ s[i + 1].from = s[i].to - Overlap /\ s[i].to < s[i + 1].to
    <3>1. i - 1 \in 1 .. Len(r) - 1 /\ i \in 2 .. Len(s) /\ i \in 1 .. Len(r) /\ (i - 1) + 1 = i
      BY <1>6
    <3>2. s[i] = r[i - 1] /\ s[i + 1] = r[i]
      BY <3>1, <1>6, <1>7
    <3>3. /\ r[i - 1].to = r[i - 1].from + ChunkSize
          /\ r[(i - 1) + 1].from = r[i - 1].to - Overlap /\ r[i - 1].to < r[(i - 1) + 1].to
      BY <3>1, <1>3
    <3> QED
      BY <3>1, <3>2, <3>3
  <2>3. \A i \in 1 .. Len(s) - 1 : i = 1 \/ i \in 2 .. Len(s) - 1
    BY <1>6
  <2> QED
    BY <2>1, <2>2, <2>3
<1>10. UNION {Words(s[i]) : i \in 1 .. Len(s)} = start + 1 .. words
  <2>1. {Words(s[i]) : i \in 1 .. Len(s)} = {Words(c)} \cup {Words(r[i]) : i \in 1 .. Len(r)}
    <3>1. ASSUME NEW i \in 1 .. Len(s)
          PROVE  Words(s[i]) \in {Words(c)} \cup {Words(r[j]) : j \in 1 .. Len(r)}
      <4>1. CASE i = 1
        BY <4>1, <1>6
      <4>2. CASE i # 1
        <5>1. i \in 2 .. Len(s)
          BY <4>2, <1>6
        <5> QED
          BY <5>1, <1>7
      <4> QED
        BY <4>1, <4>2
    <3>2. ASSUME NEW i \in 1 .. Len(r)
          PROVE  Words(r[i]) \in {Words(s[j]) : j \in 1 .. Len(s)}
      <4>1. i + 1 \in 1 .. Len(s) /\ s[i + 1] = r[i]
        BY <1>6
      <4> QED
        BY <4>1
    <3>3. Words(c) \in {Words(s[j]) : j \in 1 .. Len(s)}
      <4>1. 1 \in 1 .. Len(s)
        BY <1>6
      <4> QED
        BY <4>1, <1>6
    <3> QED
      BY <3>1, <3>2, <3>3
  <2>2. UNION {Words(s[i]) : i \in 1 .. Len(s)} = Words(c) \cup (end - Overlap + 1 .. words)
    <3>1. UNION ({Words(c)} \cup {Words(r[i]) : i \in 1 .. Len(r)})
            = Words(c) \cup UNION {Words(r[i]) : i \in 1 .. Len(r)}
      BY Zenon
    <3> QED
      BY <2>1, <3>1, <1>3, Zenon
  <2>3. Words(c) = start + 1 .. end
    BY <1>4 DEF Words
  <2>4. (start + 1 .. end) \cup (end - Overlap + 1 .. words) = start + 1 .. words
    BY <1>1, <1>2
  <2> QED
    BY <2>2, <2>3, <2>4
<1>11. s[1] = [from |-> start, to |-> ChunkEnd(words, start)]
  BY <1>6 DEF c, end
<1>12. CutFrom(words, start, s)
  BY <1>6, <1>3, <1>8, <1>9, <1>10, <1>11 DEF CutFrom
<1> QED
  BY <1>12 DEF s, c, end

\* PolicyIngestion.chunk cuts the words of a document.
LEMMA ChunksCut ==
  ASSUME NEW words \in Nat, words # 0
  PROVE  CutFrom(words, 0, Chunks(words))
<1> DEFINE f == ChunksFrom(words)
           G == {k \in 0 .. words : k # words => CutFrom(words, k, f[k])}
<1>1. ASSUME NEW k \in 0 .. words, \A j \in k + 1 .. words : j \in G
      PROVE  k \in G
  <2> SUFFICES ASSUME k # words PROVE CutFrom(words, k, f[k])
    OBVIOUS
  <2> DEFINE end == ChunkEnd(words, k)
  <2>1. f[k] = ChunksAt(f, words, k)
    BY ChunksFromStep
  <2>2. ChunksAt(f, words, k) =
          <<[from |-> k, to |-> end]>> \o (IF end = words THEN << >> ELSE f[end - Overlap])
    BY Zenon DEF ChunksAt, ChunkEnd
  <2>3. CASE end = words
    <3>1. <<[from |-> k, to |-> words]>> \o << >> = <<[from |-> k, to |-> words]>>
      <4>1. [from |-> k, to |-> words] \in Chunk
        BY DEF Chunk
      <4> QED
        BY <4>1, ConcatEmptySeq
    <3> QED
      BY <2>1, <2>2, <2>3, <3>1, LastCuts
  <2>4. CASE end # words
    <3>1. end - Overlap \in k + 1 .. words /\ end - Overlap # words
      BY <2>4, EndBounds
    <3>2. CutFrom(words, end - Overlap, f[end - Overlap])
      BY <3>1, <1>1
    <3>3. f[k] = <<[from |-> k, to |-> end]>> \o f[end - Overlap]
      BY <2>1, <2>2, <2>4
    <3> QED
      BY <2>4, <3>2, <3>3, NextCuts
  <2> QED
    BY <2>3, <2>4
<1>2. 0 \in G
  <2> HIDE DEF G
  <2>1. \A k \in 0 .. words : (\A j \in k + 1 .. words : j \in G) => k \in G
    BY <1>1
  <2>2. \A k \in 0 .. words : k \in G
    BY <2>1, FromTheEnd, Zenon
  <2> QED
    BY <2>2
<1> QED
  BY <1>2 DEF Chunks

-----------------------------------------------------------------------------
(***************************************************************************)
(* ingest: the chunks of a policy are all there, or none is.               *)
(***************************************************************************)
\* The row of a policy carries no chunks, or those of its words.
WholeOrNone(row) == row.chunks = << >> \/ row.chunks = Chunks(row.words)

\* A call works on the policy that it created, with its words.
WorksOn(call) ==
  /\ call.policy \in Policies /\ call.words \in Documents
  /\ policies[call.policy] # NoPolicy
  /\ policies[call.policy].words = call.words

RowsWhole ==
  /\ policies \in [Policies -> PolicyRow \cup {NoPolicy}]
  /\ \A p \in Policies : policies[p] # NoPolicy => WholeOrNone(policies[p])
IngestInv ==
  /\ RowsWhole
  /\ DOMAIN calls = Callers
  /\ \A c \in Callers : Working(c) => WorksOn(calls[c])

\* No call is taken for the absence of one, and no row for that of a policy.
LEMMA RowsAndCalls ==
  ASSUME NEW words \in Documents
  PROVE  /\ words \in Nat /\ words # 0
         /\ Chunks(words) \in Seq(Chunk)
         /\ \A meta \in Meta : LET row == [words |-> words, meta |-> meta, chunks |-> << >>]
                               IN  row \in PolicyRow /\ row # NoPolicy
<1>1. words \in Nat /\ words # 0
  BY DocumentsAssumption
<1>2. Chunks(words) \in Seq(Chunk)
  BY <1>1, ChunksCut DEF CutFrom
<1>3. << >> \in Seq(Chunk)
  OBVIOUS
<1>4. ASSUME NEW meta \in Meta
      PROVE  [words |-> words, meta |-> meta, chunks |-> << >>] \in PolicyRow
  BY <1>3 DEF PolicyRow
<1> QED
  BY <1>1, <1>2, <1>4, NoPolicyAssumption

\* The policy is committed first, as it is new, without chunks.
LEMMA CreateKeeps ==
  ASSUME IngestInv, NEW c \in Callers, NEW p \in Policies, NEW words \in Documents,
         NEW meta \in Meta, CreatePolicy(c, p, words, meta)
  PROVE  IngestInv'
<1> DEFINE row == [words |-> words, meta |-> meta, chunks |-> << >>]
           call == [policy |-> p, words |-> words, todo |-> Chunks(words)]
<1>1. row \in PolicyRow /\ row # NoPolicy /\ row.words = words /\ row.chunks = << >>
  BY RowsAndCalls
<1>2. call.policy = p /\ call.words = words
  OBVIOUS
<1>3. /\ policies' = [policies EXCEPT ![p] = row] /\ calls' = [calls EXCEPT ![c] = call]
      /\ policies[p] = NoPolicy
  BY DEF CreatePolicy
<1> HIDE DEF row, call
<1>4. RowsWhole'
  BY <1>1, <1>3 DEF IngestInv, RowsWhole, WholeOrNone
<1>5. DOMAIN calls' = Callers
  BY <1>3 DEF IngestInv
<1>6. ASSUME NEW d \in Callers, Working(d)' PROVE WorksOn(calls[d])'
  <2>1. CASE d = c
    <3>1. calls'[d] = call /\ policies'[p] = row
      BY <2>1, <1>3 DEF IngestInv, RowsWhole
    <3> QED
      BY <3>1, <1>1, <1>2 DEF WorksOn
  <2>2. CASE d # c
    <3>1. calls'[d] = calls[d]
      BY <2>2, <1>3 DEF IngestInv
    <3>2. WorksOn(calls[d])
      BY <1>6, <3>1 DEF Working, IngestInv
    <3>3. policies'[calls[d].policy] = policies[calls[d].policy]
      BY <3>2, <1>3 DEF WorksOn, IngestInv, RowsWhole
    <3> QED
      BY <3>1, <3>2, <3>3 DEF WorksOn
  <2> QED
    BY <2>1, <2>2
<1> QED
  BY <1>4, <1>5, <1>6 DEF IngestInv

\* What embeds, fails or is left alone changes no policy.
LEMMA CallsKeep ==
  ASSUME IngestInv, NEW c \in Callers, Embed(c) \/ IngestFails(c)
  PROVE  IngestInv'
<1>1. policies' = policies /\ DOMAIN calls' = Callers
  BY DEF Embed, IngestFails, IngestInv
<1>2. RowsWhole'
  BY <1>1 DEF IngestInv, RowsWhole, WholeOrNone
<1>3. ASSUME NEW d \in Callers, Working(d)' PROVE WorksOn(calls[d])'
  <2>1. CASE d = c /\ IngestFails(c)
    BY <2>1, <1>3 DEF IngestFails, IngestInv, Working, NoCall
  <2>2. CASE d = c /\ Embed(c)
    <3>1. calls'[d] = [calls[d] EXCEPT !.todo = Tail(@)] /\ WorksOn(calls[d])
      BY <2>2 DEF Embed, IngestInv
    <3>2. calls'[d].policy = calls[d].policy /\ calls'[d].words = calls[d].words
      BY <3>1
    <3> QED
      BY <3>1, <3>2, <1>1 DEF WorksOn
  <2>3. CASE d # c
    <3>1. calls'[d] = calls[d]
      BY <2>3 DEF Embed, IngestFails, IngestInv
    <3> QED
      BY <3>1, <1>1, <1>3 DEF WorksOn, Working, IngestInv
  <2> QED
    BY <2>1, <2>2, <2>3
<1> QED
  BY <1>1, <1>2, <1>3 DEF IngestInv

\* All chunks are committed at once, to the policy of the call.
LEMMA ReplaceKeeps ==
  ASSUME IngestInv, NEW c \in Callers, ReplaceChunks(c)
  PROVE  IngestInv'
<1> DEFINE p == calls[c].policy
           chunks == Chunks(calls[c].words)
           row == [policies[p] EXCEPT !.chunks = chunks]
<1>1. WorksOn(calls[c]) /\ p \in Policies
  BY DEF ReplaceChunks, IngestInv, WorksOn
<1>2. policies[p] \in PolicyRow /\ calls[c].words \in Documents
  BY <1>1 DEF WorksOn, IngestInv, RowsWhole
<1>3. chunks \in Seq(Chunk)
  BY <1>2, RowsAndCalls
<1>4. policies' = [policies EXCEPT ![p] = row] /\ calls' = [calls EXCEPT ![c] = NoCall]
  BY DEF ReplaceChunks
<1>5. chunks = Chunks(policies[p].words)
  BY <1>1 DEF WorksOn
<1> HIDE DEF p, chunks
<1>6. row \in PolicyRow /\ row.words = policies[p].words /\ row.chunks = chunks
  BY <1>2, <1>3 DEF PolicyRow
<1> HIDE DEF row
<1>7. RowsWhole'
  <2>1. policies' \in [Policies -> PolicyRow \cup {NoPolicy}]
    BY <1>4, <1>6 DEF IngestInv, RowsWhole
  <2>2. WholeOrNone(row)
    BY <1>5, <1>6 DEF WholeOrNone
  <2>3. ASSUME NEW q \in Policies, policies'[q] # NoPolicy PROVE WholeOrNone(policies'[q])
    BY <2>2, <2>3, <1>4 DEF IngestInv, RowsWhole
  <2> QED
    BY <2>1, <2>3 DEF RowsWhole, WholeOrNone
<1>8. ASSUME NEW d \in Callers, Working(d)' PROVE WorksOn(calls[d])'
  <2>1. d # c /\ calls'[d] = calls[d]
    BY <1>4, <1>8 DEF IngestInv, Working, NoCall
  <2>2. WorksOn(calls[d])
    BY <2>1, <1>8 DEF IngestInv, Working
  <2>3. row # NoPolicy
    BY <1>6, NoPolicyAssumption
  <2>4. /\ policies'[calls[d].policy] # NoPolicy
        /\ policies'[calls[d].policy].words = policies[calls[d].policy].words
    BY <2>2, <2>3, <1>1, <1>4, <1>6 DEF WorksOn, IngestInv, RowsWhole
  <2> QED
    BY <2>1, <2>2, <2>4 DEF WorksOn
<1> QED
  BY <1>4, <1>7, <1>8 DEF IngestInv

\* The invariant holds in every behaviour.
LEMMA IngestInvariant == IngestSpec => []IngestInv
<1>1. IngestInit => IngestInv
  BY DEF IngestInit, IngestInv, RowsWhole, Working
<1>2. IngestInv /\ [IngestNext]_ingestVars => IngestInv'
  <2> SUFFICES ASSUME IngestInv, [IngestNext]_ingestVars PROVE IngestInv'
    OBVIOUS
  <2>1. CASE UNCHANGED ingestVars
    BY <2>1 DEF ingestVars, IngestInv, RowsWhole, WholeOrNone, Working, WorksOn
  <2>2. CASE IngestNext
    BY <2>2, CreateKeeps, CallsKeep, ReplaceKeeps DEF IngestNext
  <2> QED
    BY <2>1, <2>2
<1> QED
  BY <1>1, <1>2, PTL DEF IngestSpec

\* What semantic search can return of a policy is all of its text or nothing,
\* for a document of any length and calls of ingest that overlap or fail.
THEOREM PoliciesAreFoundWhole == IngestSpec => []FoundWhole
<1>1. IngestInv => FoundWhole
  <2> SUFFICES ASSUME IngestInv, NEW p \in Policies, NEW unit,
                      Searchable(p, unit) # << >>
               PROVE  UNION {Words(Searchable(p, unit)[i]) : i \in DOMAIN Searchable(p, unit)}
                        = 1 .. policies[p].words
    BY Zenon DEF FoundWhole
  <2> DEFINE s == policies[p].chunks
             words == policies[p].words
  <2>1. Searchable(p, unit) = s /\ policies[p] # NoPolicy /\ s # << >>
    BY DEF Searchable
  <2>2. s = Chunks(words) /\ words \in Documents
    BY <2>1 DEF IngestInv, RowsWhole, WholeOrNone, PolicyRow
  <2>3. CutFrom(words, 0, s)
    BY <2>2, RowsAndCalls, ChunksCut
  <2> HIDE DEF s, words
  <2>4. DOMAIN s = 1 .. Len(s) /\ UNION {Words(s[i]) : i \in 1 .. Len(s)} = 0 + 1 .. words
    BY <2>3 DEF CutFrom
  <2>5. UNION {Words(s[i]) : i \in DOMAIN s} = 1 .. words
    BY <2>4
  <2> QED
    BY <2>1, <2>5 DEF words
<1> QED
  BY <1>1, IngestInvariant, PTL

\* Chunks of which each is within the size, and shares the overlap with the
\* next one, which goes on.
Overlapping(s) ==
  /\ \A i \in DOMAIN s : Cardinality(Words(s[i])) \in 1 .. ChunkSize
  /\ \A i \in 1 .. Len(s) - 1 :
       /\ Cardinality(Words(s[i]) \cap Words(s[i + 1])) = Overlap
       /\ ~ (Words(s[i + 1]) \subseteq Words(s[i]))

\* How many words are between two places, and which two spans share.
LEMMA SpanSize ==
  ASSUME NEW a \in Nat, NEW b \in Nat, a <= b
  PROVE  Cardinality(a + 1 .. b) = b - a
<1>1. a + 1 \in Int /\ b \in Int
  OBVIOUS
<1>2. Cardinality(a + 1 .. b) = IF a + 1 > b THEN 0 ELSE b - (a + 1) + 1
  BY <1>1, FS_Interval
<1> QED
  BY <1>2

\* The spans from a to b and from c to d share what is from c to b, and the
\* second goes on.
Shares(a, b, c, d) ==
  /\ (a + 1 .. b) \cap (c + 1 .. d) = c + 1 .. b
  /\ d \in c + 1 .. d /\ d \notin a + 1 .. b

\* So it is where the second begins within the first and ends after it.
LEMMA SpansShare ==
  ASSUME NEW a \in Nat, NEW b \in Nat, NEW c \in Nat, NEW d \in Nat,
         a <= c, c <= b, b < d
  PROVE  Shares(a, b, c, d)
  BY DEF Shares

\* Two chunks that follow each other share the overlap, and the second goes on.
LEMMA CutsShare ==
  ASSUME NEW words \in Nat, NEW s, CutFrom(words, 0, s)
  PROVE  Overlapping(s)
<1>0. s \in Seq(Chunk) /\ DOMAIN s = 1 .. Len(s) /\ Len(s) \in Nat
  <2>1. s \in Seq(Chunk)
    BY Zenon DEF CutFrom
  <2> QED
    BY <2>1
<1>1. ASSUME NEW i \in 1 .. Len(s) PROVE s[i].from \in Nat /\ s[i].to \in Nat
  <2>1. s[i] \in Chunk
    BY <1>0
  <2> QED
    BY <2>1 DEF Chunk
<1>2. Overlap \in Nat /\ ChunkSize \in Nat /\ Overlap < ChunkSize
  BY ChunkAssumption
<1>3. ASSUME NEW i \in 1 .. Len(s) PROVE Cardinality(Words(s[i])) \in 1 .. ChunkSize
  <2>1. /\ s[i].from \in Nat /\ s[i].to \in Nat
        /\ s[i].from < s[i].to /\ s[i].to <= s[i].from + ChunkSize
    BY <1>1, Zenon DEF CutFrom
  <2> DEFINE from == s[i].from
             to == s[i].to
  <2> HIDE DEF from, to
  <2>2. from \in Nat /\ to \in Nat /\ from < to /\ to <= from + ChunkSize
    BY <2>1, Zenon DEF from, to
  <2>3. Cardinality(from + 1 .. to) = to - from
    BY <2>2, SpanSize
  <2>4. Cardinality(from + 1 .. to) \in 1 .. ChunkSize
    BY <2>2, <2>3, <1>2
  <2> QED
    BY <2>4, Zenon DEF Words, from, to
<1>4. ASSUME NEW i \in 1 .. Len(s) - 1
      PROVE  /\ Cardinality(Words(s[i]) \cap Words(s[i + 1])) = Overlap
             /\ ~ (Words(s[i + 1]) \subseteq Words(s[i]))
  <2>1. i \in 1 .. Len(s) /\ i + 1 \in 1 .. Len(s)
    BY <1>0
  <2>2. /\ s[i].from \in Nat /\ s[i].to \in Nat /\ s[i + 1].from \in Nat /\ s[i + 1].to \in Nat
        /\ s[i].to = s[i].from + ChunkSize
        /\ s[i + 1].from = s[i].to - Overlap /\ s[i].to < s[i + 1].to
    BY <1>1, <2>1, Zenon DEF CutFrom
  <2> DEFINE a == s[i].from
             b == s[i].to
             c == s[i + 1].from
             d == s[i + 1].to
  <2> HIDE DEF a, b, c, d
  <2>3. /\ a \in Nat /\ b \in Nat /\ c \in Nat /\ d \in Nat
        /\ b = a + ChunkSize /\ c = b - Overlap /\ b < d
    BY <2>2, Zenon DEF a, b, c, d
  <2>4. a <= c /\ c <= b /\ b - c = Overlap
    BY <2>3, <1>2
  <2>5. Shares(a, b, c, d)
    BY <2>3, <2>4, SpansShare
  <2>6. Cardinality(c + 1 .. b) = b - c
    BY <2>3, <2>4, SpanSize, Zenon
  <2>7. Words(s[i]) = a + 1 .. b /\ Words(s[i + 1]) = c + 1 .. d
    BY Zenon DEF Words, a, b, c, d
  <2> QED
    BY <2>4, <2>5, <2>6, <2>7, Zenon DEF Shares
<1> QED
  BY <1>0, <1>3, <1>4, Zenon DEF Overlapping

\* PolicyIngestion.chunk: no chunk is longer than policy_chunk_size, and each
\* cut has policy_chunk_overlap words on both of its sides, whatever the
\* length of the document and the configuration.
THEOREM ChunksOverlapAsConfigured == IngestSpec => []CutsOverlap
<1>1. ASSUME IngestInv, NEW p \in Policies, policies[p] # NoPolicy
      PROVE  Overlapping(policies[p].chunks)
  <2> DEFINE s == policies[p].chunks
             words == policies[p].words
  <2>1. (s = << >> \/ s = Chunks(words)) /\ words \in Documents
    BY <1>1 DEF IngestInv, RowsWhole, WholeOrNone, PolicyRow
  <2> HIDE DEF s, words
  <2>2. CASE s = << >>
    <3>1. DOMAIN s = {} /\ 1 .. Len(s) - 1 = {}
      BY <2>2
    <3> QED
      BY <3>1 DEF s, Overlapping
  <2>3. CASE s = Chunks(words)
    <3>1. CutFrom(words, 0, s) /\ words \in Nat
      BY <2>1, <2>3, RowsAndCalls, ChunksCut
    <3> QED
      BY <3>1, CutsShare DEF s
  <2> QED
    BY <2>1, <2>2, <2>3
<1>2. IngestInv => CutsOverlap
  BY <1>1, Zenon DEF CutsOverlap, Overlapping
<1> QED
  BY <1>2, IngestInvariant, PTL

=============================================================================
