-------------------------- MODULE PolicyIngestion --------------------------
(***************************************************************************)
(* PolicyIngestion, PolicyRepository and the cache of EmbeddingService: a  *)
(* policy document is cut into chunks that overlap, and found by them.     *)
(*                                                                         *)
(* ingest commits the policy, then an embedding for each chunk that has    *)
(* none, then all the chunks at once.  A document is the number of its     *)
(* words, a chunk the range of words it holds; embeddings, and so scores,  *)
(* are left out: what is asked here is which chunks can be found at all.   *)
(***************************************************************************)
EXTENDS Integers, Sequences, FiniteSets

CONSTANTS
  Policies,    \* policy ids
  Documents,   \* how many words a document may have
  Callers,     \* the calls of ingest under way at a time
  ChunkSize,   \* policy_chunk_size
  Overlap,     \* policy_chunk_overlap
  Units,       \* business units
  AnyUnit,     \* business_unit is NULL, or not asked for
  NoPolicy

ASSUME DocumentsAssumption == Documents \subseteq Nat \ {0}
ASSUME ChunkAssumption == ChunkSize \in Nat /\ Overlap \in 0 .. ChunkSize - 1

VARIABLES
  policies,  \* policies[p]: the Policy row and its chunks
  embedded,  \* EmbeddingCache: the texts that have an embedding
  calls      \* calls[c]: the ingest that caller c works on

ingestVars == <<policies, embedded, calls>>

Chunk == [from : Nat, to : Nat]

\* What the search may filter by, of the fields that behave differently.
Meta == [active : BOOLEAN, inEffect : BOOLEAN, unit : Units \cup {AnyUnit}]

\* A Policy row, and the PolicyChunk rows that belong to it.
PolicyRow == [words : Documents, meta : Meta, chunks : Seq(Chunk)]

ASSUME NoPolicyAssumption == NoPolicy \notin PolicyRow

NoCall == [policy |-> NoPolicy, words |-> 0, todo |-> << >>]

IngestInit ==
  /\ policies = [p \in Policies |-> NoPolicy]
  /\ embedded = {}
  /\ calls = [c \in Callers |-> NoCall]

-----------------------------------------------------------------------------
\* Mutant of ChunksFrom: the next chunk begins where the last one ended, and
\* the overlap is taken off its end.
ChunksFromShort(words) ==
  LET f[start \in 0 .. words] ==
        LET end == IF start + ChunkSize < words THEN start + ChunkSize ELSE words
        IN  IF start = words THEN << >>
            ELSE <<[from |-> start, to |-> IF end = words THEN end ELSE end - Overlap]>> \o
                 (IF end = words THEN << >> ELSE f[end])
  IN  f

\* chunk, from a start on: the words start + 1 to end, and again from the
\* overlap, until the end is reached.
ChunksFrom(words) ==
  LET f[start \in 0 .. words] ==
        LET end == IF start + ChunkSize < words THEN start + ChunkSize ELSE words
        IN  IF start = words THEN << >>
            ELSE <<[from |-> start, to |-> end]>> \o
                 (IF end = words THEN << >> ELSE f[end - Overlap])
  IN  f

Chunks(words) == ChunksFrom(words)[0]

-----------------------------------------------------------------------------
Working(c) == calls[c] # NoCall

\* The policy is new, and its row is committed; policy_id is unique.
CreatePolicy(c, p, words, meta) ==
  /\ ~ Working(c) /\ policies[p] = NoPolicy
  /\ policies' = [policies EXCEPT ![p] = [words |-> words, meta |-> meta, chunks |-> << >>]]
  /\ calls' = [calls EXCEPT ![c] = [policy |-> p, words |-> words, todo |-> Chunks(words)]]
  /\ UNCHANGED embedded

\* embed_cached; equal texts share an entry.  Two documents are taken to have
\* the same words.
Embed(c) ==
  /\ Working(c) /\ calls[c].todo # << >>
  /\ embedded' = embedded \cup {Head(calls[c].todo)}
  /\ calls' = [calls EXCEPT ![c].todo = Tail(@)]
  /\ UNCHANGED policies

\* Mutant of ReplaceChunks: each chunk is committed with its embedding.
ReplaceChunksOneByOne(c) ==
  LET p == calls[c].policy
      n == Len(Chunks(calls[c].words)) - Len(calls[c].todo)
  IN  /\ Working(c) /\ n > Len(policies[p].chunks)
      /\ policies' = [policies EXCEPT ![p].chunks = SubSeq(Chunks(calls[c].words), 1, n)]
      /\ calls' = IF calls[c].todo = << >> THEN [calls EXCEPT ![c] = NoCall] ELSE calls
      /\ UNCHANGED embedded

\* replace_chunks: all in one commit, and the call returns.
ReplaceChunks(c) ==
  /\ Working(c) /\ calls[c].todo = << >>
  /\ policies' = [policies EXCEPT ![calls[c].policy].chunks = Chunks(calls[c].words)]
  /\ calls' = [calls EXCEPT ![c] = NoCall]
  /\ UNCHANGED embedded

\* The process ends, or another caller was first with the same text and its
\* entry is refused.  The policy stays, without chunks.
IngestFails(c) ==
  /\ Working(c)
  /\ calls' = [calls EXCEPT ![c] = NoCall]
  /\ UNCHANGED <<policies, embedded>>

IngestNext ==
  \E c \in Callers :
    \/ \E p \in Policies, words \in Documents, meta \in Meta : CreatePolicy(c, p, words, meta)
    \/ Embed(c) \/ ReplaceChunks(c) \/ IngestFails(c)

IngestSpec == IngestInit /\ [][IngestNext]_ingestVars

-----------------------------------------------------------------------------
\* searchable_chunks, of one policy.
Searchable(p, unit) ==
  IF /\ policies[p] # NoPolicy
     /\ policies[p].meta.active /\ policies[p].meta.inEffect
     /\ unit # AnyUnit => policies[p].meta.unit \in {AnyUnit, unit}
  THEN policies[p].chunks ELSE << >>

Words(chunk) == chunk.from + 1 .. chunk.to

\* What a search finds of a policy is its whole text, or, until the last
\* commit and for good after an interruption, nothing; never a part.
FoundWhole ==
  \A p \in Policies, unit \in Units \cup {AnyUnit} :
    LET found == Searchable(p, unit)
    IN  found # << >> =>
          UNION {Words(found[i]) : i \in DOMAIN found} = 1 .. policies[p].words

\* No chunk is longer than configured, and each cut has the words around it on
\* both of its sides.
CutsOverlap ==
  \A p \in Policies : policies[p] # NoPolicy =>
    LET Of(i) == Words(policies[p].chunks[i])
    IN  /\ \A i \in DOMAIN policies[p].chunks : Cardinality(Of(i)) \in 1 .. ChunkSize
        /\ \A i \in 1 .. Len(policies[p].chunks) - 1 :
             /\ Cardinality(Of(i) \cap Of(i + 1)) = Overlap
             /\ ~ (Of(i + 1) \subseteq Of(i))

=============================================================================
