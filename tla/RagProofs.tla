----------------------------- MODULE RagProofs -----------------------------
(***************************************************************************)
(* What the knowledge base keeps, finds and cites, for documents, texts,   *)
(* sizes and limits of any number.                                         *)
(*                                                                         *)
(* Chunking.  The buffer is always the stretch of units that ends before   *)
(* the next one, and a carry is the end of it (BufferInv); every unit      *)
(* already taken is in a chunk or in the buffer (Covered).  Both need that *)
(* the chunk just flushed is what the buffer still holds (FlushedInv).     *)
(* The chunks are excerpts in order because a carry ends where the chunk   *)
(* ended (ExcerptInv), and the last of them is never a fragment because    *)
(* before the last one the split has taken less than the target of each    *)
(* (FillInv).                                                              *)
(*                                                                         *)
(* The store.  OneTextPerDocument is inductive once it is known that the   *)
(* document whose old vectors are gone has none at all (Emptied).  That a  *)
(* passed document stays as it was read needs also that one ingestion      *)
(* never meets a document twice (LoadedOnce), which the distinct rows of   *)
(* INDEX.md give.                                                          *)
(*                                                                         *)
(* The answer.  The documents found and the context assembled from them    *)
(* are folds: after k hits, or k documents, they are what k steps make of  *)
(* the empty one (FoldLemmas), and every step keeps what AnswerIsGrounded  *)
(* says of the answer.                                                     *)
(*                                                                         *)
(* Chunker's Init, Next, Spec, TypeOK and vars are prefixed, so that one   *)
(* module can extend both components.                                      *)
(***************************************************************************)
EXTENDS Chunker, KnowledgeBase, FoldLemmas, SequenceTheorems, FiniteSetTheorems, TLAPS

\* content is the stretch of a document's units that ends at position last.
Stretch(document, content, last) ==
    /\ Len(content) <= last
    /\ \A i \in 1 .. Len(content) : content[i] = document[last - Len(content) + i]

\* One of the chunks holds the unit.
HeldBy(result, unit) == \E k \in 1 .. Len(result) : unit \in UnitsIn(result[k].content)

Looping == {"unit", "append", "carry"}

\* What the types rest on: there is a unit to append, and the carry is not past the buffer's start.
PlaceInv ==
    /\ (pc = "append" \/ (pc = "carry" /\ resume = "append")) => next <= Len(units)
    /\ pc = "carry" => Len(carry) <= Len(buffer)

TypeInv == ChunkTypeOK /\ PlaceInv

BufferInv ==
    /\ pc \in {"build", "size"} => next = 1 /\ buffer = <<>> /\ chunks = <<>>
    /\ pc \in Looping => Stretch(units, buffer, next - 1)

FlushedInv ==
    pc = "carry" =>
        /\ Stretch(units, carry, next - 1)
        /\ Len(chunks) > 0
        /\ chunks[Len(chunks)].content = buffer

Covered ==
    /\ pc \in Looping =>
        \A i \in 1 .. next - 1 : i > next - 1 - Len(buffer) \/ HeldBy(chunks, units[i])
    /\ pc \in {"merge", "done"} => \A i \in 1 .. Len(units) : HeldBy(chunks, units[i])

CoverInv == BufferInv /\ FlushedInv /\ Covered

-----------------------------------------------------------------------------
(* Chunks *)

(* A chunk that is cut is a chunk, numbered next (flush). *)
LEMMA NewChunkFacts ==
    ASSUME NEW content \in Seq(Unit), NEW tokens \in Nat, chunks \in Seq(Chunk)
    PROVE  /\ NewChunk(content, tokens) \in Chunk
           /\ NewChunk(content, tokens).content = content
           /\ NewChunk(content, tokens).index = Len(chunks)
           /\ NewChunk(content, tokens).section = HeadingsOf(content)
<1>1. HeadingsOf(content) \in SUBSET Headings
    <2>1. \A i \in 1 .. Len(content) : content[i] \in Unit
        OBVIOUS
    <2>2. \A u \in Unit : u.heading \in Headings
        BY DEF Unit
    <2> QED  BY <2>1, <2>2 DEF HeadingsOf
<1>2. Len(chunks) \in Nat
    OBVIOUS
<1> QED  BY <1>1, <1>2 DEF NewChunk, Chunk, JoinHeadings

(* The headings of two texts, one after the other. *)
LEMMA HeadingsOfBoth ==
    ASSUME NEW a \in Seq(Unit), NEW b \in Seq(Unit)
    PROVE  HeadingsOf(a \o b) = HeadingsOf(a) \cup HeadingsOf(b)
<1>1. /\ Len(a) \in Nat /\ Len(b) \in Nat /\ Len(a \o b) = Len(a) + Len(b)
      /\ \A i \in 1 .. Len(a) : (a \o b)[i] = a[i]
      /\ \A i \in 1 .. Len(b) : (a \o b)[Len(a) + i] = b[i]
    OBVIOUS
<1>2. ASSUME NEW h \in HeadingsOf(a \o b) PROVE h \in HeadingsOf(a) \cup HeadingsOf(b)
    <2>1. PICK i \in 1 .. Len(a \o b) : h = (a \o b)[i].heading
        BY <1>2 DEF HeadingsOf
    <2>2. CASE i <= Len(a)
        <3>1. i \in 1 .. Len(a)
            BY <1>1, <2>2
        <3> QED  BY <1>1, <2>1, <3>1 DEF HeadingsOf
    <2>3. CASE i > Len(a)
        <3>1. i - Len(a) \in 1 .. Len(b) /\ i = Len(a) + (i - Len(a))
            BY <1>1, <2>3
        <3>2. (a \o b)[i] = b[i - Len(a)]
            BY <1>1, <3>1
        <3> QED  BY <2>1, <3>1, <3>2 DEF HeadingsOf
    <2> QED  BY <1>1, <2>2, <2>3
<1>3. ASSUME NEW h \in HeadingsOf(a) PROVE h \in HeadingsOf(a \o b)
    <2>1. PICK i \in 1 .. Len(a) : h = a[i].heading
        BY <1>3 DEF HeadingsOf
    <2>2. i \in 1 .. Len(a \o b)
        BY <1>1
    <2> QED  BY <1>1, <2>1, <2>2 DEF HeadingsOf
<1>4. ASSUME NEW h \in HeadingsOf(b) PROVE h \in HeadingsOf(a \o b)
    <2>1. PICK i \in 1 .. Len(b) : h = b[i].heading
        BY <1>4 DEF HeadingsOf
    <2>2. Len(a) + i \in 1 .. Len(a \o b)
        BY <1>1
    <2> QED  BY <1>1, <2>1, <2>2 DEF HeadingsOf
<1> QED  BY <1>2, <1>3, <1>4

(* Every unit of either text is in the two together. *)
LEMMA UnitsInBoth ==
    ASSUME NEW a \in Seq(Unit), NEW b \in Seq(Unit)
    PROVE  UnitsIn(a) \subseteq UnitsIn(a \o b) /\ UnitsIn(b) \subseteq UnitsIn(a \o b)
<1>1. /\ Len(a) \in Nat /\ Len(b) \in Nat /\ Len(a \o b) = Len(a) + Len(b)
      /\ \A i \in 1 .. Len(a) : (a \o b)[i] = a[i]
      /\ \A i \in 1 .. Len(b) : (a \o b)[Len(a) + i] = b[i]
    OBVIOUS
<1>2. ASSUME NEW u \in UnitsIn(a) PROVE u \in UnitsIn(a \o b)
    <2>1. PICK i \in 1 .. Len(a) : u = a[i]
        BY <1>2 DEF UnitsIn
    <2>2. i \in 1 .. Len(a \o b)
        BY <1>1
    <2> QED  BY <1>1, <2>1, <2>2 DEF UnitsIn
<1>3. ASSUME NEW u \in UnitsIn(b) PROVE u \in UnitsIn(a \o b)
    <2>1. PICK i \in 1 .. Len(b) : u = b[i]
        BY <1>3 DEF UnitsIn
    <2>2. Len(a) + i \in 1 .. Len(a \o b)
        BY <1>1
    <2> QED  BY <1>1, <2>1, <2>2 DEF UnitsIn
<1> QED  BY <1>2, <1>3

-----------------------------------------------------------------------------
(* Types *)

LEMMA TypeStep ==
    ASSUME paragraphs' \in Seq(Paragraph), units' \in Seq(Unit), buffer' \in Seq(Unit),
           carry' \in Seq(Unit), total' \in Nat, bufferTokens' \in Nat, carryTokens' \in Nat,
           next' \in 1 .. Len(units') + 1, remaining' \in Nat, target' \in Nat,
           chunks' \in Seq(Chunk),
           pc' \in {"build", "size", "unit", "append", "carry", "merge", "done"},
           resume' \in {"unit", "append"}
    PROVE  ChunkTypeOK'
BY DEF ChunkTypeOK, Paragraph, Unit, Chunk

(* A paragraph's units, in one piece or by its sentences. *)
LEMMA UnitsOfType ==
    ASSUME NEW paragraph \in Paragraph, units \in Seq(Unit)
    PROVE  UnitsOf(paragraph) \in Seq(Unit)
<1>1. paragraph.tokens \in Nat /\ paragraph.sentences \in Seq(Nat) /\ paragraph.heading \in Headings
    BY DEF Paragraph
<1>2. Lengths(paragraph) \in Seq(Nat)
    BY <1>1 DEF Lengths
<1>3. /\ Len(Lengths(paragraph)) \in Nat /\ Len(units) \in Nat
      /\ \A i \in 1 .. Len(Lengths(paragraph)) : Lengths(paragraph)[i] \in Nat
    BY <1>2
<1>4. \A i \in 1 .. Len(Lengths(paragraph)) :
        [at |-> Len(units) + i, heading |-> paragraph.heading, tokens |-> Lengths(paragraph)[i]] \in Unit
    BY <1>1, <1>3 DEF Unit
<1> QED  BY <1>3, <1>4 DEF UnitsOf

(* (-(-a // b)) is a number, *)
LEMMA CeilDivType ==
    ASSUME NEW a \in Nat, NEW b \in Nat \ {0}
    PROVE  CeilDiv(a, b) \in Nat
BY DEF CeilDiv

(* so is the target within its limits, *)
LEMMA LimitType ==
    ASSUME NEW a \in Nat, NEW b \in Nat
    PROVE  Larger(a, b) \in Nat /\ Smaller(a, b) \in Nat /\ Larger(a, b) >= a
BY DEF Larger, Smaller

(* and the number of chunks that are planned. *)
LEMMA PlannedType ==
    ASSUME ChunkTypeOK
    PROVE  PlannedChunks \in Nat /\ PlannedChunks >= 2
<1>1. CeilDiv(total, TargetChunkTokens) \in Nat
    BY ChunkerAssumption, CeilDivType DEF ChunkTypeOK
<1>2. \A b \in Nat : Larger(2, b) \in Nat /\ Larger(2, b) >= 2
    BY LimitType
<1> QED  BY <1>1, <1>2 DEF PlannedChunks

(* The units and lengths that a step of the loop works on have their types. *)
LEMMA UnitTypes ==
    ASSUME ChunkTypeOK, next <= Len(units)
    PROVE  /\ units[next] \in Unit /\ units[next].tokens \in Nat
           /\ WithUnit \in Seq(Unit) /\ Len(WithUnit) = Len(buffer) + 1
<1>1. next \in 1 .. Len(units)
    BY DEF ChunkTypeOK
<1>2. units[next] \in Unit
    BY <1>1 DEF ChunkTypeOK
<1> QED  BY <1>2 DEF ChunkTypeOK, WithUnit, Unit

(* What flush leaves has its type. *)
LEMMA FlushTypes ==
    ASSUME ChunkTypeOK, NEW content \in Seq(Unit), NEW tokens \in Nat, NEW after \in {"unit", "append"},
           remaining > 1, Flush(content, tokens, after)
    PROVE  /\ chunks' \in Seq(Chunk) /\ Len(chunks') = Len(chunks) + 1
           /\ chunks'[Len(chunks')] = NewChunk(content, tokens)
           /\ \A k \in 1 .. Len(chunks) : chunks'[k] = chunks[k]
           /\ remaining' \in Nat /\ buffer' = content /\ bufferTokens' = tokens
           /\ carry' = <<>> /\ carry' \in Seq(Unit) /\ carryTokens' = 0
           /\ pc' = "carry" /\ resume' = after
<1>1. NewChunk(content, tokens) \in Chunk
    BY NewChunkFacts DEF ChunkTypeOK
<1>2. remaining' \in Nat
    BY DEF Flush, ChunkTypeOK
<1>3. chunks \in Seq(Chunk) /\ chunks' = Append(chunks, NewChunk(content, tokens))
    BY DEF Flush, ChunkTypeOK
<1>4. /\ chunks' \in Seq(Chunk) /\ Len(chunks') = Len(chunks) + 1
      /\ chunks'[Len(chunks')] = NewChunk(content, tokens)
      /\ \A k \in 1 .. Len(chunks) : chunks'[k] = chunks[k]
    BY <1>1, <1>3
<1> QED  BY <1>2, <1>4 DEF Flush

(* So has the chunk that two become. *)
LEMMA MergedType ==
    ASSUME NEW prev \in Chunk, NEW last \in Chunk
    PROVE  Merged(prev, last) \in Chunk
<1>1. /\ prev.index \in Nat /\ prev.section \in SUBSET Headings /\ last.section \in SUBSET Headings
      /\ prev.content \in Seq(Unit) /\ last.content \in Seq(Unit)
      /\ prev.tokens \in Nat /\ last.tokens \in Nat
    BY DEF Chunk
<1>2. prev.content \o last.content \in Seq(Unit) /\ prev.tokens + last.tokens \in Nat
      /\ prev.section \cup last.section \in SUBSET Headings
    BY <1>1
<1> QED  BY <1>1, <1>2 DEF Merged, Chunk

(* What the final merge leaves: the chunks as they are, or all but two and the last two in one. *)
LEMMA MergeFacts ==
    ASSUME ChunkTypeOK, MergeLast
    PROVE  \/ chunks' = chunks
           \/ /\ Len(chunks) > 1 /\ chunks' \in Seq(Chunk) /\ Len(chunks') = Len(chunks) - 1
              /\ \A k \in 1 .. Len(chunks) - 2 : chunks'[k] = chunks[k]
              /\ chunks'[Len(chunks) - 1] = Merged(chunks[Len(chunks) - 1], chunks[Len(chunks)])
<1> DEFINE n == Len(chunks)
           merged == Merged(chunks[n - 1], chunks[n])
<1>1. chunks \in Seq(Chunk) /\ n \in Nat
    BY DEF ChunkTypeOK
<1>2. CASE chunks' = chunks
    BY <1>2
<1>3. CASE n > 1 /\ chunks' = Append(SubSeq(chunks, 1, n - 2), merged)
    <2>1. n - 1 \in 1 .. n /\ n \in 1 .. n
        BY <1>1, <1>3
    <2>2. merged \in Chunk
        BY <1>1, <2>1, MergedType
    <2>3. /\ SubSeq(chunks, 1, n - 2) \in Seq(Chunk) /\ Len(SubSeq(chunks, 1, n - 2)) = n - 2
          /\ \A k \in 1 .. n - 2 : SubSeq(chunks, 1, n - 2)[k] = chunks[k]
        <3> HIDE DEF n, merged
        <3>1. n - 2 \in Nat /\ \A k \in 1 .. n - 2 : chunks[k] \in Chunk
            BY <1>1, <1>3 DEF n
        <3>2. /\ SubSeq(chunks, 1, n - 2) \in Seq(Chunk)
              /\ Len(SubSeq(chunks, 1, n - 2)) = (IF 1 <= n - 2 THEN n - 2 - 1 + 1 ELSE 0)
              /\ \A k \in 1 .. n - 2 - 1 + 1 : SubSeq(chunks, 1, n - 2)[k] = chunks[1 + k - 1]
            BY <3>1, SubSeqProperties
        <3>3. n - 2 - 1 + 1 = n - 2 /\ \A k \in 1 .. n - 2 : 1 + k - 1 = k
            BY <3>1
        <3> QED  BY <3>1, <3>2, <3>3
    <2> HIDE DEF n, merged
    <2>4. /\ chunks' \in Seq(Chunk) /\ Len(chunks') = n - 1
          /\ \A k \in 1 .. n - 2 : chunks'[k] = chunks[k]
          /\ chunks'[n - 1] = merged
        BY <1>1, <1>3, <2>2, <2>3
    <2> QED  BY <1>3, <2>4 DEF n, merged
<1> QED  BY <1>2, <1>3 DEF MergeLast

-----------------------------------------------------------------------------

LEMMA TypeInvInit == ChunkInit => TypeInv
<1> SUFFICES ASSUME ChunkInit PROVE TypeInv
    OBVIOUS
<1>1. paragraphs \in Seq(Paragraph)
    BY ChunkerAssumption DEF ChunkInit
<1>2. PlaceInv
    BY DEF ChunkInit, PlaceInv
<1> QED  BY <1>1, <1>2 DEF ChunkInit, ChunkTypeOK, TypeInv

LEMMA TypeInvNext == TypeInv /\ [ChunkNext]_chunkVars => TypeInv'
<1> SUFFICES ASSUME TypeInv, [ChunkNext]_chunkVars PROVE TypeInv'
    OBVIOUS
<1>t. ChunkTypeOK /\ PlaceInv
    BY DEF TypeInv
<1>1. CASE BuildUnits
    <2>1. Head(paragraphs) \in Paragraph /\ Tail(paragraphs) \in Seq(Paragraph)
        BY <1>1, <1>t DEF BuildUnits, ChunkTypeOK
    <2>2. UnitsOf(Head(paragraphs)) \in Seq(Unit) /\ Head(paragraphs).tokens \in Nat
        BY <1>t, <2>1, UnitsOfType DEF ChunkTypeOK, Paragraph
    <2>3. units' \in Seq(Unit) /\ Len(units') >= Len(units) /\ total' \in Nat
        BY <1>1, <1>t, <2>2 DEF BuildUnits, ChunkTypeOK
    <2>4. next' \in 1 .. Len(units') + 1
        BY <1>1, <1>t, <2>3 DEF BuildUnits, ChunkTypeOK
    <2>5. ChunkTypeOK'
        BY <1>1, <1>t, <2>1, <2>3, <2>4, TypeStep DEF BuildUnits, ChunkTypeOK
    <2>6. PlaceInv'
        BY <1>1 DEF BuildUnits, PlaceInv
    <2> QED  BY <2>5, <2>6 DEF TypeInv
<1>2. CASE Built
    <2>1. ChunkTypeOK'
        BY <1>2, <1>t, TypeStep DEF Built, ChunkTypeOK
    <2>2. PlaceInv'
        BY <1>2 DEF Built, PlaceInv
    <2> QED  BY <2>1, <2>2 DEF TypeInv
<1>3. CASE WholeDocument
    <2>1. NewChunk(units, total) \in Chunk
        BY <1>t, NewChunkFacts DEF ChunkTypeOK
    <2>2. chunks' \in Seq(Chunk) /\ next' \in 1 .. Len(units') + 1
        BY <1>3, <1>t, <2>1 DEF WholeDocument, ChunkTypeOK
    <2>3. ChunkTypeOK'
        BY <1>3, <1>t, <2>2, TypeStep DEF WholeDocument, ChunkTypeOK
    <2>4. PlaceInv'
        BY <1>3 DEF WholeDocument, PlaceInv
    <2> QED  BY <2>3, <2>4 DEF TypeInv
<1>4. CASE PreSize
    <2> DEFINE n == PlannedChunks
    <2>2. n \in Nat \ {0}
        BY <1>t, PlannedType
    <2>3. CeilDiv(total, n) \in Nat
        BY <1>t, <2>2, CeilDivType DEF ChunkTypeOK
    <2>4. Smaller(MaxChunkTokens, CeilDiv(total, n)) \in Nat
        BY <2>3, LimitType, ChunkerAssumption
    <2>5. Larger(MinChunkTokens, Smaller(MaxChunkTokens, CeilDiv(total, n))) \in Nat
        BY <2>4, LimitType, ChunkerAssumption
    <2>6. remaining' \in Nat /\ target' \in Nat
        BY <1>4, <2>2, <2>5 DEF PreSize
    <2>7. ChunkTypeOK'
        BY <1>4, <1>t, <2>6, TypeStep DEF PreSize, ChunkTypeOK
    <2>8. PlaceInv'
        BY <1>4 DEF PreSize, PlaceInv
    <2> QED  BY <2>7, <2>8 DEF TypeInv
<1>5. CASE FlushFirst
    <2>1. /\ Flush(buffer, bufferTokens, "append") /\ remaining > 1
          /\ buffer \in Seq(Unit) /\ bufferTokens \in Nat
        BY <1>5, <1>t DEF FlushFirst, Overflows, ChunkTypeOK
    <2>2. ChunkTypeOK'
        BY <1>5, <1>t, <2>1, FlushTypes, TypeStep DEF FlushFirst, ChunkTypeOK
    <2>3. PlaceInv'
        BY <1>5, <1>t, <2>1, FlushTypes DEF FlushFirst, PlaceInv
    <2> QED  BY <2>2, <2>3 DEF TypeInv
<1>6. CASE AppendUnit
    <2>1. next <= Len(units) /\ next' = next + 1 /\ units' = units /\ paragraphs' = paragraphs
          /\ total' = total /\ target' = target
        BY <1>6, <1>t DEF AppendUnit, PlaceInv
    <2>2. units[next].tokens \in Nat /\ WithUnit \in Seq(Unit)
        BY <1>t, <2>1, UnitTypes
    <2> DEFINE tokens == bufferTokens + units[next].tokens
    <2>3. tokens \in Nat /\ next' \in 1 .. Len(units') + 1
        BY <1>t, <2>1, <2>2 DEF ChunkTypeOK
    <2>4. CASE ReachesTarget(tokens)
        <3>1. Flush(WithUnit, tokens, "unit") /\ remaining > 1
            BY <1>6, <2>4 DEF AppendUnit, ReachesTarget
        <3> HIDE DEF tokens
        <3>2. /\ chunks' \in Seq(Chunk) /\ remaining' \in Nat
              /\ buffer' = WithUnit /\ bufferTokens' = tokens
              /\ carry' \in Seq(Unit) /\ carryTokens' = 0
              /\ pc' = "carry" /\ resume' = "unit"
            BY <1>t, <2>2, <2>3, <3>1, FlushTypes
        <3>4. /\ paragraphs' \in Seq(Paragraph) /\ units' \in Seq(Unit)
              /\ total' \in Nat /\ target' \in Nat
            BY <1>t, <2>1 DEF ChunkTypeOK
        <3>5. ChunkTypeOK'
            BY <2>2, <2>3, <3>2, <3>4, TypeStep
        <3>3. PlaceInv'
            BY <3>2, <1>t, <2>2, <2>3, <3>1, FlushTypes DEF PlaceInv
        <3> QED  BY <3>3, <3>5 DEF TypeInv
    <2>5. CASE ~ReachesTarget(tokens)
        <3>1. /\ buffer' = WithUnit /\ bufferTokens' = tokens /\ pc' = "unit"
              /\ UNCHANGED <<carry, carryTokens, remaining, chunks, resume>>
            BY <1>6, <2>5 DEF AppendUnit
        <3> HIDE DEF tokens
        <3>2. ChunkTypeOK'
            BY <1>t, <2>1, <2>2, <2>3, <3>1, TypeStep DEF ChunkTypeOK
        <3>3. PlaceInv'
            BY <3>1 DEF PlaceInv
        <3> QED  BY <3>2, <3>3 DEF TypeInv
    <2> QED  BY <2>4, <2>5
<1>7. CASE FlushLast
    <2>1. NewChunk(buffer, bufferTokens) \in Chunk
        BY <1>t, NewChunkFacts DEF ChunkTypeOK
    <2>2. chunks' \in Seq(Chunk)
        BY <1>7, <1>t, <2>1 DEF FlushLast, ChunkTypeOK
    <2>3. ChunkTypeOK'
        BY <1>7, <1>t, <2>2, TypeStep DEF FlushLast, ChunkTypeOK
    <2>4. PlaceInv'
        BY <1>7 DEF FlushLast, PlaceInv
    <2> QED  BY <2>3, <2>4 DEF TypeInv
<1>8. CASE CarryUnit
    <2>1. Len(buffer) - Len(carry) \in 1 .. Len(buffer)
        BY <1>8, <1>t DEF CarryUnit, CarryLooksOn, ChunkTypeOK
    <2>2. Trailing \in Unit /\ Trailing.tokens \in Nat
        <3>1. Trailing \in Unit
            BY <1>t, <2>1 DEF Trailing, ChunkTypeOK
        <3> QED  BY <3>1 DEF Unit
    <2>3. LongerCarry \in Seq(Unit) /\ Len(LongerCarry) = Len(carry) + 1
        BY <1>t, <2>2 DEF LongerCarry, ChunkTypeOK
    <2>4. carryTokens' \in Nat
        BY <1>8, <1>t, <2>2 DEF CarryUnit, ChunkTypeOK
    <2>5. ChunkTypeOK'
        BY <1>8, <1>t, <2>3, <2>4, TypeStep DEF CarryUnit, ChunkTypeOK
    <2>6. PlaceInv'
        BY <1>8, <1>t, <2>1, <2>3 DEF CarryUnit, PlaceInv, ChunkTypeOK
    <2> QED  BY <2>5, <2>6 DEF TypeInv
<1>9. CASE Carried
    <2>1. ChunkTypeOK'
        BY <1>9, <1>t, TypeStep DEF Carried, ChunkTypeOK
    <2>2. PlaceInv'
        BY <1>9, <1>t DEF Carried, PlaceInv, ChunkTypeOK
    <2> QED  BY <2>1, <2>2 DEF TypeInv
<1>10. CASE MergeLast
    <2>1. chunks' \in Seq(Chunk)
        BY <1>10, <1>t, MergeFacts DEF ChunkTypeOK
    <2>2. ChunkTypeOK'
        BY <1>10, <1>t, <2>1, TypeStep DEF MergeLast, ChunkTypeOK
    <2>3. PlaceInv'
        BY <1>10 DEF MergeLast, PlaceInv
    <2> QED  BY <2>2, <2>3 DEF TypeInv
<1>11. CASE UNCHANGED chunkVars
    BY <1>11 DEF chunkVars, TypeInv, ChunkTypeOK, PlaceInv, Paragraph, Unit, Chunk
<1> QED  BY <1>1, <1>2, <1>3, <1>4, <1>5, <1>6, <1>7, <1>8, <1>9, <1>10, <1>11 DEF ChunkNext

LEMMA TypeInvAlways == ChunkSpec => []TypeInv
<1> QED  BY TypeInvInit, TypeInvNext, PTL DEF ChunkSpec

(* Every variable keeps its type; remaining_chunks never runs out while chunks are cut. *)
THEOREM ChunkTypeCorrect == ChunkSpec => []ChunkTypeOK
<1>1. TypeInv => ChunkTypeOK
    BY DEF TypeInv
<1> QED  BY <1>1, TypeInvAlways, PTL

-----------------------------------------------------------------------------
(* Nothing is lost *)

(* What a stretch holds, the chunk made of it holds. *)
LEMMA StretchIsHeld ==
    ASSUME NEW document, NEW content \in Seq(Unit), NEW last \in Nat, Stretch(document, content, last),
           NEW result \in Seq(Chunk), NEW k \in 1 .. Len(result), result[k].content = content,
           NEW i \in Nat, i > last - Len(content), i <= last
    PROVE  HeldBy(result, document[i])
<1>1. Len(content) \in Nat
    OBVIOUS
<1>2. i - (last - Len(content)) \in 1 .. Len(content)
    BY <1>1
<1>3. content[i - (last - Len(content))] = document[i]
    BY <1>1, <1>2 DEF Stretch
<1> QED  BY <1>2, <1>3 DEF HeldBy, UnitsIn

(* A further chunk takes nothing away. *)
LEMMA HeldStaysHeld ==
    ASSUME NEW result \in Seq(Chunk), NEW longer \in Seq(Chunk), Len(longer) = Len(result) + 1,
           \A k \in 1 .. Len(result) : longer[k] = result[k],
           NEW unit, HeldBy(result, unit)
    PROVE  HeldBy(longer, unit)
<1>1. PICK k \in 1 .. Len(result) : unit \in UnitsIn(result[k].content)
    BY DEF HeldBy
<1>2. k \in 1 .. Len(longer)
    OBVIOUS
<1> QED  BY <1>1, <1>2 DEF HeldBy

(* A stretch grows by the unit that follows it. *)
LEMMA StretchGrows ==
    ASSUME ChunkTypeOK, next <= Len(units), Stretch(units, buffer, next - 1)
    PROVE  Stretch(units, WithUnit, next)
<1>1. /\ Len(buffer) \in Nat /\ next \in Nat /\ next >= 1
      /\ Len(WithUnit) = Len(buffer) + 1
      /\ \A i \in 1 .. Len(buffer) : WithUnit[i] = buffer[i]
      /\ WithUnit[Len(buffer) + 1] = units[next]
    BY DEF ChunkTypeOK, WithUnit
<1>2. \A i \in 1 .. Len(buffer) : buffer[i] = units[next - 1 - Len(buffer) + i]
    BY DEF Stretch
<1>3. ASSUME NEW i \in 1 .. Len(WithUnit)
      PROVE  WithUnit[i] = units[next - Len(WithUnit) + i]
    <2>1. next - Len(WithUnit) + i = next - 1 - Len(buffer) + i
        BY <1>1
    <2>2. CASE i = Len(buffer) + 1
        BY <1>1, <2>2
    <2>3. CASE i # Len(buffer) + 1
        <3>1. i \in 1 .. Len(buffer)
            BY <1>1, <2>3
        <3> QED  BY <1>1, <1>2, <2>1, <3>1
    <2> QED  BY <2>2, <2>3
<1>4. Len(WithUnit) <= next
    BY <1>1 DEF Stretch
<1> QED  BY <1>3, <1>4 DEF Stretch

(* The carry, one unit longer, is still the end of the same stretch. *)
LEMMA CarryGrows ==
    ASSUME ChunkTypeOK, Len(carry) < Len(buffer),
           Stretch(units, buffer, next - 1), Stretch(units, carry, next - 1)
    PROVE  Stretch(units, LongerCarry, next - 1)
<1>1. /\ Len(buffer) \in Nat /\ Len(carry) \in Nat /\ next \in Nat
      /\ Len(LongerCarry) = Len(carry) + 1
      /\ LongerCarry[1] = Trailing
      /\ \A i \in 1 .. Len(carry) : LongerCarry[i + 1] = carry[i]
    BY DEF ChunkTypeOK, LongerCarry
<1>2. Trailing = units[next - 1 - Len(carry)]
    <2>1. Len(buffer) - Len(carry) \in 1 .. Len(buffer)
        BY <1>1
    <2>2. next - 1 - Len(buffer) + (Len(buffer) - Len(carry)) = next - 1 - Len(carry)
        BY <1>1
    <2> QED  BY <2>1, <2>2 DEF Stretch, Trailing
<1>3. ASSUME NEW i \in 1 .. Len(LongerCarry)
      PROVE  LongerCarry[i] = units[next - 1 - Len(LongerCarry) + i]
    <2>1. CASE i = 1
        <3>1. next - 1 - Len(LongerCarry) + i = next - 1 - Len(carry)
            BY <1>1, <2>1
        <3> QED  BY <1>1, <1>2, <2>1, <3>1
    <2>2. CASE i # 1
        <3>1. i - 1 \in 1 .. Len(carry) /\ i = (i - 1) + 1
            BY <1>1, <2>2
        <3>2. LongerCarry[i] = carry[i - 1]
            BY <1>1, <3>1
        <3>3. carry[i - 1] = units[next - 1 - Len(carry) + (i - 1)]
            BY <3>1 DEF Stretch
        <3>4. next - 1 - Len(carry) + (i - 1) = next - 1 - Len(LongerCarry) + i
            BY <1>1
        <3> QED  BY <3>2, <3>3, <3>4
    <2> QED  BY <2>1, <2>2
<1>4. Len(LongerCarry) <= next - 1
    BY <1>1 DEF Stretch
<1> QED  BY <1>3, <1>4 DEF Stretch

(* The final merge takes nothing away. *)
LEMMA MergeHolds ==
    ASSUME ChunkTypeOK, MergeLast, NEW unit, HeldBy(chunks, unit)
    PROVE  HeldBy(chunks', unit)
<1> DEFINE n == Len(chunks)
<1>1. PICK k \in 1 .. n : unit \in UnitsIn(chunks[k].content)
    BY DEF HeldBy
<1>2. CASE chunks' = chunks
    BY <1>2
<1>3. CASE /\ n > 1 /\ Len(chunks') = n - 1
           /\ \A j \in 1 .. n - 2 : chunks'[j] = chunks[j]
           /\ chunks'[n - 1] = Merged(chunks[n - 1], chunks[n])
    <2>0. n \in Nat
        BY DEF ChunkTypeOK
    <2>1. CASE k <= n - 2
        <3>1. k \in 1 .. n - 2 /\ k \in 1 .. n - 1
            BY <2>0, <2>1
        <3> QED  BY <1>1, <1>3, <3>1 DEF HeldBy
    <2>2. CASE k > n - 2
        <3>1. n - 1 \in 1 .. n /\ n \in 1 .. n /\ (k = n - 1 \/ k = n) /\ n - 1 \in 1 .. n - 1
            BY <1>3, <2>0, <2>2
        <3>2. chunks[n - 1].content \in Seq(Unit) /\ chunks[n].content \in Seq(Unit)
            <4>1. chunks[n - 1] \in Chunk /\ chunks[n] \in Chunk
                BY <3>1 DEF ChunkTypeOK
            <4> QED  BY <4>1 DEF Chunk
        <3>3. chunks'[n - 1].content = chunks[n - 1].content \o chunks[n].content
            <4>1. \A prev, last : Merged(prev, last).content = prev.content \o last.content
                BY DEF Merged
            <4> QED  BY <1>3, <4>1
        <3>4. unit \in UnitsIn(chunks'[n - 1].content)
            BY <1>1, <3>1, <3>2, <3>3, UnitsInBoth
        <3> QED  BY <1>3, <3>1, <3>4 DEF HeldBy
    <2> QED  BY <2>0, <2>1, <2>2
<1> QED  BY <1>2, <1>3, MergeFacts

LEMMA CoverInvInit == ChunkInit => CoverInv
BY DEF ChunkInit, CoverInv, BufferInv, FlushedInv, Covered, Looping

(* What a flush of a stretch that ends before position last leaves. *)
LEMMA FlushCovers ==
    ASSUME ChunkTypeOK, NEW content \in Seq(Unit), NEW tokens \in Nat, NEW after \in {"unit", "append"},
           remaining > 1, Flush(content, tokens, after), units' = units,
           NEW last \in Nat, next' - 1 = last, Stretch(units, content, last),
           \A i \in 1 .. last : i > last - Len(content) \/ HeldBy(chunks, units[i])
    PROVE  CoverInv'
<1>1. /\ chunks \in Seq(Chunk) /\ chunks' \in Seq(Chunk) /\ Len(chunks') = Len(chunks) + 1
      /\ Len(chunks) \in Nat
      /\ chunks'[Len(chunks')] = NewChunk(content, tokens)
      /\ \A k \in 1 .. Len(chunks) : chunks'[k] = chunks[k]
      /\ buffer' = content /\ carry' = <<>> /\ pc' = "carry"
    BY FlushTypes DEF ChunkTypeOK
<1>2. chunks'[Len(chunks')].content = content /\ Len(chunks') \in 1 .. Len(chunks')
    BY <1>1, NewChunkFacts
<1>3. BufferInv'
    BY <1>1 DEF BufferInv, Looping
<1>4. Stretch(units, <<>>, last)
    BY DEF Stretch
<1>5. FlushedInv'
    BY <1>1, <1>2, <1>4 DEF FlushedInv
<1>6. ASSUME NEW i \in 1 .. last
      PROVE  HeldBy(chunks', units[i])
    <2>1. CASE i > last - Len(content)
        <3>1. i \in Nat /\ i <= last
            OBVIOUS
        <3> QED  BY <1>1, <1>2, <2>1, <3>1, StretchIsHeld
    <2>2. CASE HeldBy(chunks, units[i])
        BY <1>1, <2>2, HeldStaysHeld
    <2> QED  BY <2>1, <2>2
<1>7. Covered'
    BY <1>1, <1>6 DEF Covered
<1> QED  BY <1>3, <1>5, <1>7 DEF CoverInv

LEMMA CoverInvNext == TypeInv /\ CoverInv /\ [ChunkNext]_chunkVars => CoverInv'
<1> SUFFICES ASSUME TypeInv, CoverInv, [ChunkNext]_chunkVars PROVE CoverInv'
    OBVIOUS
<1>t. ChunkTypeOK /\ PlaceInv
    BY DEF TypeInv
<1>c. BufferInv /\ FlushedInv /\ Covered
    BY DEF CoverInv
<1>n. /\ next \in Nat /\ next >= 1 /\ next <= Len(units) + 1 /\ Len(units) \in Nat
      /\ Len(buffer) \in Nat /\ Len(carry) \in Nat /\ Len(chunks) \in Nat
    BY <1>t DEF ChunkTypeOK
<1>1. CASE BuildUnits
    BY <1>1, <1>c DEF BuildUnits, CoverInv, BufferInv, FlushedInv, Covered, Looping
<1>2. CASE Built
    <2>1. pc' = "done" => units' = <<>>
        BY <1>2 DEF Built
    <2> QED  BY <1>2, <1>c, <2>1 DEF Built, CoverInv, BufferInv, FlushedInv, Covered, Looping
<1>3. CASE WholeDocument
    <2>1. NewChunk(units, total) \in Chunk /\ NewChunk(units, total).content = units
        BY <1>t, NewChunkFacts DEF ChunkTypeOK
    <2>2. /\ chunks' \in Seq(Chunk) /\ 1 \in 1 .. Len(chunks') /\ chunks'[1].content = units
          /\ units' = units /\ pc' = "done"
        BY <1>3, <2>1 DEF WholeDocument
    <2>3. units \in Seq(Unit) /\ Stretch(units, units, Len(units))
        BY <1>t DEF Stretch, ChunkTypeOK
    <2>4. ASSUME NEW i \in 1 .. Len(units) PROVE HeldBy(chunks', units[i])
        <3>1. units[i] \in UnitsIn(units)
            BY <2>3 DEF UnitsIn
        <3> QED  BY <2>2, <3>1 DEF HeldBy
    <2>5. Covered'
        BY <2>2, <2>4 DEF Covered, Looping
    <2> QED  BY <2>2, <2>5 DEF CoverInv, BufferInv, FlushedInv, Looping
<1>4. CASE PreSize
    <2>1. /\ next = 1 /\ next' = 1 /\ buffer' = <<>> /\ units' = units /\ pc' = "unit"
        BY <1>4, <1>c DEF PreSize, BufferInv
    <2>2. Stretch(units, <<>>, 0)
        BY DEF Stretch
    <2> QED  BY <2>1, <2>2 DEF CoverInv, BufferInv, FlushedInv, Covered, Looping
<1>5. CASE FlushFirst
    <2>1. /\ Flush(buffer, bufferTokens, "append") /\ remaining > 1 /\ pc = "unit"
          /\ units' = units /\ next' = next
          /\ buffer \in Seq(Unit) /\ bufferTokens \in Nat
        BY <1>5, <1>t DEF FlushFirst, Overflows, ChunkTypeOK
    <2>2. Stretch(units, buffer, next - 1)
        BY <1>c, <2>1 DEF BufferInv, Looping
    <2>3. \A i \in 1 .. next - 1 : i > next - 1 - Len(buffer) \/ HeldBy(chunks, units[i])
        BY <1>c, <2>1 DEF Covered, Looping
    <2>4. next - 1 \in Nat
        BY <1>n
    <2> QED  BY <1>t, <2>1, <2>2, <2>3, <2>4, FlushCovers
<1>6. CASE AppendUnit
    <2>1. /\ next <= Len(units) /\ next' = next + 1 /\ units' = units /\ pc \in Looping
        BY <1>6, <1>t DEF AppendUnit, PlaceInv, Looping
    <2>2. /\ units[next].tokens \in Nat /\ WithUnit \in Seq(Unit) /\ Len(WithUnit) = Len(buffer) + 1
        BY <1>t, <2>1, UnitTypes
    <2>3. Stretch(units, buffer, next - 1)
        BY <1>c, <2>1 DEF BufferInv
    <2>4. next' - 1 = next /\ Stretch(units, WithUnit, next)
        BY <1>t, <1>n, <2>1, <2>3, StretchGrows
    <2>5. ASSUME NEW i \in 1 .. next
          PROVE  i > next - Len(WithUnit) \/ HeldBy(chunks, units[i])
        <3>1. CASE i = next
            BY <1>n, <2>1, <2>2, <3>1
        <3>2. CASE i # next
            <4>1. i \in 1 .. next - 1
                BY <1>n, <2>1, <3>2
            <4>2. i > next - 1 - Len(buffer) \/ HeldBy(chunks, units[i])
                BY <1>c, <2>1, <4>1 DEF Covered
            <4>3. i > next - 1 - Len(buffer) => i > next - Len(WithUnit)
                BY <1>n, <2>1, <2>2
            <4> QED  BY <4>2, <4>3
        <3> QED  BY <3>1, <3>2
    <2> DEFINE tokens == bufferTokens + units[next].tokens
    <2>6. tokens \in Nat
        BY <1>t, <2>2 DEF ChunkTypeOK
    <2>7. CASE ReachesTarget(tokens)
        <3>1. Flush(WithUnit, tokens, "unit") /\ remaining > 1
            BY <1>6, <2>7 DEF AppendUnit, ReachesTarget
        <3> HIDE DEF tokens
        <3>2. /\ next \in Nat /\ next' - 1 = next /\ units' = units /\ WithUnit \in Seq(Unit)
              /\ ChunkTypeOK /\ Stretch(units, WithUnit, next)
              /\ \A i \in 1 .. next : i > next - Len(WithUnit) \/ HeldBy(chunks, units[i])
            BY <1>t, <1>n, <2>1, <2>2, <2>4, <2>5
        <3> QED  BY <2>6, <3>1, <3>2, FlushCovers, SMTT(60)
    <2>8. CASE ~ReachesTarget(tokens)
        <3>1. /\ buffer' = WithUnit /\ pc' = "unit" /\ chunks' = chunks
            BY <1>6, <2>8 DEF AppendUnit
        <3>2. BufferInv' /\ FlushedInv'
            BY <2>1, <2>4, <3>1 DEF BufferInv, FlushedInv, Looping
        <3>3. Covered'
            BY <2>1, <2>4, <2>5, <3>1 DEF Covered, Looping
        <3> QED  BY <3>2, <3>3 DEF CoverInv
    <2> QED  BY <2>7, <2>8
<1>7. CASE FlushLast
    <2>1. /\ pc = "unit" /\ pc' = "merge" /\ units' = units /\ next - 1 = Len(units)
        BY <1>7, <1>n DEF FlushLast
    <2>2. \A i \in 1 .. Len(units) : i > Len(units) - Len(buffer) \/ HeldBy(chunks, units[i])
        BY <1>c, <2>1 DEF Covered, Looping
    <2>3. ASSUME NEW i \in 1 .. Len(units) PROVE HeldBy(chunks', units[i])
        <3>1. CASE buffer = <<>>
            BY <1>7, <1>n, <2>2, <3>1 DEF FlushLast
        <3>2. CASE buffer # <<>>
            <4>1. /\ chunks' = Append(chunks, NewChunk(buffer, bufferTokens))
                  /\ chunks \in Seq(Chunk) /\ buffer \in Seq(Unit) /\ bufferTokens \in Nat
                BY <1>7, <1>t, <3>2 DEF FlushLast, ChunkTypeOK
            <4>2. NewChunk(buffer, bufferTokens) \in Chunk /\ NewChunk(buffer, bufferTokens).content = buffer
                BY <4>1, NewChunkFacts
            <4>3. /\ chunks' \in Seq(Chunk) /\ Len(chunks') = Len(chunks) + 1
                  /\ \A k \in 1 .. Len(chunks) : chunks'[k] = chunks[k]
                  /\ Len(chunks') \in 1 .. Len(chunks') /\ chunks'[Len(chunks')].content = buffer
                BY <4>1, <4>2
            <4>4. CASE i > Len(units) - Len(buffer)
                <5>1. Stretch(units, buffer, Len(units))
                    BY <1>c, <2>1 DEF BufferInv, Looping
                <5>2. i \in Nat /\ i <= Len(units)
                    BY <1>n
                <5>3. HeldBy(chunks', units[i])
                    BY <1>n, <4>1, <4>3, <4>4, <5>1, <5>2, StretchIsHeld
                <5> QED  BY <5>3
            <4>5. CASE HeldBy(chunks, units[i])
                BY <4>1, <4>3, <4>5, HeldStaysHeld
            <4> QED  BY <2>2, <4>4, <4>5
        <3> QED  BY <3>1, <3>2
    <2> QED  BY <2>1, <2>3 DEF CoverInv, BufferInv, FlushedInv, Covered, Looping
<1>8. CASE CarryUnit
    <2>1. /\ pc = "carry" /\ pc' = "carry" /\ Len(carry) < Len(buffer) /\ carry' = LongerCarry
          /\ units' = units /\ next' = next /\ buffer' = buffer /\ chunks' = chunks
        BY <1>8 DEF CarryUnit, CarryLooksOn
    <2>2. Stretch(units, buffer, next - 1) /\ Stretch(units, carry, next - 1)
        BY <1>c, <2>1 DEF BufferInv, FlushedInv, Looping
    <2>3. Stretch(units, LongerCarry, next - 1)
        BY <1>t, <2>1, <2>2, CarryGrows
    <2> QED  BY <1>c, <2>1, <2>2, <2>3 DEF CoverInv, BufferInv, FlushedInv, Covered, Looping
<1>9. CASE Carried
    <2>1. /\ pc = "carry" /\ pc' = resume /\ buffer' = carry
          /\ units' = units /\ next' = next /\ chunks' = chunks
        BY <1>9 DEF Carried
    <2>2. resume \in {"unit", "append"}
        BY <1>t DEF ChunkTypeOK
    <2>3. Stretch(units, carry, next - 1)
        BY <1>c, <2>1 DEF FlushedInv
    <2>4. ASSUME NEW i \in 1 .. next - 1 PROVE HeldBy(chunks, units[i])
        <3>1. i > next - 1 - Len(buffer) \/ HeldBy(chunks, units[i])
            BY <1>c, <2>1 DEF Covered, Looping
        <3>2. CASE i > next - 1 - Len(buffer)
            <4>1. /\ Len(chunks) \in 1 .. Len(chunks) /\ chunks[Len(chunks)].content = buffer
                  /\ Stretch(units, buffer, next - 1) /\ next - 1 \in Nat /\ i \in Nat /\ i <= next - 1
                BY <1>c, <1>n, <2>1 DEF FlushedInv, BufferInv, Looping
            <4>2. chunks \in Seq(Chunk) /\ buffer \in Seq(Unit)
                BY <1>t DEF ChunkTypeOK
            <4> QED  BY <3>2, <4>1, <4>2, StretchIsHeld
        <3> QED  BY <3>1, <3>2
    <2> QED  BY <2>1, <2>2, <2>3, <2>4 DEF CoverInv, BufferInv, FlushedInv, Covered, Looping
<1>10. CASE MergeLast
    <2>1. pc = "merge" /\ pc' = "done" /\ units' = units
        BY <1>10 DEF MergeLast
    <2>2. ASSUME NEW i \in 1 .. Len(units) PROVE HeldBy(chunks', units[i])
        <3>1. HeldBy(chunks, units[i])
            BY <1>c, <2>1 DEF Covered
        <3> QED  BY <1>10, <1>t, <3>1, MergeHolds
    <2> QED  BY <2>1, <2>2 DEF CoverInv, BufferInv, FlushedInv, Covered, Looping
<1>11. CASE UNCHANGED chunkVars
    BY <1>11, <1>c DEF chunkVars, CoverInv, BufferInv, FlushedInv, Covered
<1> QED  BY <1>1, <1>2, <1>3, <1>4, <1>5, <1>6, <1>7, <1>8, <1>9, <1>10, <1>11 DEF ChunkNext

(* Every unit of every document is in a chunk when chunking is done (chunk_document). *)
THEOREM NoTextIsLost == ChunkSpec => []NothingLost
<1>1. CoverInv => NothingLost
    BY DEF CoverInv, Covered, NothingLost, HeldBy
<1> QED  BY <1>1, TypeInvAlways, CoverInvInit, CoverInvNext, PTL DEF ChunkSpec

-----------------------------------------------------------------------------
(* Sections and numbers *)

Numbered == \A k \in 1 .. Len(chunks) : chunks[k].index = k - 1

\* A chunk cut is a chunk less to come.
PlanInv ==
    /\ pc \in {"build", "size"} => chunks = <<>>
    /\ pc \in Looping => Len(chunks) + remaining = PlannedChunks /\ remaining >= 1
    /\ pc \in {"merge", "done"} => Len(chunks) <= PlannedChunks

ResultInv == SectionsNamed /\ Numbered /\ PlanInv

(* One more chunk made of a text keeps sections and numbers right. *)
LEMMA FurtherChunk ==
    ASSUME ChunkTypeOK, SectionsNamed, Numbered, NEW content \in Seq(Unit), NEW tokens \in Nat,
           Len(chunks') = Len(chunks) + 1, chunks'[Len(chunks')] = NewChunk(content, tokens),
           \A k \in 1 .. Len(chunks) : chunks'[k] = chunks[k]
    PROVE  SectionsNamed' /\ Numbered'
<1>1. Len(chunks) \in Nat /\ chunks \in Seq(Chunk)
    BY DEF ChunkTypeOK
<1>2. /\ NewChunk(content, tokens).content = content
      /\ NewChunk(content, tokens).index = Len(chunks)
      /\ NewChunk(content, tokens).section = HeadingsOf(content)
    BY <1>1, NewChunkFacts
<1>3. ASSUME NEW k \in 1 .. Len(chunks')
      PROVE  chunks'[k].section = HeadingsOf(chunks'[k].content) /\ chunks'[k].index = k - 1
    <2>1. CASE k = Len(chunks')
        BY <1>1, <1>2, <2>1
    <2>2. CASE k # Len(chunks')
        <3>1. k \in 1 .. Len(chunks) /\ chunks'[k] = chunks[k]
            BY <1>1, <2>2
        <3> QED  BY <3>1 DEF SectionsNamed, Numbered
    <2> QED  BY <2>1, <2>2
<1>4. SectionsNamed'
    BY <1>3 DEF SectionsNamed, HeadingsOf
<1>5. Numbered'
    BY <1>3 DEF Numbered
<1> QED  BY <1>4, <1>5

(* So does the final merge. *)
LEMMA MergedChunk ==
    ASSUME ChunkTypeOK, SectionsNamed, Numbered, MergeLast
    PROVE  SectionsNamed' /\ Numbered' /\ Len(chunks') <= Len(chunks)
<1> DEFINE n == Len(chunks)
<1>0. n \in Nat /\ chunks \in Seq(Chunk)
    BY DEF ChunkTypeOK
<1>1. CASE chunks' = chunks
    BY <1>0, <1>1 DEF SectionsNamed, Numbered, HeadingsOf
<1>2. CASE /\ n > 1 /\ Len(chunks') = n - 1
           /\ \A k \in 1 .. n - 2 : chunks'[k] = chunks[k]
           /\ chunks'[n - 1] = Merged(chunks[n - 1], chunks[n])
    <2> DEFINE prev == chunks[n - 1]
               last == chunks[n]
    <2>1. n - 1 \in 1 .. n /\ n \in 1 .. n
        BY <1>0, <1>2
    <2>2. prev.content \in Seq(Unit) /\ last.content \in Seq(Unit)
        <3>1. prev \in Chunk /\ last \in Chunk
            BY <1>0, <2>1
        <3> QED  BY <3>1 DEF Chunk
    <2>3. /\ prev.section = HeadingsOf(prev.content) /\ last.section = HeadingsOf(last.content)
          /\ prev.index = n - 2
        BY <1>0, <2>1 DEF SectionsNamed, Numbered
    <2> HIDE DEF prev, last
    <2>4. /\ Merged(prev, last).section = HeadingsOf(Merged(prev, last).content)
          /\ Merged(prev, last).index = n - 2
        <3>1. /\ Merged(prev, last).section = prev.section \cup last.section
              /\ Merged(prev, last).content = prev.content \o last.content
              /\ Merged(prev, last).index = prev.index
            BY DEF Merged
        <3> QED  BY <2>2, <2>3, <3>1, HeadingsOfBoth
    <2>5. ASSUME NEW k \in 1 .. Len(chunks')
          PROVE  chunks'[k].section = HeadingsOf(chunks'[k].content) /\ chunks'[k].index = k - 1
        <3>1. CASE k = n - 1
            BY <1>0, <1>2, <2>4, <3>1 DEF prev, last
        <3>2. CASE k # n - 1
            <4>1. k \in 1 .. n - 2 /\ k \in 1 .. n
                BY <1>0, <1>2, <3>2
            <4>2. chunks'[k] = chunks[k]
                BY <1>2, <4>1
            <4> QED  BY <4>1, <4>2 DEF SectionsNamed, Numbered
        <3> QED  BY <3>1, <3>2
    <2>6. SectionsNamed'
        BY <2>5 DEF SectionsNamed, HeadingsOf
    <2>7. Numbered'
        BY <2>5 DEF Numbered
    <2> QED  BY <1>0, <1>2, <2>6, <2>7
<1> QED  BY <1>1, <1>2, MergeFacts

LEMMA ResultInvInit == ChunkInit => ResultInv
BY DEF ChunkInit, ResultInv, SectionsNamed, Numbered, PlanInv, Looping

(* A step that cuts a chunk in the loop keeps the plan. *)
LEMMA FlushResult ==
    ASSUME ChunkTypeOK, ResultInv, NEW content \in Seq(Unit), NEW tokens \in Nat,
           NEW after \in {"unit", "append"},
           remaining > 1, pc \in Looping, Flush(content, tokens, after), total' = total
    PROVE  ResultInv'
<1>1. SectionsNamed' /\ Numbered'
    BY FlushTypes, FurtherChunk DEF ResultInv
<1>2. /\ Len(chunks') = Len(chunks) + 1 /\ remaining' = remaining - 1 /\ pc' = "carry"
      /\ Len(chunks) \in Nat /\ remaining \in Nat
    BY FlushTypes DEF Flush, ChunkTypeOK
<1>3. PlannedChunks' = PlannedChunks
    BY DEF PlannedChunks, Larger, CeilDiv
<1>4. Len(chunks') + remaining' = PlannedChunks' /\ remaining' >= 1
    BY <1>2, <1>3 DEF ResultInv, PlanInv
<1> QED  BY <1>1, <1>2, <1>4 DEF ResultInv, PlanInv, Looping

(* A step that leaves the chunks alone. *)
LEMMA SameResult ==
    ASSUME ResultInv, chunks' = chunks
    PROVE  SectionsNamed' /\ Numbered'
BY DEF ResultInv, SectionsNamed, Numbered, HeadingsOf

LEMMA ResultInvNext == TypeInv /\ ResultInv /\ [ChunkNext]_chunkVars => ResultInv'
<1> SUFFICES ASSUME TypeInv, ResultInv, [ChunkNext]_chunkVars PROVE ResultInv'
    OBVIOUS
<1>t. ChunkTypeOK /\ Len(chunks) \in Nat /\ remaining \in Nat
    BY DEF TypeInv, ChunkTypeOK
<1>r. SectionsNamed /\ Numbered /\ PlanInv
    BY DEF ResultInv
<1>p. total' = total => PlannedChunks' = PlannedChunks
    BY DEF PlannedChunks, Larger, CeilDiv
<1>n. PlannedChunks \in Nat /\ PlannedChunks >= 2
    BY <1>t, PlannedType
<1>1. CASE BuildUnits
    BY <1>1, <1>r, SameResult DEF BuildUnits, ResultInv, PlanInv, Looping
<1>2. CASE Built
    <2>1. Len(chunks') = 0 /\ PlannedChunks' >= 2 /\ PlannedChunks' \in Nat
        BY <1>2, <1>r, <1>p, <1>n DEF Built, PlanInv
    <2> QED  BY <1>2, <1>r, <2>1, SameResult DEF Built, ResultInv, PlanInv, Looping
<1>3. CASE WholeDocument
    <2>1. chunks = <<>> /\ units \in Seq(Unit) /\ total \in Nat
        BY <1>3, <1>t, <1>r DEF WholeDocument, PlanInv, ChunkTypeOK
    <2>2. chunks' = <<NewChunk(units, total)>> /\ pc' = "done" /\ total' = total
        BY <1>3 DEF WholeDocument
    <2>3. SectionsNamed' /\ Numbered' /\ Len(chunks') = 1
        BY <1>t, <1>r, <2>1, <2>2, FurtherChunk
    <2> QED  BY <1>n, <1>p, <2>2, <2>3 DEF ResultInv, PlanInv, Looping
<1>4. CASE PreSize
    <2>1. /\ Len(chunks') = 0 /\ remaining' = PlannedChunks /\ PlannedChunks' = PlannedChunks
          /\ pc' = "unit"
        BY <1>4, <1>r, <1>p DEF PreSize, PlanInv
    <2>2. Len(chunks') + remaining' = PlannedChunks' /\ remaining' >= 1
        BY <1>n, <2>1
    <2> QED  BY <1>4, <2>1, <2>2, SameResult DEF PreSize, ResultInv, PlanInv, Looping
<1>5. CASE FlushFirst
    <2>1. /\ Flush(buffer, bufferTokens, "append") /\ remaining > 1 /\ total' = total
          /\ buffer \in Seq(Unit) /\ bufferTokens \in Nat /\ pc \in Looping
        BY <1>5, <1>t DEF FlushFirst, Overflows, ChunkTypeOK, Looping
    <2> QED  BY <1>t, <2>1, FlushResult
<1>6. CASE AppendUnit
    <2>1. next <= Len(units) /\ total' = total /\ pc \in Looping
        BY <1>6 DEF AppendUnit, TypeInv, PlaceInv, Looping
    <2>2. units[next].tokens \in Nat /\ WithUnit \in Seq(Unit)
        BY <1>t, <2>1, UnitTypes
    <2> DEFINE tokens == bufferTokens + units[next].tokens
    <2>3. tokens \in Nat
        BY <1>t, <2>2 DEF ChunkTypeOK
    <2>4. CASE ReachesTarget(tokens)
        <3>1. Flush(WithUnit, tokens, "unit") /\ remaining > 1
            BY <1>6, <2>4 DEF AppendUnit, ReachesTarget
        <3> HIDE DEF tokens
        <3> QED  BY <1>t, <2>1, <2>2, <2>3, <3>1, FlushResult
    <2>5. CASE ~ReachesTarget(tokens)
        <3>1. pc' = "unit" /\ chunks' = chunks /\ remaining' = remaining
            BY <1>6, <2>5 DEF AppendUnit
        <3> QED  BY <1>r, <1>p, <2>1, <3>1, SameResult DEF ResultInv, PlanInv, Looping
    <2> QED  BY <2>4, <2>5
<1>7. CASE FlushLast
    <2>1. /\ pc' = "merge" /\ PlannedChunks' = PlannedChunks
          /\ Len(chunks) + remaining = PlannedChunks /\ remaining >= 1
        BY <1>7, <1>r, <1>p DEF FlushLast, PlanInv, Looping
    <2>2. CASE buffer = <<>>
        <3>1. chunks' = chunks
            BY <1>7, <2>2 DEF FlushLast
        <3>2. Len(chunks') <= PlannedChunks'
            BY <1>t, <1>n, <2>1, <3>1
        <3> QED  BY <2>1, <3>1, <3>2, SameResult DEF ResultInv, PlanInv, Looping
    <2>3. CASE buffer # <<>>
        <3>1. /\ chunks' = Append(chunks, NewChunk(buffer, bufferTokens))
              /\ chunks \in Seq(Chunk) /\ buffer \in Seq(Unit) /\ bufferTokens \in Nat
            BY <1>7, <1>t, <2>3 DEF FlushLast, ChunkTypeOK
        <3>2. NewChunk(buffer, bufferTokens) \in Chunk
            BY <3>1, NewChunkFacts
        <3>3. /\ Len(chunks') = Len(chunks) + 1
              /\ chunks'[Len(chunks')] = NewChunk(buffer, bufferTokens)
              /\ \A k \in 1 .. Len(chunks) : chunks'[k] = chunks[k]
            BY <3>1, <3>2
        <3>4. SectionsNamed' /\ Numbered'
            BY <1>t, <1>r, <3>1, <3>3, FurtherChunk
        <3>5. Len(chunks') <= PlannedChunks'
            BY <1>t, <1>n, <2>1, <3>3
        <3> QED  BY <2>1, <3>4, <3>5 DEF ResultInv, PlanInv, Looping
    <2> QED  BY <2>2, <2>3
<1>8. CASE CarryUnit
    BY <1>8, <1>r, <1>p, SameResult DEF CarryUnit, ResultInv, PlanInv, Looping
<1>9. CASE Carried
    <2>1. /\ pc = "carry" /\ pc' \in {"unit", "append"} /\ chunks' = chunks
          /\ remaining' = remaining /\ total' = total
        BY <1>9, <1>t DEF Carried, ChunkTypeOK
    <2> QED  BY <1>r, <1>p, <2>1, SameResult DEF ResultInv, PlanInv, Looping
<1>10. CASE MergeLast
    <2>1. SectionsNamed' /\ Numbered' /\ Len(chunks') <= Len(chunks)
        BY <1>10, <1>t, <1>r, MergedChunk
    <2>2. /\ pc' = "done" /\ PlannedChunks' = PlannedChunks /\ Len(chunks) <= PlannedChunks
        BY <1>10, <1>r, <1>p DEF MergeLast, PlanInv
    <2>3. Len(chunks') \in Nat
        BY <1>10, <1>t, MergeFacts
    <2>4. Len(chunks') <= PlannedChunks'
        BY <1>t, <1>n, <2>1, <2>2, <2>3
    <2> QED  BY <2>1, <2>2, <2>4 DEF ResultInv, PlanInv, Looping
<1>11. CASE UNCHANGED chunkVars
    <2>1. chunks' = chunks /\ pc' = pc /\ remaining' = remaining /\ total' = total
        BY <1>11 DEF chunkVars
    <2> QED  BY <1>r, <1>p, <2>1, SameResult DEF ResultInv, PlanInv
<1> QED  BY <1>1, <1>2, <1>3, <1>4, <1>5, <1>6, <1>7, <1>8, <1>9, <1>10, <1>11 DEF ChunkNext

LEMMA ResultInvAlways == ChunkSpec => []ResultInv
<1> QED  BY TypeInvAlways, ResultInvInit, ResultInvNext, PTL DEF ChunkSpec

(* A chunk names the headings its text spans and no other, the merged one included              *)
(* (_join_headings, chunker.py:7-11).                                                           *)
LEMMA SectionsAreRight == ChunkSpec => []SectionsNamed
<1>1. ResultInv => SectionsNamed
    BY DEF ResultInv
<1> QED  BY <1>1, ResultInvAlways, PTL

(* Chunks are numbered from 0 without a gap, and there are at most as many as planned           *)
(* (chunk_id, n_chunks).                                                                        *)
LEMMA PlanIsKept == ChunkSpec => []NumberedAsPlanned
<1>1. TypeInv /\ ResultInv => NumberedAsPlanned
    <2> SUFFICES ASSUME TypeInv, ResultInv PROVE NumberedAsPlanned
        OBVIOUS
    <2>1. /\ Len(chunks) \in Nat /\ remaining \in Nat /\ PlannedChunks \in Nat /\ PlannedChunks >= 2
          /\ pc \in {"build", "size", "unit", "append", "carry", "merge", "done"}
        BY PlannedType DEF TypeInv, ChunkTypeOK
    <2>2. Len(chunks) <= PlannedChunks
        <3>1. CASE pc \in {"build", "size"}
            BY <2>1, <3>1 DEF ResultInv, PlanInv
        <3>2. CASE pc \in Looping
            BY <2>1, <3>2 DEF ResultInv, PlanInv
        <3>3. CASE pc \in {"merge", "done"}
            BY <3>3 DEF ResultInv, PlanInv
        <3> QED  BY <2>1, <3>1, <3>2, <3>3 DEF Looping
    <2> QED  BY <2>2 DEF ResultInv, Numbered, NumberedAsPlanned
<1> QED  BY <1>1, TypeInvAlways, ResultInvAlways, PTL

(* Every chunk is labelled with its sections and its number (chunk_id, _join_headings).         *)
THEOREM LabelsAreRight == ChunkSpec => []ChunksAreLabelled
<1>1. SectionsNamed /\ NumberedAsPlanned => ChunksAreLabelled
    BY DEF ChunksAreLabelled
<1> QED  BY <1>1, SectionsAreRight, PlanIsKept, PTL

(* The chunks carry the whole text, and each is labelled with the headings of its text and its  *)
(* number (chunk_document).                                                                     *)
THEOREM ChunksCarryTheText == ChunkSpec => []TextAndLabelsKept
<1>1. NothingLost /\ ChunksAreLabelled => TextAndLabelsKept
    BY DEF TextAndLabelsKept
<1> QED  BY <1>1, NoTextIsLost, LabelsAreRight, PTL

-----------------------------------------------------------------------------
(* Excerpts *)

NumberedUnits == \A i \in 1 .. Len(units) : units[i].at = i

\* A text that begins at position first and ends at position last follows the last chunk.
FollowsLast(first, last) ==
    LET prior == chunks[Len(chunks)].content IN
    /\ prior[1].at <= first /\ first <= prior[Len(prior)].at + 1
    /\ prior[Len(prior)].at <= last

\* What the buffer holds so far follows the last chunk, so what it will hold does.
BufferFollows ==
    pc \in {"unit", "append"} /\ Len(chunks) > 0 => FollowsLast(next - Len(buffer), next - 1)

ExcerptInv == NumberedUnits /\ ChunksAreExcerpts /\ BufferFollows

-----------------------------------------------------------------------------
(* No fragment *)

\* sum[i] is the length of the first i units of a text, and m that of all.
HasSums(content, sum, m) ==
    /\ sum \in [0 .. Len(content) -> Nat] /\ sum[0] = 0 /\ sum[Len(content)] = m
    /\ \A i \in 1 .. Len(content) : sum[i] = sum[i - 1] + content[i].tokens

Sums(sum) == HasSums(units, sum, total)

Quota(n) == n * (target - 1)

\* Before the last chunk is begun, the chunks and the buffer have taken less than the target each;
\* read is the length of the units taken.
NotAhead(read) ==
    /\ pc = "unit" /\ remaining > 1 =>
          /\ read - bufferTokens <= Quota(Len(chunks)) /\ read <= Quota(Len(chunks) + 1)
    /\ pc = "append" => read - bufferTokens <= Quota(Len(chunks)) /\ read <= Quota(Len(chunks))
    /\ pc = "carry" =>
          /\ Len(buffer) > 0
          /\ Len(carry) > 0 => carryTokens >= buffer[Len(buffer)].tokens
          /\ resume = "append" => read <= Quota(Len(chunks))
          /\ resume = "unit" => /\ read - buffer[Len(buffer)].tokens <= Quota(Len(chunks))
                                /\ read <= Quota(Len(chunks) + 1)

\* So what is in the last chunk or has been taken since is all but so much.
LastIsLarge(read) ==
    pc \in Looping /\ Len(chunks) > 0 =>
        chunks[Len(chunks)].tokens + (IF pc = "carry" THEN 0 ELSE bufferTokens)
            >= read - Quota(Len(chunks) - 1)

SplitBy(sum) == NotAhead(sum[next - 1]) /\ LastIsLarge(sum[next - 1])

Sized ==
    /\ total > MaxChunkTokens
    /\ target = Larger(MinChunkTokens, Smaller(MaxChunkTokens, CeilDiv(total, PlannedChunks)))

EmptyIsZero == (buffer = <<>> => bufferTokens = 0) /\ (carry = <<>> => carryTokens = 0)

UnitsFit ==
    /\ \A i \in 1 .. Len(paragraphs) : Divided(paragraphs[i])
    /\ \A i \in 1 .. Len(units) : units[i].tokens <= MaxChunkTokens

FillInv ==
    /\ UnitsFit /\ EmptyIsZero
    /\ pc \in Looping => Sized
    /\ \E sum : Sums(sum) /\ SplitBy(sum)
    /\ NoFragmentLeft


-----------------------------------------------------------------------------

(* A stretch of the document is an excerpt of it. *)
LEMMA StretchExcerpt ==
    ASSUME ChunkTypeOK, NumberedUnits, NEW content \in Seq(Unit), Len(content) > 0, NEW last \in Nat,
           last <= Len(units), Stretch(units, content, last)
    PROVE  /\ Contiguous(content) /\ content[1].at = last - Len(content) + 1
           /\ content[Len(content)].at = last
<1>1. Len(content) \in Nat /\ Len(units) \in Nat /\ Len(content) <= last
    BY DEF ChunkTypeOK, Stretch
<1>2. \A i \in 1 .. Len(content) : content[i].at = last - Len(content) + i
    <2> SUFFICES ASSUME NEW i \in 1 .. Len(content) PROVE content[i].at = last - Len(content) + i
        OBVIOUS
    <2>1. last - Len(content) + i \in 1 .. Len(units)
        BY <1>1
    <2> QED  BY <2>1 DEF Stretch, NumberedUnits
<1>3. Contiguous(content)
    <2> SUFFICES ASSUME NEW i \in 1 .. Len(content) - 1 PROVE content[i + 1].at = content[i].at + 1
        BY DEF Contiguous
    <2>1. i \in 1 .. Len(content) /\ i + 1 \in 1 .. Len(content)
        BY <1>1
    <2> QED  BY <1>1, <1>2, <2>1
<1>4. 1 \in 1 .. Len(content) /\ Len(content) \in 1 .. Len(content)
    BY <1>1
<1> QED  BY <1>1, <1>2, <1>3, <1>4

(* One more excerpt that follows the last one. *)
LEMMA FurtherExcerpt ==
    ASSUME ChunkTypeOK, NumberedUnits, ChunksAreExcerpts, pc # "done",
           NEW content \in Seq(Unit), Len(content) > 0, NEW last \in Nat, last <= Len(units),
           Stretch(units, content, last),
           Len(chunks) > 0 => FollowsLast(last - Len(content) + 1, last),
           Len(chunks') = Len(chunks) + 1, chunks'[Len(chunks')].content = content,
           \A k \in 1 .. Len(chunks) : chunks'[k] = chunks[k]
    PROVE  ChunksAreExcerpts'
<1>1. Len(chunks) \in Nat
    BY DEF ChunkTypeOK
<1>2. /\ Contiguous(content) /\ content[1].at = last - Len(content) + 1
      /\ content[Len(content)].at = last
    BY StretchExcerpt
<1>3. content # <<>>
    OBVIOUS
<1> DEFINE Follows(c, p) == /\ p[1].at <= c[1].at /\ c[1].at <= p[Len(p)].at + 1
                            /\ p[Len(p)].at <= c[Len(c)].at
<1>4. ASSUME NEW k \in 1 .. Len(chunks')
      PROVE  /\ chunks'[k].content # <<>> /\ Contiguous(chunks'[k].content)
             /\ k > 1 => Follows(chunks'[k].content, chunks'[k - 1].content)
    <2>1. CASE k = Len(chunks')
        <3>1. chunks'[k].content = content
            BY <2>1
        <3>2. ASSUME k > 1 PROVE Follows(content, chunks'[k - 1].content)
            <4>1. chunks'[k - 1] = chunks[Len(chunks)] /\ Len(chunks) > 0
                BY <1>1, <2>1, <3>2
            <4> QED  BY <1>2, <4>1 DEF FollowsLast
        <3> HIDE DEF Follows
        <3> QED  BY <1>2, <1>3, <3>1, <3>2
    <2>2. CASE k # Len(chunks')
        <3>1. k \in 1 .. Len(chunks) /\ chunks'[k] = chunks[k]
            BY <1>1, <2>2
        <3>2. k > 1 => chunks'[k - 1] = chunks[k - 1]
            BY <1>1, <3>1
        <3>3. /\ chunks[k].content # <<>> /\ Contiguous(chunks[k].content)
              /\ k > 1 => Follows(chunks[k].content, chunks[k - 1].content)
            BY <3>1 DEF ChunksAreExcerpts
        <3> HIDE DEF Follows
        <3> QED  BY <3>1, <3>2, <3>3
    <2> QED  BY <2>1, <2>2
<1> QED  BY <1>4 DEF ChunksAreExcerpts, Contiguous

(* A step that leaves the chunks alone. *)
LEMMA SameExcerpts ==
    ASSUME ChunksAreExcerpts, chunks' = chunks, pc # "done"
    PROVE  ChunksAreExcerpts'
BY DEF ChunksAreExcerpts, Contiguous

LEMMA ExcerptInvInit == ChunkInit => ExcerptInv
BY DEF ChunkInit, ExcerptInv, NumberedUnits, ChunksAreExcerpts, BufferFollows

LEMMA ExcerptInvNext == TypeInv /\ CoverInv /\ ExcerptInv /\ [ChunkNext]_chunkVars => ExcerptInv'
<1> SUFFICES ASSUME TypeInv, CoverInv, ExcerptInv, [ChunkNext]_chunkVars PROVE ExcerptInv'
    OBVIOUS
<1>t. ChunkTypeOK /\ PlaceInv
    BY DEF TypeInv
<1>c. BufferInv /\ FlushedInv
    BY DEF CoverInv
<1>e. NumberedUnits /\ ChunksAreExcerpts /\ BufferFollows
    BY DEF ExcerptInv
<1>n. /\ next \in Nat /\ next >= 1 /\ next <= Len(units) + 1 /\ Len(units) \in Nat
      /\ Len(buffer) \in Nat /\ Len(carry) \in Nat /\ Len(chunks) \in Nat
    BY <1>t DEF ChunkTypeOK
<1>u. units' = units => NumberedUnits'
    BY <1>e DEF NumberedUnits
<1>1. CASE BuildUnits
    <2>1. Head(paragraphs) \in Paragraph
        BY <1>1, <1>t DEF BuildUnits, ChunkTypeOK
    <2> DEFINE new == UnitsOf(Head(paragraphs))
    <2>2. new \in Seq(Unit) /\ \A i \in 1 .. Len(new) : new[i].at = Len(units) + i
        <3>1. Lengths(Head(paragraphs)) \in Seq(Nat)
            BY <2>1 DEF Lengths, Paragraph
        <3>2. new \in Seq(Unit)
            BY <1>t, <2>1, UnitsOfType DEF ChunkTypeOK
        <3>3. \A i \in 1 .. Len(new) : new[i].at = Len(units) + i
            BY <3>1 DEF UnitsOf
        <3> QED  BY <3>2, <3>3
    <2>3. units' = units \o new /\ units \in Seq(Unit)
        BY <1>1, <1>t DEF BuildUnits, ChunkTypeOK
    <2> HIDE DEF new
    <2>4. NumberedUnits'
        <3> SUFFICES ASSUME NEW i \in 1 .. Len(units') PROVE units'[i].at = i
            BY DEF NumberedUnits
        <3>1. Len(units') = Len(units) + Len(new) /\ Len(new) \in Nat
            BY <2>2, <2>3
        <3>2. CASE i <= Len(units)
            <4>1. i \in 1 .. Len(units) /\ units'[i] = units[i]
                BY <2>2, <2>3, <3>2, <1>n
            <4> QED  BY <1>e, <4>1 DEF NumberedUnits
        <3>3. CASE i > Len(units)
            <4>1. i - Len(units) \in 1 .. Len(new) /\ units'[i] = new[i - Len(units)]
                BY <2>2, <2>3, <3>1, <3>3, <1>n
            <4> QED  BY <2>2, <4>1, <1>n
        <3> QED  BY <1>n, <3>1, <3>2, <3>3
    <2> QED  BY <1>1, <1>e, <2>4, SameExcerpts DEF BuildUnits, ExcerptInv, BufferFollows
<1>2. CASE Built
    BY <1>2, <1>e, <1>u, SameExcerpts DEF Built, ExcerptInv, BufferFollows
<1>3. CASE WholeDocument
    BY <1>3, <1>u DEF WholeDocument, ExcerptInv, ChunksAreExcerpts, BufferFollows
<1>4. CASE PreSize
    <2>1. chunks' = <<>>
        BY <1>4, <1>c DEF PreSize, BufferInv
    <2> QED  BY <1>4, <1>e, <1>u, <2>1, SameExcerpts DEF PreSize, ExcerptInv, BufferFollows
<1>5. CASE FlushFirst
    <2>1. /\ Flush(buffer, bufferTokens, "append") /\ remaining > 1 /\ pc = "unit"
          /\ units' = units /\ next' = next /\ buffer # <<>>
          /\ buffer \in Seq(Unit) /\ bufferTokens \in Nat
        BY <1>5, <1>t DEF FlushFirst, Overflows, ChunkTypeOK
    <2>2. Stretch(units, buffer, next - 1) /\ Len(buffer) > 0 /\ next - 1 \in Nat /\ next - 1 <= Len(units)
        BY <1>c, <1>n, <2>1 DEF BufferInv, Looping
    <2>3. /\ Len(chunks') = Len(chunks) + 1 /\ chunks'[Len(chunks')].content = buffer
          /\ \A k \in 1 .. Len(chunks) : chunks'[k] = chunks[k]
          /\ pc' = "carry"
        BY <1>t, <2>1, FlushTypes, NewChunkFacts DEF ChunkTypeOK
    <2>4. Len(chunks) > 0 => FollowsLast(next - 1 - Len(buffer) + 1, next - 1)
        <3>1. next - 1 - Len(buffer) + 1 = next - Len(buffer)
            BY <1>n
        <3> QED  BY <1>e, <2>1, <3>1 DEF BufferFollows
    <2>5. ChunksAreExcerpts'
        BY <1>t, <1>e, <2>1, <2>2, <2>3, <2>4, FurtherExcerpt
    <2> QED  BY <1>u, <2>1, <2>3, <2>5 DEF ExcerptInv, BufferFollows
<1>6. CASE AppendUnit
    <2>1. /\ next <= Len(units) /\ next' = next + 1 /\ units' = units /\ pc \in {"unit", "append"}
        BY <1>6, <1>t DEF AppendUnit, PlaceInv
    <2>2. /\ units[next].tokens \in Nat /\ WithUnit \in Seq(Unit) /\ Len(WithUnit) = Len(buffer) + 1
        BY <1>t, <2>1, UnitTypes
    <2>3. Stretch(units, buffer, next - 1)
        BY <1>c, <2>1 DEF BufferInv, Looping
    <2>4. Stretch(units, WithUnit, next)
        BY <1>t, <1>n, <2>1, <2>3, StretchGrows
    <2>5. Len(chunks) > 0 => FollowsLast(next - Len(WithUnit) + 1, next)
        <3> SUFFICES ASSUME Len(chunks) > 0 PROVE FollowsLast(next - Len(WithUnit) + 1, next)
            OBVIOUS
        <3>1. FollowsLast(next - Len(buffer), next - 1) /\ next - Len(WithUnit) + 1 = next - Len(buffer)
            BY <1>e, <1>n, <2>1, <2>2 DEF BufferFollows
        <3>2. chunks[Len(chunks)].content # <<>> /\ chunks[Len(chunks)] \in Chunk
            BY <1>t, <1>e, <1>n, <2>1 DEF ChunksAreExcerpts, ChunkTypeOK
        <3> DEFINE prior == chunks[Len(chunks)].content
        <3>3. prior[Len(prior)].at \in Nat
            <4>1. prior \in Seq(Unit) /\ prior # <<>>
                BY <3>2 DEF Chunk
            <4>2. prior[Len(prior)] \in Unit
                BY <4>1
            <4> QED  BY <4>2 DEF Unit
        <3> QED  BY <1>n, <3>1, <3>3 DEF FollowsLast
    <2> DEFINE tokens == bufferTokens + units[next].tokens
    <2>6. tokens \in Nat
        BY <1>t, <2>2 DEF ChunkTypeOK
    <2>7. CASE ReachesTarget(tokens)
        <3>1. Flush(WithUnit, tokens, "unit") /\ remaining > 1
            BY <1>6, <2>7 DEF AppendUnit, ReachesTarget
        <3> HIDE DEF tokens
        <3>2. /\ Len(chunks') = Len(chunks) + 1 /\ chunks'[Len(chunks')] = NewChunk(WithUnit, tokens)
              /\ \A k \in 1 .. Len(chunks) : chunks'[k] = chunks[k]
              /\ pc' = "carry"
            BY <1>t, <2>2, <2>6, <3>1, FlushTypes
        <3>3. chunks'[Len(chunks')].content = WithUnit
            <4>1. NewChunk(WithUnit, tokens).content = WithUnit
                BY <1>t, <2>2, <2>6, NewChunkFacts DEF ChunkTypeOK
            <4> HIDE DEF NewChunk
            <4> QED  BY <3>2, <4>1, Zenon
        <3>4. Len(WithUnit) > 0 /\ pc # "done"
            BY <1>n, <2>1, <2>2
        <3>5. ChunksAreExcerpts'
            BY <1>t, <1>e, <1>n, <2>1, <2>2, <2>4, <2>5, <3>2, <3>3, <3>4, FurtherExcerpt
        <3> QED  BY <1>u, <2>1, <3>2, <3>5 DEF ExcerptInv, BufferFollows
    <2>8. CASE ~ReachesTarget(tokens)
        <3>1. /\ buffer' = WithUnit /\ pc' = "unit" /\ chunks' = chunks
            BY <1>6, <2>8 DEF AppendUnit
        <3>2. next' - Len(buffer') = next - Len(WithUnit) + 1 /\ next' - 1 = next
            BY <1>n, <2>1, <2>2, <3>1
        <3>3. BufferFollows'
            BY <2>5, <3>1, <3>2 DEF BufferFollows, FollowsLast
        <3> QED  BY <1>e, <1>u, <2>1, <3>1, <3>3, SameExcerpts DEF ExcerptInv
    <2> QED  BY <2>7, <2>8
<1>7. CASE FlushLast
    <2>1. /\ pc = "unit" /\ pc' = "merge" /\ units' = units /\ next - 1 = Len(units)
        BY <1>7, <1>n DEF FlushLast
    <2>2. CASE buffer = <<>>
        <3>1. chunks' = chunks
            BY <1>7, <2>2 DEF FlushLast
        <3> QED  BY <1>e, <1>u, <2>1, <3>1, SameExcerpts DEF ExcerptInv, BufferFollows
    <2>3. CASE buffer # <<>>
        <3>1. /\ chunks' = Append(chunks, NewChunk(buffer, bufferTokens))
              /\ chunks \in Seq(Chunk) /\ buffer \in Seq(Unit) /\ bufferTokens \in Nat
            BY <1>7, <1>t, <2>3 DEF FlushLast, ChunkTypeOK
        <3>2. NewChunk(buffer, bufferTokens) \in Chunk /\ NewChunk(buffer, bufferTokens).content = buffer
            BY <3>1, NewChunkFacts
        <3>3. /\ Len(chunks') = Len(chunks) + 1 /\ chunks'[Len(chunks')].content = buffer
              /\ \A k \in 1 .. Len(chunks) : chunks'[k] = chunks[k]
            BY <3>1, <3>2
        <3>4. Stretch(units, buffer, next - 1) /\ Len(buffer) > 0 /\ next - 1 \in Nat /\ next - 1 <= Len(units)
            BY <1>c, <1>n, <2>1, <2>3, <3>1 DEF BufferInv, Looping
        <3>5. Len(chunks) > 0 => FollowsLast(next - 1 - Len(buffer) + 1, next - 1)
            <4>1. next - 1 - Len(buffer) + 1 = next - Len(buffer)
                BY <1>n
            <4> QED  BY <1>e, <2>1, <4>1 DEF BufferFollows
        <3>6. pc # "done"
            BY <2>1
        <3>7. ChunksAreExcerpts'
            BY <1>t, <1>e, <3>1, <3>3, <3>4, <3>5, <3>6, FurtherExcerpt
        <3> QED  BY <1>u, <2>1, <3>7 DEF ExcerptInv, BufferFollows
    <2> QED  BY <2>2, <2>3
<1>8. CASE CarryUnit
    BY <1>8, <1>e, <1>u, SameExcerpts DEF CarryUnit, ExcerptInv, BufferFollows
<1>9. CASE Carried
    <2>1. /\ pc = "carry" /\ buffer' = carry
          /\ units' = units /\ next' = next /\ chunks' = chunks
        BY <1>9 DEF Carried
    <2>2. /\ Stretch(units, buffer, next - 1) /\ Len(carry) <= Len(buffer)
          /\ Len(chunks) > 0 /\ chunks[Len(chunks)].content = buffer
        BY <1>t, <1>c, <2>1 DEF BufferInv, FlushedInv, PlaceInv, Looping
    <2>3. buffer # <<>> /\ buffer \in Seq(Unit)
        <3>1. Len(chunks) \in 1 .. Len(chunks) /\ pc # "done"
            BY <1>n, <2>1, <2>2
        <3>2. chunks[Len(chunks)].content # <<>>
            BY <1>e, <3>1 DEF ChunksAreExcerpts
        <3> QED  BY <1>t, <2>2, <3>2 DEF ChunkTypeOK
    <2>4. Len(buffer) > 0 /\ next - 1 \in Nat /\ next - 1 <= Len(units)
        BY <1>n, <2>3
    <2>5. buffer[1].at = next - 1 - Len(buffer) + 1 /\ buffer[Len(buffer)].at = next - 1
        BY <1>t, <1>e, <2>2, <2>3, <2>4, StretchExcerpt
    <2>6. BufferFollows'
        BY <1>n, <2>1, <2>2, <2>5 DEF BufferFollows, FollowsLast
    <2> QED  BY <1>e, <1>u, <2>1, <2>6, SameExcerpts DEF ExcerptInv
<1>10. CASE MergeLast
    BY <1>10, <1>u DEF MergeLast, ExcerptInv, ChunksAreExcerpts, BufferFollows
<1>11. CASE UNCHANGED chunkVars
    BY <1>11, <1>e, <1>u DEF chunkVars, ExcerptInv, ChunksAreExcerpts, BufferFollows, FollowsLast, Contiguous
<1> QED  BY <1>1, <1>2, <1>3, <1>4, <1>5, <1>6, <1>7, <1>8, <1>9, <1>10, <1>11 DEF ChunkNext

(* The chunks are excerpts of the document, in its order, each joined to the one before it (flush, *)
(* carry).                                                                                        *)
THEOREM ChunksFollowTheText == ChunkSpec => []ChunksAreExcerpts
<1>1. ExcerptInv => ChunksAreExcerpts
    BY DEF ExcerptInv
<1> QED  BY <1>1, TypeInvAlways, CoverInvInit, CoverInvNext, ExcerptInvInit, ExcerptInvNext, PTL DEF ChunkSpec
-----------------------------------------------------------------------------
(* Arithmetic *)

(* Floor division rounds down, *)
LEMMA DivBound ==
    ASSUME NEW a \in Nat, NEW b \in Nat, b > 0
    PROVE  b * (a \div b) <= a
OBVIOUS

(* ceiling division by less than one. *)
LEMMA CeilDivBelow ==
    ASSUME NEW a \in Nat, NEW b \in Nat, b > 0
    PROVE  CeilDiv(a, b) \in Nat /\ b * (CeilDiv(a, b) - 1) < a
<1> DEFINE q == (a + b - 1) \div b
<1>1. q \in Nat /\ b * q <= a + b - 1
    BY DivBound
<1>2. b * (q - 1) = b * q - b
    BY <1>1
<1> QED  BY <1>1, <1>2 DEF CeilDiv

(* Products grow with their factors. *)
LEMMA TimesMonotone ==
    ASSUME NEW a \in Nat, NEW b \in Nat, NEW c \in Nat, a <= b
    PROVE  a * c <= b * c /\ a * c \in Nat /\ b * c \in Nat
<1>1. /\ b - a \in Nat /\ (b - a) * c \in Nat /\ a * c \in Nat /\ b * c \in Nat
      /\ b * c = a * c + (b - a) * c
    OBVIOUS
<1> DEFINE x == a * c
           y == b * c
           z == (b - a) * c
<1>2. x \in Nat /\ y \in Nat /\ z \in Nat /\ y = x + z
    BY <1>1
<1> HIDE DEF x, y, z
<1>3. x <= y
    BY <1>2
<1> QED  BY <1>2, <1>3 DEF x, y

\* The target is one of its two limits.
LEMMA TargetCases ==
    ASSUME NEW a \in Nat, NEW b \in Nat, NEW c \in Nat
    PROVE  LET limited == Larger(a, Smaller(b, c)) IN
           limited >= a /\ (limited = a \/ limited <= c)
BY DEF Larger, Smaller

(* What the first chunks leave is more than one chunk holds (n_chunks, per_chunk_target). *)
LEMMA RestExceeds ==
    ASSUME SizesInProportion, ChunkTypeOK, Sized, NEW f \in Nat, f >= 1, f < PlannedChunks
    PROVE  total - Quota(f - 1) > MaxChunkTokens
<1> DEFINE n == PlannedChunks
           t == target - 1
<1>1. /\ TargetChunkTokens \in Nat /\ TargetChunkTokens > 0 /\ MinChunkTokens \in Nat
      /\ MaxChunkTokens \in Nat /\ total \in Nat /\ total > MaxChunkTokens
    BY ChunkerAssumption DEF ChunkTypeOK, Sized
<1>2. n \in Nat /\ n >= 2
    BY PlannedType
<1>3. /\ MinChunkTokens <= TargetChunkTokens + 1 /\ MaxChunkTokens <= 2 * (MinChunkTokens - 1)
      /\ MinChunkTokens + MaxChunkTokens <= 2 * TargetChunkTokens + 1
    BY DEF SizesInProportion
<1>4. /\ CeilDiv(total, n) \in Nat /\ n * (CeilDiv(total, n) - 1) < total
    BY <1>1, <1>2, CeilDivBelow
<1>5. /\ target \in Nat /\ target >= MinChunkTokens
      /\ target = MinChunkTokens \/ target <= CeilDiv(total, n)
    BY <1>1, <1>4, TargetCases DEF Sized, ChunkTypeOK
<1>6. n = 2 \/ TargetChunkTokens * (n - 1) < total
    <2>1. /\ CeilDiv(total, TargetChunkTokens) \in Nat
          /\ TargetChunkTokens * (CeilDiv(total, TargetChunkTokens) - 1) < total
        BY <1>1, CeilDivBelow
    <2>2. n = 2 \/ n = CeilDiv(total, TargetChunkTokens)
        BY DEF PlannedChunks, Larger
    <2> QED  BY <2>1, <2>2
<1>7. t \in Nat /\ t >= MinChunkTokens - 1 /\ 2 * t >= MaxChunkTokens
    BY <1>1, <1>3, <1>5
<1> HIDE DEF n
<1>8. (f - 1) * t <= (n - 2) * t /\ (f - 1) * t \in Nat /\ (n - 2) * t \in Nat
    <2>1. f - 1 \in Nat /\ n - 2 \in Nat /\ f - 1 <= n - 2
        BY <1>2 DEF n
    <2> HIDE DEF t
    <2> QED  BY <1>7, <2>1, TimesMonotone
<1>9. (n - 2) * t + MaxChunkTokens < total
    <2>1. CASE n = 2
        <3>1. (n - 2) * t = 0
            BY <1>7, <2>1
        <3> QED  BY <1>1, <3>1
    <2>2. CASE n # 2 /\ target <= CeilDiv(total, n)
        <3>1. t <= CeilDiv(total, n) - 1 /\ CeilDiv(total, n) - 1 \in Nat
            BY <1>1, <1>4, <1>5, <1>7, <2>2
        <3> DEFINE c == CeilDiv(total, n) - 1
        <3>2. t * n <= c * n
            <4> HIDE DEF c, t
            <4> QED  BY <1>2, <1>7, <3>1, TimesMonotone DEF c
        <3>3. c * n = n * c /\ n * c < total /\ c * n \in Nat
            BY <1>2, <1>4, <3>1
        <3>4. t * n = (n - 2) * t + 2 * t
            BY <1>2, <1>7
        <3> HIDE DEF c, t
        <3> QED  BY <1>1, <1>2, <1>7, <1>8, <3>2, <3>3, <3>4
    <2>3. CASE n # 2 /\ target = MinChunkTokens
        <3>1. n - 2 \in Nat /\ 1 <= n - 2
            BY <1>2, <2>3
        <3> DEFINE d == TargetChunkTokens - t
        <3>2. d \in Nat
            BY <1>1, <1>3, <1>7, <2>3
        <3>3. 1 * d <= (n - 2) * d /\ (n - 2) * d \in Nat
            <4> HIDE DEF d
            <4> QED  BY <3>1, <3>2, TimesMonotone
        <3>4. TargetChunkTokens * (n - 1) = (n - 2) * d + (n - 2) * t + TargetChunkTokens
            BY <1>1, <1>2, <1>7
        <3>5. 1 * d = d /\ d + TargetChunkTokens >= MaxChunkTokens
            BY <1>1, <1>3, <1>7, <2>3, <3>2
        <3> HIDE DEF d, t
        <3> QED  BY <1>1, <1>6, <1>8, <2>3, <3>2, <3>3, <3>4, <3>5
    <2> QED  BY <1>5, <2>1, <2>2, <2>3
<1> HIDE DEF t
<1> QED  BY <1>1, <1>8, <1>9 DEF Quota, t
-----------------------------------------------------------------------------
(* The split *)

(* The quota of one more chunk. *)
LEMMA QuotaGrows ==
    ASSUME NEW k \in Nat, target \in Nat, target >= 1
    PROVE  /\ Quota(k) \in Nat /\ Quota(k + 1) \in Nat /\ Quota(k + 1) = Quota(k) + (target - 1)
           /\ Quota(k) <= Quota(k + 1)
<1> DEFINE t == target - 1
<1>1. t \in Nat
    OBVIOUS
<1>2. k * t \in Nat /\ (k + 1) * t = k * t + t
    BY <1>1
<1> QED  BY <1>1, <1>2 DEF Quota

(* The target when a document is split (per_chunk_target). *)
LEMMA SizedTarget ==
    ASSUME SizesInProportion, ChunkTypeOK, Sized
    PROVE  target >= 1 /\ 2 * (target - 1) >= MaxChunkTokens
<1>1. /\ MinChunkTokens \in Nat /\ MaxChunkTokens \in Nat /\ total \in Nat
    BY ChunkerAssumption DEF ChunkTypeOK
<1>2. PlannedChunks \in Nat /\ PlannedChunks >= 2
    BY PlannedType
<1>3. CeilDiv(total, PlannedChunks) \in Nat
    BY <1>1, <1>2, CeilDivType
<1>4. target \in Nat /\ target >= MinChunkTokens
    BY <1>1, <1>3, TargetCases DEF Sized, ChunkTypeOK
<1> QED  BY <1>1, <1>4 DEF SizesInProportion

(* The sums of the units so far, and of one more paragraph. *)
LEMMA SumsOfBoth ==
    ASSUME NEW old \in Seq(Unit), NEW new \in Seq(Unit), NEW m \in Nat, NEW tokens \in Nat,
           NEW sum, HasSums(old, sum, m), NEW more, HasSums(new, more, tokens)
    PROVE  \E both : HasSums(old \o new, both, m + tokens)
<1>0. /\ sum \in [0 .. Len(old) -> Nat] /\ sum[0] = 0 /\ sum[Len(old)] = m
      /\ \A i \in 1 .. Len(old) : sum[i] = sum[i - 1] + old[i].tokens
      /\ more \in [0 .. Len(new) -> Nat] /\ more[0] = 0 /\ more[Len(new)] = tokens
      /\ \A i \in 1 .. Len(new) : more[i] = more[i - 1] + new[i].tokens
    BY DEF HasSums
<1> DEFINE o == Len(old)
           n == Len(new)
           both == [i \in 0 .. o + n |-> IF i <= o THEN sum[i] ELSE m + more[i - o]]
<1>1. o \in Nat /\ n \in Nat /\ Len(old \o new) = o + n
    OBVIOUS
<1>2. /\ \A i \in 0 .. o : sum[i] \in Nat
      /\ \A i \in 0 .. n : more[i] \in Nat
    BY <1>0
<1>3. both \in [0 .. o + n -> Nat]
    <2> SUFFICES ASSUME NEW i \in 0 .. o + n PROVE (IF i <= o THEN sum[i] ELSE m + more[i - o]) \in Nat
        OBVIOUS
    <2>1. CASE i <= o
        <3>1. i \in 0 .. o
            BY <1>1, <2>1
        <3> QED  BY <1>2, <2>1, <3>1
    <2>2. CASE ~(i <= o)
        <3>1. i - o \in 0 .. n
            BY <1>1, <2>2
        <3>2. more[i - o] \in Nat
            BY <1>2, <3>1
        <3> QED  BY <2>2, <3>2
    <2> QED  BY <2>1, <2>2
<1>4. both[0] = 0
    <2>1. 0 \in 0 .. o + n /\ 0 <= o
        BY <1>1
    <2> QED  BY <1>0, <2>1
<1>5. both[o + n] = m + tokens
    <2>1. o + n \in 0 .. o + n
        BY <1>1
    <2>2. CASE n = 0
        <3>1. o + n = o /\ both[o + n] = sum[o] /\ more[0] = tokens
            BY <1>0, <1>1, <2>1, <2>2
        <3> QED  BY <1>0, <3>1
    <2>3. CASE n # 0
        <3>1. ~(o + n <= o) /\ o + n - o = n
            BY <1>1, <2>3
        <3> QED  BY <1>0, <2>1, <3>1
    <2> QED  BY <2>2, <2>3
<1>6. ASSUME NEW i \in 1 .. o + n PROVE both[i] = both[i - 1] + (old \o new)[i].tokens
    <2>1. i \in 0 .. o + n /\ i - 1 \in 0 .. o + n
        BY <1>1
    <2>2. CASE i <= o
        <3>1. i \in 1 .. o /\ i - 1 <= o
            BY <1>1, <2>2
        <3>2. both[i] = sum[i] /\ both[i - 1] = sum[i - 1]
            BY <2>1, <2>2, <3>1
        <3>3. (old \o new)[i] = old[i]
            BY <3>1
        <3> QED  BY <1>0, <3>1, <3>2, <3>3
    <2>3. CASE i > o
        <3>1. i - o \in 1 .. n /\ ~(i <= o)
            BY <1>1, <2>3
        <3>2. both[i] = m + more[i - o]
            BY <2>1, <3>1
        <3>3. both[i - 1] = m + more[i - o - 1]
            <4>1. CASE i - 1 = o
                <5>1. both[i - 1] = sum[o] /\ i - o - 1 = 0 /\ i - 1 <= o
                    BY <1>1, <2>1, <4>1
                <5> QED  BY <1>0, <5>1
            <4>2. CASE i - 1 # o
                <5>1. ~(i - 1 <= o) /\ i - 1 - o = i - o - 1
                    BY <1>1, <2>3, <4>2
                <5> QED  BY <2>1, <5>1
            <4> QED  BY <4>1, <4>2
        <3>4. (old \o new)[i] = new[i - o]
            BY <3>1
        <3>5. more[i - o] = more[i - o - 1] + new[i - o].tokens
            BY <1>0, <3>1
        <3>6. more[i - o - 1] \in Nat
            <4>1. i - o - 1 \in 0 .. n
                BY <1>1, <3>1
            <4> QED  BY <1>2, <4>1
        <3>7. new[i - o].tokens \in Nat
            <4>1. new[i - o] \in Unit
                BY <3>1
            <4> QED  BY <4>1 DEF Unit
        <3> HIDE DEF both
        <3> QED  BY <3>2, <3>3, <3>4, <3>5, <3>6, <3>7
    <2> QED  BY <1>1, <2>2, <2>3
<1> HIDE DEF both
<1>7. HasSums(old \o new, both, m + tokens)
    BY <1>1, <1>3, <1>4, <1>5, <1>6 DEF HasSums
<1> QED  BY <1>7

(* The units of a paragraph fit a chunk each, and their sums are the paragraph's. *)
LEMMA DividedUnits ==
    ASSUME NEW paragraph \in Paragraph, ChunkTypeOK, Divided(paragraph)
    PROVE  LET new == UnitsOf(paragraph) IN
           /\ \A i \in 1 .. Len(new) : new[i].tokens <= MaxChunkTokens
           /\ \E more : HasSums(new, more, paragraph.tokens)
<1> DEFINE ls == Lengths(paragraph)
           new == UnitsOf(paragraph)
<1>1. paragraph.tokens \in Nat /\ paragraph.sentences \in Seq(Nat) /\ MaxChunkTokens \in Nat
    BY ChunkerAssumption DEF Paragraph
<1>2. ls \in Seq(Nat)
    BY <1>1 DEF Lengths
<1>3. new \in Seq(Unit)
    BY UnitsOfType DEF ChunkTypeOK
<1>4. Len(new) = Len(ls) /\ \A i \in 1 .. Len(ls) : new[i].tokens = ls[i]
    <2>1. Len(ls) \in Nat
        BY <1>2
    <2> HIDE DEF ls
    <2> QED  BY <2>1 DEF UnitsOf, ls
<1>5. /\ \A i \in 1 .. Len(ls) : ls[i] <= MaxChunkTokens
      /\ \E more \in [0 .. Len(ls) -> Nat] :
            /\ more[0] = 0 /\ more[Len(ls)] = paragraph.tokens
            /\ \A i \in 1 .. Len(ls) : more[i] = more[i - 1] + ls[i]
    <2>1. CASE paragraph.tokens <= MaxChunkTokens
        <3>1. ls = <<paragraph.tokens>> /\ Len(ls) = 1 /\ ls[1] = paragraph.tokens
            BY <2>1 DEF Lengths
        <3> DEFINE more == [i \in 0 .. 1 |-> IF i = 0 THEN 0 ELSE paragraph.tokens]
        <3>2. /\ more \in [0 .. 1 -> Nat] /\ more[0] = 0 /\ more[1] = paragraph.tokens
            BY <1>1
        <3>3. \A i \in 1 .. 1 : more[i] = more[i - 1] + ls[i]
            BY <1>1, <3>1, <3>2
        <3> HIDE DEF more, ls
        <3> QED  BY <2>1, <3>1, <3>2, <3>3
    <2>2. CASE paragraph.tokens > MaxChunkTokens
        <3>1. ls = paragraph.sentences
            BY <1>1, <2>2 DEF Lengths
        <3>2. PICK sum \in [0 .. Len(ls) -> 0 .. paragraph.tokens] :
                /\ sum[0] = 0 /\ sum[Len(ls)] = paragraph.tokens
                /\ \A i \in 1 .. Len(ls) : sum[i] = sum[i - 1] + paragraph.sentences[i]
            BY <2>2, <3>1 DEF Divided
        <3>3. sum \in [0 .. Len(ls) -> Nat]
            BY <1>1, <3>2
        <3>4. \A i \in 1 .. Len(ls) : ls[i] <= MaxChunkTokens
            BY <2>2, <3>1 DEF Divided
        <3> QED  BY <3>1, <3>2, <3>3, <3>4
    <2> QED  BY <1>1, <2>1, <2>2
<1> HIDE DEF ls, new
<1>6. \A i \in 1 .. Len(new) : new[i].tokens <= MaxChunkTokens
    BY <1>4, <1>5
<1>7. PICK more \in [0 .. Len(ls) -> Nat] :
        /\ more[0] = 0 /\ more[Len(ls)] = paragraph.tokens
        /\ \A i \in 1 .. Len(ls) : more[i] = more[i - 1] + ls[i]
    BY <1>5
<1>8. HasSums(new, more, paragraph.tokens)
    BY <1>4, <1>7 DEF HasSums
<1> QED  BY <1>6, <1>8 DEF new
(* The sums are numbers and grow by the next unit. *)
LEMMA SumTypes ==
    ASSUME ChunkTypeOK, NEW sum, Sums(sum)
    PROVE  /\ sum[next - 1] \in Nat
           /\ next <= Len(units) =>
                sum[next] = sum[next - 1] + units[next].tokens /\ units[next].tokens \in Nat
           /\ next = Len(units) + 1 => sum[next - 1] = total
<1>1. next \in Nat /\ next >= 1 /\ next <= Len(units) + 1 /\ Len(units) \in Nat
    BY DEF ChunkTypeOK
<1>2. next - 1 \in 0 .. Len(units)
    BY <1>1
<1>3. next <= Len(units) => next \in 1 .. Len(units)
    BY <1>1
<1>4. next = Len(units) + 1 => next - 1 = Len(units)
    BY <1>1
<1> QED  BY <1>2, <1>3, <1>4, UnitTypes DEF Sums, HasSums

LEMMA FillInvInit == SentencesFit /\ ChunkInit => FillInv
<1> SUFFICES ASSUME SentencesFit, ChunkInit PROVE FillInv
    OBVIOUS
<1> DEFINE sum == [i \in {0} |-> 0]
<1>1. Len(units) = 0 /\ next - 1 = 0 /\ total = 0 /\ 0 .. 0 = {0}
    BY DEF ChunkInit
<1>2. Sums(sum)
    BY <1>1 DEF Sums, HasSums
<1>3. SplitBy(sum)
    BY DEF ChunkInit, SplitBy, NotAhead, LastIsLarge, Looping
<1>4. UnitsFit
    BY <1>1 DEF ChunkInit, UnitsFit, SentencesFit
<1> HIDE DEF sum
<1> QED  BY <1>2, <1>3, <1>4 DEF ChunkInit, FillInv, EmptyIsZero, Looping, NoFragmentLeft

(* A step that begins or ends between the loop's steps leaves what the sums say. *)
LEMMA SameSums ==
    ASSUME NEW sum, Sums(sum), units' = units, total' = total
    PROVE  Sums(sum)'
BY DEF Sums

LEMMA SameSized ==
    ASSUME Sized, total' = total, target' = target
    PROVE  Sized'
BY DEF Sized, PlannedChunks, Larger, Smaller, CeilDiv

(* A chunk is cut: with c its length and r that of the units taken, the last chunk is large and *)
(* the next one begins no further than it may.                                                  *)
LEMMA FlushFills ==
    ASSUME ChunkTypeOK, NEW content \in Seq(Unit), content # <<>>, NEW tokens \in Nat,
           NEW after \in {"unit", "append"}, remaining > 1, Flush(content, tokens, after),
           target' = target, target >= 1, NEW read \in Nat, read - tokens <= Quota(Len(chunks)),
           after = "append" => read <= Quota(Len(chunks) + 1),
           after = "unit" => /\ read - content[Len(content)].tokens <= Quota(Len(chunks) + 1)
                             /\ read <= Quota(Len(chunks) + 2)
    PROVE  NotAhead(read)' /\ LastIsLarge(read)' /\ EmptyIsZero' /\ NoFragmentLeft' /\ pc' = "carry"
<1>1. /\ Len(chunks') = Len(chunks) + 1 /\ chunks'[Len(chunks')] = NewChunk(content, tokens)
      /\ buffer' = content /\ carry' = <<>> /\ carryTokens' = 0 /\ pc' = "carry" /\ resume' = after
      /\ bufferTokens' = tokens
    BY FlushTypes
<1>2. Len(chunks) \in Nat /\ Len(content) > 0 /\ target \in Nat
    BY DEF ChunkTypeOK
<1>3. NewChunk(content, tokens).tokens = tokens
    BY DEF NewChunk
<1>4. Quota(Len(chunks)) \in Nat
    BY <1>2, QuotaGrows
<1>5. /\ Len(chunks') - 1 = Len(chunks) /\ Len(chunks') + 1 = Len(chunks) + 2
    BY <1>1, <1>2
<1>6. /\ Quota(Len(chunks) - 1)' = Quota(Len(chunks))
      /\ Quota(Len(chunks))' = Quota(Len(chunks) + 1)
      /\ Quota(Len(chunks) + 1)' = Quota(Len(chunks) + 2)
    BY <1>1, <1>5 DEF Quota
<1>7. chunks'[Len(chunks')].tokens = tokens
    <2> HIDE DEF NewChunk
    <2> QED  BY <1>1, <1>3, Zenon
<1>8. tokens + 0 >= read - Quota(Len(chunks))
    BY <1>4
<1>9. LastIsLarge(read)'
    BY <1>1, <1>6, <1>7, <1>8 DEF LastIsLarge
<1>10. NotAhead(read)'
    <2>1. Len(buffer') > 0 /\ (Len(carry') > 0 => carryTokens' >= buffer'[Len(buffer')].tokens)
        BY <1>1, <1>2
    <2>2. pc' # "unit" /\ pc' # "append"
        BY <1>1
    <2>3. buffer'[Len(buffer')].tokens = content[Len(content)].tokens
        BY <1>1
    <2> QED  BY <1>1, <1>6, <2>1, <2>2, <2>3 DEF NotAhead
<1> QED  BY <1>1, <1>9, <1>10 DEF EmptyIsZero, NoFragmentLeft

LEMMA FillInvNext ==
    SizesInProportion /\ TypeInv /\ CoverInv /\ ResultInv /\ FillInv /\ [ChunkNext]_chunkVars => FillInv'
<1> SUFFICES ASSUME SizesInProportion, TypeInv, CoverInv, ResultInv, FillInv, [ChunkNext]_chunkVars
             PROVE  FillInv'
    OBVIOUS
<1>t. ChunkTypeOK /\ PlaceInv
    BY DEF TypeInv
<1>f. UnitsFit /\ EmptyIsZero /\ (pc \in Looping => Sized) /\ NoFragmentLeft
    BY DEF FillInv
<1>S. PICK sum : Sums(sum) /\ SplitBy(sum)
    BY DEF FillInv
<1>R. PICK read \in Nat : read = sum[next - 1]
    BY <1>t, <1>S, SumTypes
<1>s. Sums(sum) /\ NotAhead(read) /\ LastIsLarge(read)
    BY <1>S, <1>R DEF SplitBy
<1>n. /\ next \in Nat /\ next >= 1 /\ next <= Len(units) + 1 /\ Len(units) \in Nat
      /\ Len(buffer) \in Nat /\ Len(carry) \in Nat /\ Len(chunks) \in Nat /\ remaining \in Nat
      /\ target \in Nat /\ total \in Nat /\ bufferTokens \in Nat /\ carryTokens \in Nat
      /\ OverlapTokens \in Nat /\ MaxChunkTokens \in Nat /\ MinChunkTokens \in Nat
    BY <1>t, ChunkerAssumption DEF ChunkTypeOK
<1>z. pc \in Looping => target >= 1 /\ 2 * (target - 1) >= MaxChunkTokens
    BY <1>t, <1>f, SizedTarget
<1>q. target >= 1 => /\ Quota(Len(chunks)) \in Nat /\ Quota(Len(chunks) + 1) \in Nat
                     /\ Quota(Len(chunks) + 1) = Quota(Len(chunks)) + (target - 1)
                     /\ Quota(Len(chunks) + 2) = Quota(Len(chunks) + 1) + (target - 1)
                     /\ Quota(Len(chunks) + 2) \in Nat
    <2>1. Len(chunks) + 1 \in Nat /\ Len(chunks) + 1 + 1 = Len(chunks) + 2
        BY <1>n
    <2> QED  BY <1>n, <2>1, QuotaGrows
<1>k. /\ units' = units /\ paragraphs' = paragraphs => UnitsFit'
      /\ total' = total /\ target' = target /\ (pc' \in Looping => pc \in Looping) =>
            (pc' \in Looping => Sized')
      /\ units' = units /\ total' = total => Sums(sum)'
    BY <1>f, <1>s, SameSums, SameSized DEF UnitsFit
<1>1. CASE BuildUnits
    <2> DEFINE first == Head(paragraphs)
               new == UnitsOf(first)
    <2>1. /\ pc = "build" /\ pc' = "build" /\ paragraphs # <<>> /\ paragraphs' = Tail(paragraphs)
          /\ units' = units \o new /\ total' = total + first.tokens
          /\ buffer' = buffer /\ bufferTokens' = bufferTokens
          /\ carry' = carry /\ carryTokens' = carryTokens /\ next' = next
        BY <1>1 DEF BuildUnits
    <2>2. /\ first \in Paragraph /\ Divided(first) /\ paragraphs \in Seq(Paragraph)
        <3>1. 1 \in 1 .. Len(paragraphs) /\ first = paragraphs[1] /\ paragraphs \in Seq(Paragraph)
            BY <1>t, <2>1 DEF ChunkTypeOK
        <3> QED  BY <1>f, <3>1 DEF UnitsFit
    <2>3. new \in Seq(Unit) /\ units \in Seq(Unit) /\ first.tokens \in Nat
        BY <1>t, <2>2, UnitsOfType DEF ChunkTypeOK, Paragraph
    <2>4. /\ \A i \in 1 .. Len(new) : new[i].tokens <= MaxChunkTokens
          /\ \E more : HasSums(new, more, first.tokens)
        BY <1>t, <2>2, DividedUnits
    <2> HIDE DEF new, first
    <2>5. PICK more : HasSums(new, more, first.tokens)
        BY <2>4
    <2>6. PICK both : HasSums(units \o new, both, total + first.tokens)
        BY <1>n, <1>s, <2>3, <2>5, SumsOfBoth, Zenon DEF Sums
    <2>8. Sums(both)'
        BY <2>1, <2>6 DEF Sums
    <2>9. SplitBy(both)'
        BY <2>1 DEF SplitBy, NotAhead, LastIsLarge, Looping
    <2>10. \A i \in 1 .. Len(units') : units'[i].tokens <= MaxChunkTokens
        <3> SUFFICES ASSUME NEW i \in 1 .. Len(units') PROVE units'[i].tokens <= MaxChunkTokens
            OBVIOUS
        <3>1. Len(units') = Len(units) + Len(new) /\ Len(new) \in Nat
            BY <2>1, <2>3
        <3>2. CASE i <= Len(units)
            <4>1. i \in 1 .. Len(units) /\ units'[i] = units[i]
                BY <1>n, <2>1, <2>3, <3>2
            <4> QED  BY <1>f, <4>1 DEF UnitsFit
        <3>3. CASE i > Len(units)
            <4>1. i - Len(units) \in 1 .. Len(new) /\ units'[i] = new[i - Len(units)]
                BY <1>n, <2>1, <2>3, <3>1, <3>3
            <4> QED  BY <2>4, <4>1
        <3> QED  BY <1>n, <3>1, <3>2, <3>3
    <2>11. \A i \in 1 .. Len(paragraphs') : Divided(paragraphs'[i])
        <3> SUFFICES ASSUME NEW i \in 1 .. Len(paragraphs') PROVE Divided(paragraphs'[i])
            OBVIOUS
        <3>1. i + 1 \in 1 .. Len(paragraphs) /\ paragraphs'[i] = paragraphs[i + 1]
            BY <2>1, <2>2
        <3> QED  BY <1>f, <3>1 DEF UnitsFit
    <2>12. UnitsFit'
        BY <2>10, <2>11 DEF UnitsFit, Divided
    <2> QED  BY <1>f, <2>1, <2>8, <2>9, <2>12 DEF FillInv, EmptyIsZero, Looping, NoFragmentLeft
<1>2. CASE Built
    <2>1. /\ pc' \in {"done", "size"} /\ units' = units /\ paragraphs' = paragraphs
          /\ total' = total /\ buffer' = buffer /\ bufferTokens' = bufferTokens
          /\ carry' = carry /\ carryTokens' = carryTokens /\ next' = next
        BY <1>2 DEF Built
    <2>2. SplitBy(sum)'
        BY <2>1 DEF SplitBy, NotAhead, LastIsLarge, Looping
    <2> QED  BY <1>f, <1>k, <2>1, <2>2 DEF FillInv, EmptyIsZero, Looping, NoFragmentLeft
<1>3. CASE WholeDocument
    <2>1. /\ pc' = "done" /\ units' = units /\ paragraphs' = paragraphs
          /\ total' = total /\ buffer' = buffer /\ bufferTokens' = bufferTokens
          /\ carry' = carry /\ carryTokens' = carryTokens
        BY <1>3 DEF WholeDocument
    <2>2. SplitBy(sum)'
        BY <2>1 DEF SplitBy, NotAhead, LastIsLarge, Looping
    <2> QED  BY <1>f, <1>k, <2>1, <2>2 DEF FillInv, EmptyIsZero, Looping, NoFragmentLeft
<1>4. CASE PreSize
    <2>1. /\ pc = "size" /\ pc' = "unit" /\ units' = units /\ paragraphs' = paragraphs
          /\ total' = total /\ buffer' = buffer /\ bufferTokens' = bufferTokens
          /\ carry' = carry /\ carryTokens' = carryTokens /\ next' = next
          /\ chunks' = chunks /\ total > MaxChunkTokens
          /\ target' = Larger(MinChunkTokens, Smaller(MaxChunkTokens, CeilDiv(total, PlannedChunks)))
        BY <1>4 DEF PreSize
    <2>2. Sized'
        BY <2>1 DEF Sized, PlannedChunks, Larger, Smaller, CeilDiv
    <2>3. next = 1 /\ Len(chunks) = 0 /\ bufferTokens = 0
        BY <1>f, <2>1 DEF CoverInv, BufferInv, EmptyIsZero
    <2>4. next' - 1 = 0 /\ sum[0] = 0
        BY <1>s, <2>1, <2>3 DEF Sums, HasSums
    <2>5. target' \in Nat /\ target' >= 1
        <3>1. PlannedChunks \in Nat /\ PlannedChunks >= 2
            BY <1>t, PlannedType
        <3>2. CeilDiv(total, PlannedChunks) \in Nat
            <4>1. PlannedChunks \in Nat \ {0}
                BY <3>1
            <4> QED  BY <1>n, <4>1, CeilDivType
        <3>3. target' \in Nat /\ target' >= MinChunkTokens
            <4>1. Larger(MinChunkTokens, Smaller(MaxChunkTokens, CeilDiv(total, PlannedChunks))) \in Nat
                BY <1>n, <3>2 DEF Larger, Smaller
            <4> QED  BY <1>n, <2>1, <3>2, <4>1, TargetCases, Zenon
        <3> QED  BY <1>n, <3>3 DEF SizesInProportion
    <2>6. 0 - 0 <= Quota(0)' /\ 0 <= Quota(0 + 1)'
        <3>1. \A k \in Nat : 0 * k = 0 /\ (0 + 1) * k >= 0
            OBVIOUS
        <3>2. target' - 1 \in Nat
            <4> \A k \in Nat : k >= 1 => k - 1 \in Nat
                OBVIOUS
            <4> QED  BY <2>5
        <3> QED  BY <3>1, <3>2 DEF Quota
    <2>7. SplitBy(sum)'
        BY <2>1, <2>3, <2>4, <2>6 DEF SplitBy, NotAhead, LastIsLarge
    <2> QED  BY <1>f, <1>k, <2>1, <2>2, <2>7 DEF FillInv, EmptyIsZero, NoFragmentLeft
<1>5. CASE FlushFirst
    <2>1. /\ pc = "unit" /\ Flush(buffer, bufferTokens, "append") /\ remaining > 1 /\ buffer # <<>>
          /\ units' = units /\ paragraphs' = paragraphs /\ total' = total
          /\ next' = next /\ target' = target /\ buffer \in Seq(Unit)
        BY <1>5, <1>t DEF FlushFirst, Overflows, ChunkTypeOK
    <2>2. /\ read - bufferTokens <= Quota(Len(chunks)) /\ read <= Quota(Len(chunks) + 1)
        BY <1>s, <2>1 DEF NotAhead
    <2>3. target >= 1
        BY <1>z, <2>1 DEF Looping
    <2>4. NotAhead(read)' /\ LastIsLarge(read)' /\ EmptyIsZero' /\ NoFragmentLeft' /\ pc' = "carry"
        BY <1>t, <1>n, <2>1, <2>2, <2>3, FlushFills
    <2>5. SplitBy(sum)'
        BY <1>R, <2>1, <2>4 DEF SplitBy
    <2>6. pc \in Looping
        BY <2>1 DEF Looping
    <2> QED  BY <1>k, <2>1, <2>4, <2>5, <2>6 DEF FillInv
<1>6. CASE AppendUnit
    <2>1. /\ next <= Len(units) /\ next' = next + 1 /\ units' = units /\ paragraphs' = paragraphs
          /\ total' = total /\ target' = target /\ pc \in Looping
        BY <1>6, <1>t DEF AppendUnit, PlaceInv, Looping
    <2>2. /\ WithUnit \in Seq(Unit) /\ Len(WithUnit) = Len(buffer) + 1
        BY <1>t, <2>1, UnitTypes
    <2>u. PICK u \in Nat : u = units[next].tokens
        BY <1>t, <2>1, UnitTypes
    <2>k. PICK tokens \in Nat : tokens = bufferTokens + u
        BY <1>n
    <2>f. PICK f \in Nat : f = Len(chunks)
        BY <1>n
    <2>r. PICK r \in Nat : r = read + u
        OBVIOUS
    <2>3. u <= MaxChunkTokens
        <3>1. next \in 1 .. Len(units)
            BY <1>n, <2>1
        <3> QED  BY <1>f, <2>u, <3>1 DEF UnitsFit
    <2>4. sum[next] = read + u /\ next' - 1 = next
        <3>1. sum[next] = read + u
            BY <1>t, <1>s, <1>n, <1>R, <2>1, <2>u, SumTypes
        <3> QED  BY <1>n, <2>1, <3>1
    <2>5. WithUnit # <<>> /\ WithUnit[Len(WithUnit)] = units[next]
        <3>1. buffer \in Seq(Unit) /\ units[next] \in Unit
            BY <1>t, <2>1, UnitTypes DEF ChunkTypeOK
        <3> QED  BY <1>n, <2>2, <3>1 DEF WithUnit
    <2>6. target >= 1 /\ 2 * (target - 1) >= MaxChunkTokens
        BY <1>z, <2>1
    <2>7. pc = "unit" /\ remaining > 1 =>
            /\ read - bufferTokens <= Quota(f) /\ read <= Quota(f + 1)
            /\ tokens <= MaxChunkTokens
        <3> SUFFICES ASSUME pc = "unit", remaining > 1
                     PROVE  /\ read - bufferTokens <= Quota(f) /\ read <= Quota(f + 1)
                            /\ tokens <= MaxChunkTokens
            OBVIOUS
        <3>1. ~Overflows
            BY <1>6 DEF AppendUnit
        <3>2. buffer = <<>> \/ ~(tokens > MaxChunkTokens)
            BY <2>u, <2>k, <3>1 DEF Overflows
        <3>3. buffer = <<>> => bufferTokens = 0
            BY <1>f DEF EmptyIsZero
        <3>4. tokens <= MaxChunkTokens
            BY <1>n, <2>k, <2>3, <3>2, <3>3
        <3> QED  BY <1>s, <2>f, <3>4 DEF NotAhead
    <2>8. pc = "append" => read - bufferTokens <= Quota(f) /\ read <= Quota(f)
        BY <1>s, <2>f DEF NotAhead
    <2>9. pc = "unit" \/ pc = "append"
        BY <1>6 DEF AppendUnit
    <2>10. f > 0 => chunks[f].tokens + bufferTokens >= read - Quota(f - 1)
        BY <1>s, <2>1, <2>9, <2>f DEF LastIsLarge
    <2>11. CASE ReachesTarget(tokens)
        <3>1. Flush(WithUnit, tokens, "unit") /\ remaining > 1
            BY <1>6, <2>11, <2>u, <2>k DEF AppendUnit, ReachesTarget
        <3>3. /\ r - tokens <= Quota(f)
              /\ r - WithUnit[Len(WithUnit)].tokens <= Quota(f + 1)
              /\ r <= Quota(f + 2)
            <4>1. WithUnit[Len(WithUnit)].tokens = u
                BY <2>5, <2>u
            <4>2. CASE pc = "unit"
                <5>1. read - bufferTokens <= Quota(f) /\ read <= Quota(f + 1) /\ tokens <= MaxChunkTokens
                    BY <2>7, <3>1, <4>2
                <5>2. /\ Quota(f) \in Nat /\ Quota(f + 1) \in Nat /\ Quota(f + 2) \in Nat
                      /\ Quota(f + 1) = Quota(f) + (target - 1)
                      /\ Quota(f + 2) = Quota(f + 1) + (target - 1)
                    BY <1>q, <2>6, <2>f
                <5>3. r = read - bufferTokens + tokens
                    BY <1>n, <2>k, <2>r
                <5>4. r - tokens <= Quota(f)
                    BY <1>n, <5>1, <5>2, <5>3
                <5>5. r - WithUnit[Len(WithUnit)].tokens <= Quota(f + 1)
                    BY <2>r, <4>1, <5>1, <5>2
                <5>6. r <= Quota(f + 2)
                    <6> DEFINE q == Quota(f)
                               t == target - 1
                    <6>1. q \in Nat /\ t \in Nat /\ Quota(f + 2) = q + t + t /\ MaxChunkTokens <= 2 * t
                        BY <1>n, <2>6, <5>2
                    <6>2. read - bufferTokens + tokens <= q + MaxChunkTokens
                        BY <1>n, <5>1, <6>1
                    <6> HIDE DEF q, t
                    <6> QED  BY <1>n, <5>3, <6>1, <6>2
                <5> QED  BY <5>4, <5>5, <5>6
            <4>3. CASE pc = "append"
                <5>1. read - bufferTokens <= Quota(f) /\ read <= Quota(f)
                    BY <2>8, <4>3
                <5>2. /\ Quota(f) \in Nat /\ Quota(f + 1) \in Nat /\ Quota(f + 2) \in Nat
                      /\ Quota(f + 1) = Quota(f) + (target - 1)
                      /\ Quota(f + 2) = Quota(f + 1) + (target - 1)
                    BY <1>q, <2>6, <2>f
                <5>3. r = read - bufferTokens + tokens
                    BY <1>n, <2>k, <2>r
                <5>4. r - tokens <= Quota(f)
                    BY <1>n, <5>1, <5>2, <5>3
                <5>5. r - WithUnit[Len(WithUnit)].tokens <= Quota(f + 1)
                    BY <1>n, <2>6, <2>r, <4>1, <5>1, <5>2
                <5>6. r <= Quota(f + 2)
                    <6> DEFINE q == Quota(f)
                               t == target - 1
                    <6>1. q \in Nat /\ t \in Nat /\ Quota(f + 2) = q + t + t /\ MaxChunkTokens <= 2 * t
                        BY <1>n, <2>6, <5>2
                    <6>2. read <= q
                        BY <5>1
                    <6> HIDE DEF q, t
                    <6> QED  BY <1>n, <2>3, <2>r, <6>1, <6>2
                <5> QED  BY <5>4, <5>5, <5>6
            <4> QED  BY <2>9, <4>2, <4>3
        <3>4. /\ NotAhead(r)' /\ LastIsLarge(r)' /\ EmptyIsZero' /\ NoFragmentLeft'
              /\ pc' = "carry"
            <4>1. PICK content \in Seq(Unit) : content = WithUnit
                BY <2>2
            <4>2. Flush(content, tokens, "unit") /\ content # <<>>
                BY <2>5, <3>1, <4>1
            <4>3. /\ r - tokens <= Quota(Len(chunks)) /\ r <= Quota(Len(chunks) + 2)
                  /\ r - content[Len(content)].tokens <= Quota(Len(chunks) + 1)
                BY <2>f, <2>r, <3>3, <4>1
            <4>4. "unit" \in {"unit", "append"} /\ "unit" # "append" /\ target' = target
                BY <2>1
            <4> QED  BY <1>t, <2>6, <3>1, <4>2, <4>3, <4>4, FlushFills, Zenon
        <3>5. SplitBy(sum)'
            BY <2>4, <2>r, <3>4 DEF SplitBy
        <3> QED  BY <1>k, <2>1, <3>4, <3>5 DEF FillInv
    <2>12. CASE ~ReachesTarget(tokens)
        <3>1. /\ buffer' = WithUnit /\ bufferTokens' = tokens /\ pc' = "unit"
              /\ carry' = carry /\ carryTokens' = carryTokens
              /\ remaining' = remaining /\ chunks' = chunks
            BY <1>6, <2>12, <2>u, <2>k DEF AppendUnit
        <3>2. /\ Len(chunks') = f /\ Quota(Len(chunks))' = Quota(f)
              /\ Quota(Len(chunks) + 1)' = Quota(f + 1) /\ Quota(Len(chunks) - 1)' = Quota(f - 1)
            BY <2>1, <2>f, <3>1 DEF Quota
        <3>3. remaining > 1 => r - tokens <= Quota(f) /\ r <= Quota(f + 1)
            <4> SUFFICES ASSUME remaining > 1
                         PROVE  r - tokens <= Quota(f) /\ r <= Quota(f + 1)
                OBVIOUS
            <4>1. ~(tokens >= target)
                BY <2>12 DEF ReachesTarget
            <4>2. read - bufferTokens <= Quota(f)
                BY <2>7, <2>8, <2>9
            <4>3. Quota(f) \in Nat /\ Quota(f + 1) \in Nat /\ Quota(f + 1) = Quota(f) + (target - 1)
                BY <1>q, <2>6, <2>f
            <4> QED  BY <1>n, <2>k, <2>r, <4>1, <4>2, <4>3
        <3>4. NotAhead(r)'
            <4> QED  BY <2>r, <3>1, <3>2, <3>3 DEF NotAhead
        <3>5. f > 0 => chunks[f].tokens + tokens >= r - Quota(f - 1)
            <4> SUFFICES ASSUME f > 0 PROVE chunks[f].tokens + tokens >= r - Quota(f - 1)
                OBVIOUS
            <4>1. chunks[f].tokens \in Nat
                <5>1. f \in 1 .. Len(chunks)
                    BY <2>f
                <5>2. chunks[f] \in Chunk
                    BY <1>t, <5>1 DEF ChunkTypeOK
                <5> QED  BY <5>2 DEF Chunk
            <4>2. Quota(f - 1) \in Nat
                <5>1. f - 1 \in Nat
                    BY <1>n
                <5> QED  BY <1>n, <2>r, <2>k, <2>6, <5>1, QuotaGrows
            <4>3. PICK c \in Nat : c = chunks[f].tokens
                BY <4>1
            <4>4. PICK q \in Nat : q = Quota(f - 1)
                BY <4>2
            <4>5. c + bufferTokens >= read - q
                BY <2>10, <4>3, <4>4
            <4>6. c + tokens >= r - q
                BY <1>n, <2>k, <2>r, <4>5
            <4> QED  BY <4>3, <4>4, <4>6
        <3>6. LastIsLarge(r)'
            <4>1. Len(chunks') > 0 => chunks'[Len(chunks')].tokens + tokens >= r - Quota(f - 1)
                BY <2>r, <3>1, <3>2, <3>5
            <4>2. Len(chunks') > 0 => chunks'[Len(chunks')].tokens + bufferTokens' >= r - Quota(Len(chunks) - 1)'
                BY <3>1, <3>2, <4>1
            <4>3. pc' # "carry"
                BY <3>1
            <4>4. Len(chunks') > 0 => chunks'[Len(chunks')].tokens
                        + (IF pc' = "carry" THEN 0 ELSE bufferTokens') >= r - Quota(Len(chunks) - 1)'
                BY <4>2, <4>3
            <4> QED  BY <4>4 DEF LastIsLarge
        <3>7. SplitBy(sum)'
            BY <2>4, <2>r, <3>4, <3>6 DEF SplitBy
        <3>8. EmptyIsZero'
            BY <1>f, <2>5, <3>1 DEF EmptyIsZero
        <3> QED  BY <1>k, <2>1, <3>1, <3>7, <3>8 DEF FillInv, NoFragmentLeft
    <2> QED  BY <2>11, <2>12
<1>7. CASE FlushLast
    <2>1. /\ pc = "unit" /\ pc' = "merge" /\ next = Len(units) + 1
          /\ units' = units /\ paragraphs' = paragraphs /\ total' = total /\ next' = next
          /\ buffer' = buffer /\ bufferTokens' = bufferTokens
          /\ carry' = carry /\ carryTokens' = carryTokens
        BY <1>7, <1>n DEF FlushLast
    <2>2. SplitBy(sum)' /\ pc' \notin Looping
        BY <2>1 DEF SplitBy, NotAhead, LastIsLarge, Looping
    <2>3. /\ read = total /\ Sized /\ Len(chunks) < PlannedChunks /\ target >= 1
        <3>1. Len(chunks) + remaining = PlannedChunks /\ remaining >= 1
            BY <2>1 DEF ResultInv, PlanInv, Looping
        <3> QED  BY <1>t, <1>s, <1>R, <1>f, <1>n, <1>z, <2>1, <3>1, SumTypes DEF Looping
    <2> DEFINE f == Len(chunks)
    <2>4. f > 0 => chunks[f].tokens \in Nat /\ chunks[f].tokens + bufferTokens > MaxChunkTokens
        <3> SUFFICES ASSUME f > 0
                     PROVE  chunks[f].tokens \in Nat /\ chunks[f].tokens + bufferTokens > MaxChunkTokens
            OBVIOUS
        <3>1. chunks[f].tokens \in Nat
            <4>1. f \in 1 .. Len(chunks)
                BY <1>n
            <4>2. chunks[f] \in Chunk
                BY <1>t, <4>1 DEF ChunkTypeOK
            <4> QED  BY <4>2 DEF Chunk
        <3>2. chunks[f].tokens + bufferTokens >= read - Quota(f - 1)
            BY <1>s, <2>1 DEF LastIsLarge, Looping
        <3>3. total - Quota(f - 1) > MaxChunkTokens
            BY <1>t, <1>n, <2>3, RestExceeds
        <3>4. Quota(f - 1) \in Nat
            <4>1. f - 1 \in Nat
                BY <1>n
            <4> QED  BY <1>n, <2>3, <4>1, QuotaGrows
        <3> HIDE DEF f
        <3> QED  BY <1>n, <2>3, <3>1, <3>2, <3>3, <3>4
    <2>5. NoFragmentLeft'
        <3> SUFFICES ASSUME Len(chunks') > 1
                     PROVE  ~FitsOne(chunks'[Len(chunks') - 1], chunks'[Len(chunks')])
            BY DEF NoFragmentLeft, FitsOne
        <3>1. CASE buffer = <<>>
            <4>1. chunks' = chunks /\ bufferTokens = 0 /\ f > 1
                BY <1>7, <1>f, <3>1 DEF FlushLast, EmptyIsZero
            <4>2. chunks[f - 1].tokens \in Nat
                <5>1. f - 1 \in 1 .. Len(chunks)
                    BY <1>n, <4>1
                <5>2. chunks[f - 1] \in Chunk
                    BY <1>t, <5>1 DEF ChunkTypeOK
                <5> QED  BY <5>2 DEF Chunk
            <4>3. chunks[f - 1].tokens + chunks[f].tokens > MaxChunkTokens
                <5>1. f > 0
                    BY <1>n, <4>1
                <5>2. chunks[f].tokens \in Nat /\ chunks[f].tokens + bufferTokens > MaxChunkTokens
                    BY <2>4, <5>1
                <5>3. chunks[f].tokens > MaxChunkTokens
                    BY <1>n, <4>1, <5>2
                <5> \A a, b \in Nat, c \in Nat : b > c => a + b > c
                    OBVIOUS
                <5> QED  BY <1>n, <4>2, <5>2, <5>3
            <4>4. ~(chunks[f - 1].tokens + chunks[f].tokens <= MaxChunkTokens)
                BY <1>n, <2>4, <4>1, <4>2, <4>3
            <4> QED  BY <4>1, <4>4 DEF FitsOne
        <3>2. CASE buffer # <<>>
            <4>1. /\ chunks' = Append(chunks, NewChunk(buffer, bufferTokens))
                  /\ chunks \in Seq(Chunk) /\ buffer \in Seq(Unit) /\ bufferTokens \in Nat
                BY <1>7, <1>t, <3>2 DEF FlushLast, ChunkTypeOK
            <4>2. NewChunk(buffer, bufferTokens) \in Chunk
                BY <4>1, NewChunkFacts
            <4>3. NewChunk(buffer, bufferTokens).tokens = bufferTokens
                BY DEF NewChunk
            <4> HIDE DEF NewChunk
            <4>4. Len(chunks') = f + 1 /\ chunks'[f + 1] = NewChunk(buffer, bufferTokens)
                BY <4>1, <4>2
            <4>5. f > 0
                BY <1>n, <4>4
            <4>6. f \in 1 .. Len(chunks)
                BY <1>n, <4>5
            <4>7. chunks'[f] = chunks[f]
                BY <4>1, <4>2, <4>6
            <4>8. f + 1 - 1 = f
                BY <1>n
            <4>9. chunks'[Len(chunks') - 1] = chunks[f] /\ chunks'[Len(chunks')].tokens = bufferTokens
                BY <4>3, <4>4, <4>7, <4>8
            <4>10. ~(chunks[f].tokens + bufferTokens <= MaxChunkTokens)
                <5> HIDE DEF f
                <5> QED  BY <1>n, <2>4, <4>5
            <4> QED  BY <4>9, <4>10 DEF FitsOne
        <3> QED  BY <3>1, <3>2
    <2>6. EmptyIsZero'
        BY <1>f, <2>1 DEF EmptyIsZero
    <2> QED  BY <1>k, <2>1, <2>2, <2>5, <2>6 DEF FillInv
<1>8. CASE CarryUnit
    <2>1. /\ pc = "carry" /\ Len(carry) < Len(buffer) /\ carry' = LongerCarry
          /\ carryTokens' = carryTokens + Trailing.tokens
          /\ units' = units /\ paragraphs' = paragraphs /\ total' = total /\ next' = next
          /\ target' = target /\ buffer' = buffer /\ bufferTokens' = bufferTokens
          /\ chunks' = chunks /\ pc' = pc /\ resume' = resume
        BY <1>8 DEF CarryUnit, CarryLooksOn
    <2>2. Len(buffer) - Len(carry) \in 1 .. Len(buffer)
        BY <1>n, <2>1
    <2>3. Trailing \in Unit /\ Trailing.tokens \in Nat
        <3>1. Trailing \in Unit
            BY <1>t, <2>2 DEF ChunkTypeOK, Trailing
        <3> QED  BY <3>1 DEF Unit
    <2>4. LongerCarry # <<>>
        <3>1. Len(LongerCarry) = 1 + Len(carry)
            BY <1>t, <2>3 DEF LongerCarry, ChunkTypeOK
        <3> QED  BY <1>n, <3>1
    <2>5. carryTokens' >= buffer[Len(buffer)].tokens
        <3>1. buffer[Len(buffer)].tokens \in Nat
            <4>1. Len(buffer) \in 1 .. Len(buffer)
                BY <1>n, <2>1
            <4>2. buffer[Len(buffer)] \in Unit
                BY <1>t, <4>1 DEF ChunkTypeOK
            <4> QED  BY <4>2 DEF Unit
        <3>2. CASE Len(carry) = 0
            <4>1. Trailing = buffer[Len(buffer)]
                <5>1. Len(buffer) - Len(carry) = Len(buffer)
                    BY <1>n, <3>2
                <5> QED  BY <5>1 DEF Trailing
            <4> QED  BY <1>n, <2>1, <2>3, <4>1
        <3>3. CASE Len(carry) > 0
            <4>1. carryTokens >= buffer[Len(buffer)].tokens
                BY <1>s, <2>1, <3>3 DEF NotAhead
            <4> QED  BY <1>n, <2>1, <2>3, <3>1, <4>1
        <3> QED  BY <1>n, <3>2, <3>3
    <2>6. NotAhead(read)'
        <3>1. Quota(Len(chunks))' = Quota(Len(chunks)) /\ Quota(Len(chunks) + 1)' = Quota(Len(chunks) + 1)
            BY <2>1 DEF Quota
        <3> QED  BY <1>s, <2>1, <2>5, <3>1 DEF NotAhead
    <2>7. LastIsLarge(read)'
        BY <1>s, <2>1 DEF LastIsLarge, Quota
    <2>8. EmptyIsZero'
        BY <1>f, <2>1, <2>4 DEF EmptyIsZero
    <2>9. SplitBy(sum)'
        BY <1>R, <2>1, <2>6, <2>7 DEF SplitBy
    <2> QED  BY <1>k, <2>1, <2>8, <2>9 DEF FillInv, NoFragmentLeft
<1>9. CASE Carried
    <2>1. /\ pc = "carry" /\ ~CarryLooksOn /\ buffer' = carry /\ bufferTokens' = carryTokens
          /\ carry' = <<>> /\ carryTokens' = 0 /\ pc' = resume /\ next' = next
          /\ units' = units /\ paragraphs' = paragraphs /\ total' = total
          /\ target' = target /\ chunks' = chunks
        BY <1>9 DEF Carried
    <2> DEFINE f == Len(chunks)
               last == buffer[Len(buffer)].tokens
    <2>2. /\ Len(buffer) > 0 /\ (Len(carry) > 0 => carryTokens >= last)
          /\ (resume = "append" => read <= Quota(f))
          /\ (resume = "unit" => read - last <= Quota(f) /\ read <= Quota(f + 1))
        BY <1>s, <2>1 DEF NotAhead
    <2>3. target >= 1
        BY <1>z, <2>1 DEF Looping
    <2>4. Quota(f) \in Nat /\ Quota(f + 1) \in Nat
        BY <1>q, <2>3
    <2>5. carryTokens >= last /\ last \in Nat
        <3>1. last \in Nat
            <4>1. Len(buffer) \in 1 .. Len(buffer)
                BY <1>n, <2>2
            <4>2. buffer[Len(buffer)] \in Unit
                BY <1>t, <4>1 DEF ChunkTypeOK
            <4> QED  BY <4>2 DEF Unit
        <3>2. Len(carry) > 0
            <4> SUFFICES ASSUME Len(carry) = 0 PROVE FALSE
                BY <1>n
            <4>1. carry = <<>>
                BY <1>t DEF ChunkTypeOK
            <4>2. carryTokens = 0
                BY <1>f, <4>1 DEF EmptyIsZero
            <4> QED  BY <1>n, <2>1, <2>2, <4>2 DEF CarryLooksOn, SizesInProportion
        <3> QED  BY <2>2, <3>1, <3>2
    <2>6. /\ resume = "append" => read - carryTokens <= Quota(f) /\ read <= Quota(f)
          /\ resume = "unit" => read - carryTokens <= Quota(f) /\ read <= Quota(f + 1)
        <3> HIDE DEF f, last
        <3> QED  BY <1>n, <2>2, <2>4, <2>5
    <2>7. Quota(Len(chunks))' = Quota(f) /\ Quota(Len(chunks) + 1)' = Quota(f + 1)
        BY <2>1 DEF Quota
    <2>8. resume # "carry"
        BY <1>t DEF ChunkTypeOK
    <2>9. NotAhead(read)'
        BY <2>1, <2>6, <2>7, <2>8 DEF NotAhead
    <2>10. LastIsLarge(read)'
        <3> SUFFICES ASSUME f > 0
                     PROVE  chunks[f].tokens + carryTokens >= read - Quota(f - 1)
            BY <2>1, <2>8 DEF LastIsLarge, Quota
        <3>1. chunks[f].tokens \in Nat
            <4>1. f \in 1 .. Len(chunks)
                BY <1>n
            <4>2. chunks[f] \in Chunk
                BY <1>t, <4>1 DEF ChunkTypeOK
            <4> QED  BY <4>2 DEF Chunk
        <3>2. Quota(f - 1) \in Nat
            <4>1. f - 1 \in Nat
                BY <1>n
            <4> QED  BY <1>n, <2>3, <4>1, QuotaGrows
        <3>3. chunks[f].tokens + 0 >= read - Quota(f - 1)
            BY <1>s, <2>1 DEF LastIsLarge, Looping
        <3> HIDE DEF f
        <3> QED  BY <1>n, <3>1, <3>2, <3>3
    <2>11. EmptyIsZero'
        BY <1>f, <2>1 DEF EmptyIsZero
    <2>12. SplitBy(sum)' /\ pc \in Looping
        BY <1>R, <2>1, <2>9, <2>10 DEF SplitBy, Looping
    <2>13. pc' # "merge"
        BY <1>t, <2>1 DEF ChunkTypeOK
    <2> QED  BY <1>k, <2>1, <2>11, <2>12, <2>13 DEF FillInv, NoFragmentLeft
<1>10. CASE MergeLast
    <2>1. /\ pc' = "done" /\ units' = units /\ paragraphs' = paragraphs
          /\ total' = total /\ buffer' = buffer /\ bufferTokens' = bufferTokens
          /\ carry' = carry /\ carryTokens' = carryTokens /\ next' = next
        BY <1>10 DEF MergeLast
    <2>2. SplitBy(sum)'
        BY <2>1 DEF SplitBy, NotAhead, LastIsLarge, Looping
    <2> QED  BY <1>f, <1>k, <2>1, <2>2 DEF FillInv, EmptyIsZero, Looping, NoFragmentLeft
<1>11. CASE UNCHANGED chunkVars
    <2>1. /\ units' = units /\ paragraphs' = paragraphs /\ total' = total /\ target' = target
          /\ buffer' = buffer /\ bufferTokens' = bufferTokens /\ next' = next
          /\ carry' = carry /\ carryTokens' = carryTokens /\ pc' = pc /\ chunks' = chunks
          /\ remaining' = remaining /\ resume' = resume
        BY <1>11 DEF chunkVars
    <2>2. SplitBy(sum)'
        BY <1>S, <2>1 DEF SplitBy, NotAhead, LastIsLarge, Quota
    <2> QED  BY <1>f, <1>k, <2>1, <2>2 DEF FillInv, EmptyIsZero, NoFragmentLeft, FitsOne
<1> QED  BY <1>1, <1>2, <1>3, <1>4, <1>5, <1>6, <1>7, <1>8, <1>9, <1>10, <1>11 DEF ChunkNext

(* If the sizes are in proportion, as the code's are, and no sentence exceeds the maximum, the chunks *)
(* are consecutive excerpts and no fragment is left for the final merge (chunk_document).            *)
THEOREM NoFragmentIsLeft == ASSUME SizesInProportion, SentencesFit PROVE ChunkSpec => []ChunksAreWhole
<1>1. ExcerptInv /\ FillInv => ChunksAreWhole
    BY DEF ExcerptInv, FillInv, ChunksAreWhole
<1>2. ChunkInit => FillInv
    BY FillInvInit
<1>3. TypeInv /\ CoverInv /\ ResultInv /\ FillInv /\ [ChunkNext]_chunkVars => FillInv'
    BY FillInvNext
<1> QED  BY <1>1, <1>2, <1>3, TypeInvAlways, CoverInvInit, CoverInvNext, ResultInvAlways,
            ExcerptInvInit, ExcerptInvNext, PTL DEF ChunkSpec

-----------------------------------------------------------------------------
(* The store *)

LoadTypeOK ==
    /\ files \in [Docs -> Texts]
    /\ manifest \in Rows
    /\ loaded \in Seq(Loaded)
    /\ row \in 1 .. Len(loaded) + 1
    /\ deleted \in BOOLEAN

LoadedOnce ==
    \A i, j \in 1 .. Len(loaded) : loaded[i].doc = loaded[j].doc => i = j

Emptied == deleted => Ingesting /\ Stored(Current.doc) = {}

StoreInv == LoadTypeOK /\ LoadedOnce /\ Emptied /\ OneTextPerDocument /\ PassedIsCurrent

-----------------------------------------------------------------------------

(* A row list names documents, none of them twice. *)
LEMMA RowsAreDistinct ==
    ASSUME NEW rows \in Rows
    PROVE  rows \in Seq(Docs) /\ \A i, j \in 1 .. Len(rows) : rows[i] = rows[j] => i = j
<1>1. PICK m \in 0 .. Cardinality(Docs) : rows \in [1 .. m -> Docs]
    BY DEF Rows, SeqOf
<1>2. \A a, b \in DOMAIN rows : rows[a] = rows[b] => a = b
    BY DEF Rows, IsInjective
<1>3. rows \in Seq(Docs) /\ Len(rows) = m /\ DOMAIN rows = 1 .. m
    BY <1>1, SMT
<1> QED  BY <1>2, <1>3

(* Deleting the vectors of one document leaves those of every other. *)
LEMMA DeleteOne ==
    ASSUME NEW gone, store' = store \ OldVectors(gone), NEW doc
    PROVE  Stored(doc)' = IF doc = gone THEN {} ELSE Stored(doc)
BY DEF Stored, OldVectors

(* Storing the chunks of a document that has none leaves those chunks and every other document. *)
LEMMA UpsertOne ==
    ASSUME NEW at, NEW text, Stored(at) = {},
           store' = {v \in store : \A w \in VectorsOf(at, text) : v.doc # w.doc \/ v.index # w.index}
                    \cup VectorsOf(at, text),
           NEW doc
    PROVE  Stored(doc)' = IF doc = at THEN VectorsOf(at, text) ELSE Stored(doc)
<1>1. \A w \in VectorsOf(at, text) : w.doc = at
    BY DEF VectorsOf
<1>2. CASE doc = at
    BY <1>1, <1>2 DEF Stored
<1>3. CASE doc # at
    BY <1>1, <1>3 DEF Stored
<1> QED  BY <1>2, <1>3

(* A text without chunks has no vectors. *)
LEMMA NoChunksNoVectors ==
    ASSUME NEW doc, NEW text, ChunksOf[text] = <<>>
    PROVE  VectorsOf(doc, text) = {}
BY DEF VectorsOf

-----------------------------------------------------------------------------

LEMMA LoadTypeStep ==
    ASSUME files' \in [Docs -> Texts], manifest' \in Rows, loaded' \in Seq(Loaded),
           row' \in 1 .. Len(loaded') + 1, deleted' \in BOOLEAN
    PROVE  LoadTypeOK'
BY DEF LoadTypeOK, Rows, Loaded

LEMMA StoreInvInit == Init => StoreInv
<1> SUFFICES ASSUME Init PROVE StoreInv
    OBVIOUS
<1>1. LoadTypeOK
    <2>1. loaded \in Seq(Loaded) /\ row \in 1 .. Len(loaded) + 1
        BY DEF Init
    <2> QED  BY <2>1 DEF Init, LoadTypeOK
<1>2. LoadedOnce /\ Emptied /\ PassedIsCurrent
    BY DEF Init, LoadedOnce, Emptied, PassedIsCurrent
<1>3. OneTextPerDocument
    BY DEF Init, OneTextPerDocument, Stored
<1> QED  BY <1>1, <1>2, <1>3 DEF StoreInv

(* A step that leaves store and ingestion alone preserves the invariant. *)
LEMMA StoreInvIdle ==
    ASSUME StoreInv, LoadTypeOK', loaded' = loaded, row' = row, deleted' = deleted, store' = store
    PROVE  StoreInv'
BY DEF StoreInv, LoadedOnce, Emptied, Ingesting, Current, OneTextPerDocument, PassedIsCurrent, Stored,
       VectorsOf

LEMMA StoreInvNext == StoreInv /\ [Next]_vars => StoreInv'
<1> SUFFICES ASSUME StoreInv, [Next]_vars PROVE StoreInv'
    OBVIOUS
<1> USE DEF StoreInv
<1>1. CASE EditDocument
    <2>1. LoadTypeOK'
        BY <1>1 DEF EditDocument, LoadTypeOK, Rows, Loaded
    <2> QED  BY <1>1, <2>1, StoreInvIdle DEF EditDocument
<1>2. CASE EditIndex
    <2>1. LoadTypeOK'
        BY <1>2 DEF EditIndex, LoadTypeOK, Rows, Loaded
    <2> QED  BY <1>2, <2>1, StoreInvIdle DEF EditIndex
<1>3. CASE LoadAllDocuments
    <2>1. manifest \in Seq(Docs) /\ \A i, j \in 1 .. Len(manifest) : manifest[i] = manifest[j] => i = j
        BY RowsAreDistinct DEF LoadTypeOK
    <2>2. /\ loaded' \in Seq(Loaded) /\ Len(loaded') = Len(manifest)
          /\ \A i \in 1 .. Len(manifest) : loaded'[i].doc = manifest[i]
        BY <1>3, <2>1 DEF LoadAllDocuments, LoadTypeOK, Loaded
    <2>3. LoadTypeOK'
        <3>1. row' \in 1 .. Len(loaded') + 1
            BY <1>3, <2>1, <2>2 DEF LoadAllDocuments
        <3> QED  BY <1>3, <2>2, <3>1, LoadTypeStep DEF LoadAllDocuments, LoadTypeOK
    <2>4. LoadedOnce'
        BY <2>1, <2>2 DEF LoadedOnce
    <2>5. Emptied' /\ PassedIsCurrent'
        BY <1>3 DEF LoadAllDocuments, Emptied, PassedIsCurrent
    <2>6. OneTextPerDocument'
        BY <1>3 DEF LoadAllDocuments, OneTextPerDocument, Stored, VectorsOf
    <2> QED  BY <2>3, <2>4, <2>5, <2>6
<1>4. CASE DeleteOldChunks
    <2>1. /\ row \in 1 .. Len(loaded) /\ Current \in Loaded /\ Current = loaded[row]
          /\ Len(loaded) \in Nat /\ loaded' = loaded
        BY <1>4 DEF DeleteOldChunks, LoadTypeOK, Ingesting, Current
    <2>2. \A doc : Stored(doc)' = IF doc = Current.doc THEN {} ELSE Stored(doc)
        BY <1>4, DeleteOne DEF DeleteOldChunks
    <2>3. LoadTypeOK'
        <3>1. row' \in 1 .. Len(loaded') + 1
            <4>1. row' = row \/ row' = row + 1
                BY <1>4 DEF DeleteOldChunks
            <4> QED  BY <2>1, <4>1
        <3>2. deleted' \in BOOLEAN
            BY <1>4 DEF DeleteOldChunks, LoadTypeOK
        <3> QED  BY <1>4, <2>1, <3>1, <3>2, LoadTypeStep DEF DeleteOldChunks, LoadTypeOK
    <2>4. LoadedOnce'
        BY <2>1 DEF LoadedOnce
    <2>5. Emptied'
        BY <1>4, <2>1, <2>2 DEF DeleteOldChunks, Emptied, Ingesting, Current
    <2>6. OneTextPerDocument'
        BY <2>2 DEF OneTextPerDocument, VectorsOf
    <2>7. PassedIsCurrent'
        <3> SUFFICES ASSUME NEW i \in 1 .. row' - 1
                     PROVE  \A doc : doc = loaded[i].doc => Stored(doc)' = VectorsOf(doc, loaded[i].text)
            BY <2>1 DEF PassedIsCurrent, VectorsOf, Stored
        <3>1. CASE i < row
            <4>1. i \in 1 .. row - 1 /\ i \in 1 .. Len(loaded) /\ i # row
                BY <2>1, <3>1
            <4>2. loaded[i].doc # Current.doc
                BY <2>1, <4>1 DEF LoadedOnce
            <4> QED  BY <2>2, <4>1, <4>2 DEF PassedIsCurrent
        <3>2. CASE ~(i < row)
            <4>1. i = row /\ ChunksOf[Current.text] = <<>>
                BY <1>4, <2>1, <3>2 DEF DeleteOldChunks
            <4> QED  BY <2>1, <2>2, <4>1, NoChunksNoVectors
        <3> QED  BY <3>1, <3>2
    <2> QED  BY <2>3, <2>4, <2>5, <2>6, <2>7
<1>5. CASE UpsertChunks
    <2>1. /\ row \in 1 .. Len(loaded) /\ Current \in Loaded /\ Current = loaded[row]
          /\ Len(loaded) \in Nat /\ loaded' = loaded /\ row' = row + 1 /\ deleted' = FALSE
        BY <1>5 DEF UpsertChunks, LoadTypeOK, Ingesting, Current
    <2>2. Stored(Current.doc) = {}
        BY <1>5 DEF UpsertChunks, Emptied
    <2>3. \A doc : Stored(doc)' = IF doc = Current.doc THEN VectorsOf(Current.doc, Current.text)
                                                        ELSE Stored(doc)
        BY <1>5, <2>2, UpsertOne DEF UpsertChunks
    <2>4. LoadTypeOK'
        <3>1. row' \in 1 .. Len(loaded') + 1
            <4>1. row' = row \/ row' = row + 1
                BY <1>5 DEF UpsertChunks
            <4> QED  BY <2>1, <4>1
        <3>2. deleted' \in BOOLEAN
            BY <1>5 DEF UpsertChunks, LoadTypeOK
        <3> QED  BY <1>5, <2>1, <3>1, <3>2, LoadTypeStep DEF UpsertChunks, LoadTypeOK
    <2>5. LoadedOnce' /\ Emptied'
        BY <2>1 DEF LoadedOnce, Emptied
    <2>6. OneTextPerDocument'
        <3> SUFFICES ASSUME NEW doc \in Docs
                     PROVE  Stored(doc)' = {} \/ \E text \in Texts : Stored(doc)' = VectorsOf(doc, text)
            BY DEF OneTextPerDocument, VectorsOf
        <3>1. CASE doc = Current.doc
            <4>1. Current.text \in Texts
                BY <2>1 DEF Loaded
            <4> QED  BY <2>3, <3>1, <4>1
        <3>2. CASE doc # Current.doc
            BY <2>3, <3>2 DEF OneTextPerDocument
        <3> QED  BY <3>1, <3>2
    <2>7. PassedIsCurrent'
        <3> SUFFICES ASSUME NEW i \in 1 .. row
                     PROVE  \A doc : doc = loaded[i].doc => Stored(doc)' = VectorsOf(doc, loaded[i].text)
            BY <2>1 DEF PassedIsCurrent, VectorsOf, Stored
        <3>1. CASE i = row
            BY <2>1, <2>3, <3>1
        <3>2. CASE i # row
            <4>1. i \in 1 .. row - 1 /\ i \in 1 .. Len(loaded)
                BY <2>1, <3>2
            <4>2. loaded[i].doc # Current.doc
                BY <2>1, <3>2, <4>1 DEF LoadedOnce
            <4> QED  BY <2>3, <4>1, <4>2 DEF PassedIsCurrent
        <3> QED  BY <3>1, <3>2
    <2> QED  BY <2>4, <2>5, <2>6, <2>7
<1>6. CASE Abort
    <2>1. LoadTypeOK'
        <3>1. loaded' \in Seq(Loaded) /\ row' \in 1 .. Len(loaded') + 1
            BY <1>6 DEF Abort
        <3> QED  BY <1>6, <3>1, LoadTypeStep DEF Abort, LoadTypeOK
    <2>2. LoadedOnce' /\ Emptied' /\ PassedIsCurrent'
        BY <1>6 DEF Abort, LoadedOnce, Emptied, PassedIsCurrent
    <2>3. OneTextPerDocument'
        BY <1>6 DEF Abort, OneTextPerDocument, Stored, VectorsOf
    <2> QED  BY <2>1, <2>2, <2>3
<1>7. CASE AnswerPolicyQuestion
    <2>1. LoadTypeOK'
        BY <1>7 DEF AnswerPolicyQuestion, LoadTypeOK, Rows, Loaded
    <2> QED  BY <1>7, <2>1, StoreInvIdle DEF AnswerPolicyQuestion
<1>8. CASE UNCHANGED vars
    <2>1. LoadTypeOK'
        BY <1>8 DEF vars, LoadTypeOK, Rows, Loaded
    <2> QED  BY <1>8, <2>1, StoreInvIdle DEF vars
<1> QED  BY <1>1, <1>2, <1>3, <1>4, <1>5, <1>6, <1>7, <1>8 DEF Next

LEMMA StoreInvAlways == Spec => []StoreInv
<1> QED  BY StoreInvInit, StoreInvNext, PTL DEF Spec

(* A search finds all chunks of one text of a document or none, whenever it comes               *)
(* (replace_document_chunks).                                                                   *)
THEOREM OneVersionOnly == Spec => []OneTextPerDocument
<1>1. StoreInv => OneTextPerDocument
    BY DEF StoreInv
<1> QED  BY <1>1, StoreInvAlways, PTL

(* What an ingestion has passed is in the store as it was read, whatever was there before       *)
(* (run_ingestion, vector_store.py:37-39).                                                      *)
THEOREM IngestionIsIdempotent == Spec => []PassedIsCurrent
<1>1. StoreInv => PassedIsCurrent
    BY DEF StoreInv
<1> QED  BY <1>1, StoreInvAlways, PTL


-----------------------------------------------------------------------------
(* The context *)

(* The documents found, hit by hit. *)
LEMMA SourceDocsTrace ==
    ASSUME NEW n \in Nat, NEW hits \in [1 .. n -> Vector]
    PROVE  \E w \in [0 .. n -> Seq(Docs)] :
              /\ w[0] = <<>> /\ w[n] = SourceDocs(hits)
              /\ \A k \in 1 .. n : w[k] = IF hits[k].doc \in ToSet(w[k - 1]) THEN w[k - 1]
                                          ELSE Append(w[k - 1], hits[k].doc)
<1> DEFINE Op(docs, hit) == IF hit.doc \in ToSet(docs) THEN docs ELSE Append(docs, hit.doc)
           F == [k \in 1 .. n |-> [docs \in Seq(Docs) |-> Op(docs, hits[k])]]
           Eqn(f) == f = [s \in SUBSET DOMAIN hits |->
                            IF s = {} THEN <<>> ELSE Op(f[s \ {Max(s)}], hits[Max(s)])]
           iter == CHOOSE f : Eqn(f)
<1>1. \A docs \in Seq(Docs), k \in 1 .. n : Op(docs, hits[k]) \in Seq(Docs)
    BY DEF Vector
<1>2. F \in [1 .. n -> [Seq(Docs) -> Seq(Docs)]] /\ <<>> \in Seq(Docs)
    BY <1>1
<1>3. \A k \in 1 .. n, docs \in Seq(Docs) : F[k][docs] = Op(docs, hits[k])
    OBVIOUS
<1>4. SourceDocs(hits) = iter[DOMAIN hits]
    BY DEF SourceDocs, FoldLeft, MapThenFoldSet
<1> HIDE DEF F, Op
<1>5. PICK g : Iterates(g, n, Seq(Docs), <<>>, F)
    BY <1>2, RecursionOnSubsets, Zenon
<1>6. Eqn(g)
    <2> SUFFICES ASSUME NEW s \in SUBSET (1 .. n), s # {}
                 PROVE  F[Max(s)][g[s \ {Max(s)}]] = Op(g[s \ {Max(s)}], hits[Max(s)])
        BY <1>5 DEF Iterates
    <2> QED  BY <1>3, <1>5, MaxUpTo DEF Iterates
<1>7. Eqn(iter)
    BY <1>6, Zenon
<1> HIDE DEF iter
<1>8. FoldsAs(iter, n, Seq(Docs), <<>>, F)
    BY <1>3, <1>7, MaxUpTo DEF FoldsAs
<1> DEFINE w == [k \in 0 .. n |-> iter[1 .. k]]
<1>10. Trace(w, n, Seq(Docs), <<>>, F)
    BY <1>2, <1>8, TraceOfFold, Zenon
<1>12. w[n] = iter[1 .. n]
    OBVIOUS
<1> HIDE DEF w
<1>11. \A k \in 1 .. n : w[k] = Op(w[k - 1], hits[k])
    <2>1. \A k \in 1 .. n : k - 1 \in 0 .. n
        OBVIOUS
    <2> QED  BY <1>3, <1>10, <2>1 DEF Trace
<1> QED  BY <1>4, <1>10, <1>11, <1>12 DEF Op, Trace

(* A document is found with the first hit of it, and once. *)
LEMMA SourceDocsFound ==
    ASSUME NEW n \in Nat, NEW hits \in [1 .. n -> Vector]
    PROVE  /\ SourceDocs(hits) \in Seq(Docs) /\ IsInjective(SourceDocs(hits))
           /\ SourceDocs(hits) = <<>> <=> n = 0
<1>1. PICK w \in [0 .. n -> Seq(Docs)] :
              /\ w[0] = <<>> /\ w[n] = SourceDocs(hits)
              /\ \A k \in 1 .. n : w[k] = IF hits[k].doc \in ToSet(w[k - 1]) THEN w[k - 1]
                                          ELSE Append(w[k - 1], hits[k].doc)
    BY SourceDocsTrace
<1> DEFINE T == {k \in 0 .. n : (w[k] = <<>> <=> k = 0) /\ IsInjective(w[k])}
<1>2. 0 .. n \subseteq T
    <2>1. 0 \in T
        BY <1>1 DEF IsInjective
    <2>2. \A k \in 0 .. n - 1 : k \in T => k + 1 \in T
        <3> SUFFICES ASSUME NEW k \in 0 .. n - 1, k \in T
                     PROVE  w[k + 1] # <<>> /\ IsInjective(w[k + 1])
            OBVIOUS
        <3> DEFINE doc == hits[k + 1].doc
        <3>0. k + 1 \in 1 .. n /\ (k + 1) - 1 = k
            OBVIOUS
        <3>1. /\ doc \in Docs
              /\ w[k + 1] = IF doc \in ToSet(w[k]) THEN w[k] ELSE Append(w[k], doc)
            <4>1. hits[k + 1] \in Vector
                BY <3>0
            <4> QED  BY <1>1, <3>0, <4>1 DEF Vector
        <3>2. w[k] \in Seq(Docs) /\ IsInjective(w[k])
            OBVIOUS
        <3> HIDE DEF doc
        <3>3. CASE doc \in ToSet(w[k])
            BY <3>1, <3>2, <3>3 DEF ToSet
        <3>4. CASE doc \notin ToSet(w[k])
            <4> DEFINE v == w[k]
            <4>1. v \in Seq(Docs) /\ (\A a, b \in DOMAIN v : v[a] = v[b] => a = b)
                  /\ (\A a \in DOMAIN v : v[a] # doc)
                BY <3>2, <3>4 DEF ToSet, IsInjective
            <4>2. w[k + 1] = Append(v, doc)
                BY <3>1, <3>4
            <4> HIDE DEF v
            <4>3. Append(v, doc) # <<>>
                <5>1. Len(v) + 1 \in DOMAIN Append(v, doc)
                    BY <3>1, <4>1
                <5>2. DOMAIN <<>> = {}
                    OBVIOUS
                <5> QED  BY <5>1, <5>2, Zenon
            <4>4. \A a, b \in DOMAIN Append(v, doc) : Append(v, doc)[a] = Append(v, doc)[b] => a = b
                BY <3>1, <4>1
            <4> QED  BY <4>2, <4>3, <4>4 DEF IsInjective
        <3> QED  BY <3>3, <3>4
    <2> HIDE DEF T
    <2> QED  BY <2>1, <2>2, UpTo, Zenon
<1>3. n \in T
    BY <1>2
<1> QED  BY <1>1, <1>3

(* A list of distinct documents is one of Rows. *)
LEMMA DistinctAreRows ==
    ASSUME IsFiniteSet(Docs), NEW docs \in Seq(Docs), IsInjective(docs)
    PROVE  docs \in Rows
<1>1. docs \in Injection(1 .. Len(docs), Docs)
    BY DEF Injection, IsInjective
<1>2. IsFiniteSet(1 .. Len(docs)) /\ Cardinality(1 .. Len(docs)) = Len(docs)
    <2>1. 1 \in Int /\ Len(docs) \in Int /\ Len(docs) \in Nat
        OBVIOUS
    <2>2. /\ IsFiniteSet(1 .. Len(docs))
          /\ Cardinality(1 .. Len(docs)) = IF 1 > Len(docs) THEN 0 ELSE Len(docs) - 1 + 1
        BY <2>1, FS_Interval, Zenon
    <2> QED  BY <2>1, <2>2
<1>3. Len(docs) <= Cardinality(Docs)
    BY <1>1, <1>2, FS_Injection
<1>4. Cardinality(Docs) \in Nat
    BY FS_CardinalityType
<1>5. Len(docs) \in 0 .. Cardinality(Docs) /\ docs \in [1 .. Len(docs) -> Docs]
    BY <1>3, <1>4
<1> QED  BY <1>5 DEF Rows, SeqOf

(* The contents that are merged for a document are contents, *)
LEMMA MergedContentType ==
    ASSUME NEW n \in Nat, NEW hits \in [1 .. n -> Vector], NEW doc
    PROVE  MergedContent(hits, doc) \in Seq(Contents)
<1> DEFINE S == Seq(Contents)
           Op(seen, hit) == IF hit.doc # doc \/ hit.content \in ToSet(seen) THEN seen
                            ELSE Append(seen, hit.content)
           F == [k \in 1 .. n |-> [seen \in S |-> Op(seen, hits[k])]]
           Eqn(f) == f = [s \in SUBSET DOMAIN hits |->
                            IF s = {} THEN <<>> ELSE Op(f[s \ {Max(s)}], hits[Max(s)])]
           iter == CHOOSE f : Eqn(f)
<1>1. \A seen \in S, k \in 1 .. n : Op(seen, hits[k]) \in S
    BY DEF Vector
<1>2. F \in [1 .. n -> [S -> S]]
    BY <1>1
<1>3. <<>> \in S
    OBVIOUS
<1>4. \A k \in 1 .. n, seen \in S : F[k][seen] = Op(seen, hits[k])
    OBVIOUS
<1>5. MergedContent(hits, doc) = iter[DOMAIN hits]
    BY DEF MergedContent, FoldLeft, MapThenFoldSet
<1> HIDE DEF S, F, Op
<1>6. PICK g : Iterates(g, n, S, <<>>, F)
    BY <1>2, <1>3, RecursionOnSubsets, Zenon
<1>7. Eqn(g)
    BY <1>4, <1>6, MaxUpTo DEF Iterates
<1>8. Eqn(iter)
    BY <1>7, Zenon
<1> HIDE DEF iter
<1>9. FoldsAs(iter, n, S, <<>>, F)
    BY <1>4, <1>8, MaxUpTo DEF FoldsAs
<1>10. Trace([k \in 0 .. n |-> iter[1 .. k]], n, S, <<>>, F)
    BY <1>2, <1>3, <1>9, TraceOfFold, Zenon
<1> QED  BY <1>5, <1>10 DEF Trace, S

(* and their length is a number. *)
LEMMA BlockTokensType ==
    ASSUME KnowledgeBaseAssumption, NEW n \in Nat, NEW hits \in [1 .. n -> Vector], NEW doc
    PROVE  BlockTokens(hits, doc) \in Nat
<1> DEFINE texts == MergedContent(hits, doc)
           Op(count, content) == count + TokensOf[content]
<1>1. texts \in Seq(Contents) /\ Len(texts) \in Nat /\ DOMAIN texts = 1 .. Len(texts)
    BY MergedContentType
<1> DEFINE m == Len(texts)
           F == [k \in 1 .. m |-> [count \in Nat |-> Op(count, texts[k])]]
           Eqn(f) == f = [s \in SUBSET DOMAIN texts |->
                            IF s = {} THEN 0 ELSE Op(f[s \ {Max(s)}], texts[Max(s)])]
           iter == CHOOSE f : Eqn(f)
<1>5. BlockTokens(hits, doc) = TitleTokens + iter[DOMAIN texts]
    BY DEF BlockTokens, FoldLeft, MapThenFoldSet
<1> HIDE DEF texts, m
<1>2. \A count \in Nat, k \in 1 .. m : Op(count, texts[k]) \in Nat
    BY <1>1 DEF KnowledgeBaseAssumption, m
<1>3. F \in [1 .. m -> [Nat -> Nat]] /\ 0 \in Nat /\ m \in Nat /\ DOMAIN texts = 1 .. m
    BY <1>1, <1>2 DEF m
<1>4. \A k \in 1 .. m, count \in Nat : F[k][count] = Op(count, texts[k])
    OBVIOUS
<1> HIDE DEF F, Op
<1>6. PICK g : Iterates(g, m, Nat, 0, F)
    BY <1>3, RecursionOnSubsets, Zenon
<1>7. Eqn(g)
    BY <1>3, <1>4, <1>6, MaxUpTo DEF Iterates
<1>8. Eqn(iter)
    BY <1>7, Zenon
<1> HIDE DEF iter
<1>9. FoldsAs(iter, m, Nat, 0, F)
    BY <1>3, <1>4, <1>8, MaxUpTo DEF FoldsAs
<1>10. Trace([k \in 0 .. m |-> iter[1 .. k]], m, Nat, 0, F)
    BY <1>3, <1>9, TraceOfFold, Zenon
<1>11. iter[1 .. m] \in Nat
    BY <1>3, <1>10 DEF Trace
<1> QED  BY <1>3, <1>5, <1>11 DEF KnowledgeBaseAssumption

-----------------------------------------------------------------------------

Context == [tokens : 0 .. MaxContextTokens, sources : Seq(Docs), full : BOOLEAN, cut : BOOLEAN]

(* What the context names after k of the documents found: the first ones of them, at least the *)
(* best, and all unless it is full.                                                           *)
NamesBest(c, docs, k) ==
    /\ \E j \in 0 .. k : c.sources = SubSeq(docs, 1, j) /\ (k > 0 => j > 0) /\ (~c.full => j = k)
    /\ k = 0 => c.tokens = 0 /\ c.full = FALSE /\ c.cut = FALSE

(* One more block keeps the budget (assemble_context), *)
LEMMA AddBlockType ==
    ASSUME KnowledgeBaseAssumption, NEW n \in Nat, NEW hits \in [1 .. n -> Vector],
           NEW c \in Context, NEW doc \in Docs
    PROVE  AddBlock(hits, c, doc) \in Context
<1> DEFINE tokens == BlockTokens(hits, doc)
<1>1. tokens \in Nat /\ MaxContextTokens \in Nat /\ c.tokens \in 0 .. MaxContextTokens
    BY BlockTokensType DEF KnowledgeBaseAssumption, Context
<1>2. c.tokens + Room(c.tokens) = MaxContextTokens
    BY <1>1 DEF Room
<1>3. Append(c.sources, doc) \in Seq(Docs)
    BY DEF Context
<1> HIDE DEF tokens
<1>4. CASE c.full
    BY <1>4 DEF AddBlock
<1>5. CASE ~c.full /\ c.tokens + tokens <= MaxContextTokens
    <2>1. AddBlock(hits, c, doc) = [c EXCEPT !.tokens = @ + tokens, !.sources = Append(@, doc)]
        BY <1>5 DEF AddBlock, tokens
    <2>2. c.tokens + tokens \in 0 .. MaxContextTokens
        BY <1>1, <1>5
    <2> QED  BY <1>3, <2>1, <2>2 DEF Context
<1>6. CASE ~c.full /\ ~(c.tokens + tokens <= MaxContextTokens) /\ Room(c.tokens) < MinExcerptTokens
    <2>1. AddBlock(hits, c, doc) = [c EXCEPT !.full = TRUE]
        BY <1>6 DEF AddBlock, tokens
    <2> QED  BY <2>1 DEF Context
<1>7. CASE ~c.full /\ ~(c.tokens + tokens <= MaxContextTokens) /\ ~(Room(c.tokens) < MinExcerptTokens)
    <2>1. AddBlock(hits, c, doc) = Excerpt(c, doc)
        BY <1>7 DEF AddBlock, tokens
    <2>2. MaxContextTokens \in 0 .. MaxContextTokens
        BY <1>1
    <2> QED  BY <1>2, <1>3, <2>1, <2>2 DEF Context, Excerpt
<1> QED  BY <1>4, <1>5, <1>6, <1>7

(* and what the context names. *)
LEMMA AddBlockNamesBest ==
    ASSUME KnowledgeBaseAssumption, NEW n \in Nat, NEW hits \in [1 .. n -> Vector],
           NEW docs \in Seq(Docs), NEW k \in 0 .. Len(docs) - 1,
           NEW c \in Context, NamesBest(c, docs, k)
    PROVE  NamesBest(AddBlock(hits, c, docs[k + 1]), docs, k + 1)
<1> DEFINE doc == docs[k + 1]
           d == AddBlock(hits, c, doc)
           tokens == BlockTokens(hits, doc)
<1>1. /\ tokens \in Nat /\ MaxContextTokens \in Nat /\ c.tokens \in 0 .. MaxContextTokens
      /\ MinExcerptTokens \in Nat /\ MinExcerptTokens <= MaxContextTokens
      /\ k + 1 \in 1 .. Len(docs) /\ doc \in Docs /\ Len(docs) \in Nat /\ k \in Nat
    BY BlockTokensType DEF KnowledgeBaseAssumption, Context
<1>2. PICK j \in 0 .. k : c.sources = SubSeq(docs, 1, j) /\ (k > 0 => j > 0) /\ (~c.full => j = k)
    BY DEF NamesBest
<1>3. SubSeq(docs, 1, k + 1) = Append(SubSeq(docs, 1, k), doc)
    <2> HIDE DEF tokens
    <2> QED  BY <1>1
<1>4. k = 0 => c.full = FALSE /\ ~(Room(c.tokens) < MinExcerptTokens)
    <2> HIDE DEF tokens
    <2> QED  BY <1>1 DEF NamesBest, Room
<1>5. ASSUME NEW i \in 0 .. k + 1, d.sources = SubSeq(docs, 1, i), i > 0, ~d.full => i = k + 1
      PROVE  NamesBest(d, docs, k + 1)
    <2>1. \E m \in 0 .. k + 1 : d.sources = SubSeq(docs, 1, m) /\ (k + 1 > 0 => m > 0)
                                /\ (~d.full => m = k + 1)
        BY <1>5
    <2>2. k + 1 # 0
        BY <1>1
    <2> HIDE DEF d
    <2> QED  BY <2>1, <2>2, Zenon DEF NamesBest
<1> HIDE DEF tokens
<1>6. CASE c.full
    <2>1. d = c /\ k > 0
        BY <1>1, <1>4, <1>6 DEF AddBlock
    <2>2. j \in 0 .. k + 1 /\ d.sources = SubSeq(docs, 1, j) /\ j > 0 /\ (~d.full => j = k + 1)
        BY <1>1, <1>2, <1>6, <2>1
    <2> QED  BY <1>5, <2>2
<1>7. CASE ~c.full /\ c.tokens + tokens <= MaxContextTokens
    <2>1. d = [c EXCEPT !.tokens = @ + tokens, !.sources = Append(@, doc)]
        BY <1>7 DEF AddBlock, tokens
    <2>2. d.sources = SubSeq(docs, 1, k + 1)
        BY <1>2, <1>3, <1>7, <2>1 DEF Context
    <2>3. k + 1 \in 0 .. k + 1 /\ k + 1 > 0
        BY <1>1
    <2> QED  BY <1>5, <2>2, <2>3
<1>8. CASE ~c.full /\ ~(c.tokens + tokens <= MaxContextTokens) /\ Room(c.tokens) < MinExcerptTokens
    <2>1. d = [c EXCEPT !.full = TRUE] /\ k > 0
        BY <1>1, <1>4, <1>8 DEF AddBlock, tokens
    <2>2. d.sources = c.sources /\ d.full = TRUE
        BY <2>1 DEF Context
    <2>3. j \in 0 .. k + 1 /\ d.sources = SubSeq(docs, 1, j) /\ j > 0
        BY <1>1, <1>2, <2>1, <2>2
    <2> QED  BY <1>5, <2>2, <2>3
<1>9. CASE ~c.full /\ ~(c.tokens + tokens <= MaxContextTokens) /\ ~(Room(c.tokens) < MinExcerptTokens)
    <2>1. d = Excerpt(c, doc)
        BY <1>9 DEF AddBlock, tokens
    <2>2. d.sources = SubSeq(docs, 1, k + 1)
        BY <1>2, <1>3, <1>9, <2>1 DEF Context, Excerpt
    <2>3. k + 1 \in 0 .. k + 1 /\ k + 1 > 0
        BY <1>1
    <2> QED  BY <1>5, <2>2, <2>3
<1>10. NamesBest(d, docs, k + 1)
    BY <1>6, <1>7, <1>8, <1>9
<1> QED  BY <1>10 DEF d, doc

(* What the context is when all documents have been tried. *)
LEMMA AssembledContext ==
    ASSUME KnowledgeBaseAssumption, NEW n \in Nat, NEW hits \in [1 .. n -> Vector]
    PROVE  /\ AssembleContext(hits) \in Context
           /\ NamesBest(AssembleContext(hits), SourceDocs(hits), Len(SourceDocs(hits)))
<1> DEFINE docs == SourceDocs(hits)
           m == Len(docs)
           c0 == [tokens |-> 0, sources |-> <<>>, full |-> FALSE, cut |-> FALSE]
           Op(c, doc) == AddBlock(hits, c, doc)
           F == [k \in 1 .. m |-> [c \in Context |-> Op(c, docs[k])]]
           Eqn(f) == f = [s \in SUBSET DOMAIN docs |->
                            IF s = {} THEN c0 ELSE Op(f[s \ {Max(s)}], docs[Max(s)])]
           iter == CHOOSE f : Eqn(f)
<1>1. docs \in Seq(Docs) /\ m \in Nat /\ DOMAIN docs = 1 .. m
    BY SourceDocsFound
<1>2. AssembleContext(hits) = iter[DOMAIN docs]
    BY DEF AssembleContext, FoldLeft, MapThenFoldSet
<1> HIDE DEF docs, m
<1>3. \A c \in Context, k \in 1 .. m : Op(c, docs[k]) \in Context
    <2>1. \A k \in 1 .. m : docs[k] \in Docs
        BY <1>1 DEF m
    <2> QED  BY <2>1, AddBlockType
<1>4. c0 \in Context
    <2>1. 0 \in 0 .. MaxContextTokens /\ <<>> \in Seq(Docs)
        BY DEF KnowledgeBaseAssumption
    <2> QED  BY <2>1 DEF Context
<1>5. F \in [1 .. m -> [Context -> Context]]
    BY <1>3
<1>6. \A k \in 1 .. m, c \in Context : F[k][c] = Op(c, docs[k])
    OBVIOUS
<1>7. c0.sources = <<>> /\ c0.tokens = 0 /\ c0.full = FALSE /\ c0.cut = FALSE
    OBVIOUS
<1> HIDE DEF F, Op, c0
<1>8. PICK g : Iterates(g, m, Context, c0, F)
    BY <1>1, <1>4, <1>5, RecursionOnSubsets, Zenon
<1>9. Eqn(g)
    BY <1>1, <1>6, <1>8, MaxUpTo DEF Iterates
<1>10. Eqn(iter)
    BY <1>9, Zenon
<1> HIDE DEF iter
<1>11. FoldsAs(iter, m, Context, c0, F)
    BY <1>1, <1>6, <1>10, MaxUpTo DEF FoldsAs
<1> DEFINE w == [k \in 0 .. m |-> iter[1 .. k]]
<1>12. Trace(w, m, Context, c0, F) /\ w[m] = iter[1 .. m]
    <2>1. w[m] = iter[1 .. m]
        BY <1>1
    <2>2. Trace(w, m, Context, c0, F)
        BY <1>1, <1>4, <1>5, <1>11, TraceOfFold, Zenon
    <2> QED  BY <2>1, <2>2
<1> HIDE DEF w
<1> DEFINE T == {k \in 0 .. m : NamesBest(w[k], docs, k)}
<1>13. 0 \in T
    <2>1. w[0] = c0 /\ 0 \in 0 .. m
        BY <1>1, <1>12 DEF Trace
    <2>2. SubSeq(docs, 1, 0) = <<>> /\ 0 \in 0 .. 0
        BY <1>1
    <2>3. \E j \in 0 .. 0 : c0.sources = SubSeq(docs, 1, j) /\ (0 > 0 => j > 0) /\ (~c0.full => j = 0)
        BY <1>7, <2>2
    <2> QED  BY <1>7, <2>1, <2>3 DEF NamesBest
<1>14. \A k \in 0 .. m - 1 : k \in T => k + 1 \in T
    <2> SUFFICES ASSUME NEW k \in 0 .. m - 1, NamesBest(w[k], docs, k)
                 PROVE  NamesBest(w[k + 1], docs, k + 1) /\ k + 1 \in 0 .. m
        OBVIOUS
    <2>1. w[k] \in Context /\ k + 1 \in 1 .. m /\ w[k + 1] = F[k + 1][w[k]]
        <3>1. k \in 0 .. m /\ k + 1 \in 1 .. m /\ (k + 1) - 1 = k
            BY <1>1
        <3> HIDE DEF F
        <3> QED  BY <1>12, <3>1 DEF Trace
    <2>2. w[k + 1] = AddBlock(hits, w[k], docs[k + 1])
        BY <1>6, <2>1 DEF Op
    <2>3. NamesBest(AddBlock(hits, w[k], docs[k + 1]), docs, k + 1)
        BY <1>1, <2>1, AddBlockNamesBest DEF m
    <2> QED  BY <2>1, <2>2, <2>3
<1>15. m \in T
    <2> HIDE DEF T
    <2>1. 0 .. m \subseteq T
        BY <1>1, <1>13, <1>14, UpTo, Zenon
    <2> QED  BY <1>1, <2>1
<1>16. w[m] \in Context /\ w[m] = AssembleContext(hits)
    BY <1>1, <1>2, <1>12 DEF Trace
<1> QED  BY <1>15, <1>16 DEF docs, m

(* What AnswerIsGrounded asks of the context, whatever the hits. *)
LEMMA ContextIsGrounded ==
    ASSUME KnowledgeBaseAssumption, NEW n \in Nat, NEW hits \in [1 .. n -> Vector]
    PROVE  LET c == AssembleContext(hits)
               found == SourceDocs(hits)
           IN /\ found \in Rows /\ c.sources \in Rows
              /\ found = <<>> <=> hits = <<>>
              /\ c.sources = <<>> <=> found = <<>>
              /\ IsPrefix(c.sources, found)
              /\ TextTokens(c) \in Nat
              /\ TextTokens(c) <= MaxContextTokens + Len(c.sources)
<1> DEFINE c == AssembleContext(hits)
           found == SourceDocs(hits)
           m == Len(found)
<1>1. /\ found \in Seq(Docs) /\ IsInjective(found) /\ m \in Nat
      /\ found = <<>> <=> n = 0
    BY SourceDocsFound
<1>2. c \in Context /\ NamesBest(c, found, m)
    BY AssembledContext
<1>3. hits = <<>> <=> n = 0
    OBVIOUS
<1>4. found = <<>> <=> m = 0
    BY <1>1
<1>10. MaxContextTokens \in Nat
    BY DEF KnowledgeBaseAssumption
<1> HIDE DEF c, found
<1>5. PICK j \in 0 .. m : c.sources = SubSeq(found, 1, j) /\ (m > 0 => j > 0)
    BY <1>2 DEF NamesBest
<1>6. /\ c.sources \in Seq(Docs) /\ Len(c.sources) = j
      /\ \A i \in 1 .. j : c.sources[i] = found[i]
    BY <1>1, <1>5
<1>7. IsInjective(c.sources)
    <2> DEFINE v == c.sources
    <2>1. DOMAIN v = 1 .. j /\ DOMAIN found = 1 .. m /\ j \in 0 .. m
        BY <1>1, <1>6
    <2>2. \A i \in 1 .. j : v[i] = found[i]
        BY <1>6
    <2>3. \A a, b \in 1 .. m : found[a] = found[b] => a = b
        BY <1>1, <2>1 DEF IsInjective
    <2> HIDE DEF v, m
    <2>4. \A a, b \in DOMAIN v : v[a] = v[b] => a = b
        BY <1>1, <2>1, <2>2, <2>3
    <2> QED  BY <2>4 DEF IsInjective, v
<1>8. IsPrefix(c.sources, found)
    <2>1. SubSeq(c.sources, 1, j) = c.sources
        BY <1>1, <1>5
    <2> QED  BY <1>1, <1>5, <1>6, <2>1 DEF IsPrefix
<1>9. c.sources = <<>> <=> found = <<>>
    <2>1. c.sources = <<>> <=> j = 0
        BY <1>6
    <2>2. j = 0 <=> m = 0
        BY <1>1, <1>5
    <2> QED  BY <1>4, <2>1, <2>2
<1>11. TextTokens(c) \in Nat /\ TextTokens(c) <= MaxContextTokens + Len(c.sources)
    <2>1. c.tokens \in 0 .. MaxContextTokens /\ j \in Nat /\ c.cut \in BOOLEAN
        BY <1>1, <1>2 DEF Context
    <2>2. CASE c.sources = <<>>
        <3>1. c.cut = FALSE /\ j = 0
            BY <1>2, <1>4, <1>6, <1>9, <2>2 DEF NamesBest
        <3> QED  BY <1>6, <1>10, <2>1, <2>2, <3>1 DEF TextTokens
    <2>3. CASE c.sources # <<>>
        <3>1. j > 0
            BY <1>6, <2>3, <2>1
        <3> QED  BY <1>6, <1>10, <2>1, <2>3, <3>1 DEF TextTokens
    <2> QED  BY <2>2, <2>3
<1>12. IsFiniteSet(Docs)
    BY DEF KnowledgeBaseAssumption
<1>13. found \in Rows /\ c.sources \in Rows
    BY <1>1, <1>6, <1>7, <1>12, DistinctAreRows
<1> QED  BY <1>1, <1>3, <1>8, <1>9, <1>11, <1>13 DEF c, found

-----------------------------------------------------------------------------
(* Store and answers *)

VectorsOK == store \in SUBSET Vector /\ IsFiniteSet(store)

AnswerOK == answer \in {None} \cup Answer /\ AnswerIsGrounded

BaseInv == StoreInv /\ VectorsOK /\ AnswerOK

(* An answer is grounded when it is given (answer_policy_question). *)
LEMMA AnswerStep ==
    ASSUME KnowledgeBaseAssumption, VectorsOK, AnswerPolicyQuestion
    PROVE  AnswerOK'
<1>1. PICK hits \in Hits :
        answer' = LET context == AssembleContext(hits) IN
                  [found |-> SourceDocs(hits), abstained |-> hits = <<>>,
                   sources |-> context.sources, tokens |-> TextTokens(context)]
    BY DEF AnswerPolicyQuestion
<1> DEFINE n == IF Cardinality(store) < TopK THEN Cardinality(store) ELSE TopK
<1>2. n \in Nat /\ hits \in [1 .. n -> Vector]
    <2>1. Cardinality(store) \in Nat /\ TopK \in Nat
        BY FS_CardinalityType DEF VectorsOK, KnowledgeBaseAssumption
    <2>2. hits \in [1 .. n -> store]
        BY DEF Hits
    <2> HIDE DEF n
    <2> QED  BY <2>1, <2>2 DEF VectorsOK, n
<1> HIDE DEF n
<1> DEFINE c == AssembleContext(hits)
           found == SourceDocs(hits)
<1>3. /\ found \in Rows /\ c.sources \in Rows
      /\ found = <<>> <=> hits = <<>>
      /\ c.sources = <<>> <=> found = <<>>
      /\ IsPrefix(c.sources, found)
      /\ TextTokens(c) \in Nat
      /\ TextTokens(c) <= MaxContextTokens + Len(c.sources)
    BY <1>2, ContextIsGrounded
<1>4. answer' = [found |-> found, abstained |-> hits = <<>>, sources |-> c.sources, tokens |-> TextTokens(c)]
    BY <1>1
<1> HIDE DEF c, found
<1>5. answer' \in Answer
    <2>1. (hits = <<>>) \in BOOLEAN
        OBVIOUS
    <2> QED  BY <1>3, <1>4, <2>1 DEF Answer
<1>6. /\ answer'.found = found /\ answer'.abstained = (hits = <<>>)
      /\ answer'.sources = c.sources /\ answer'.tokens = TextTokens(c)
    BY <1>4
<1>7. FoundMeansNamed' /\ BudgetKept'
    BY <1>3, <1>6 DEF FoundMeansNamed, BudgetKept
<1> QED  BY <1>5, <1>7 DEF AnswerOK, AnswerIsGrounded

(* The vectors of a text are vectors, finitely many. *)
LEMMA VectorsOfType ==
    ASSUME KnowledgeBaseAssumption, NEW doc \in Docs, NEW text \in Texts
    PROVE  VectorsOf(doc, text) \subseteq Vector /\ IsFiniteSet(VectorsOf(doc, text))
<1> DEFINE m == Len(ChunksOf[text])
           v == [i \in 1 .. m |-> [doc |-> doc, index |-> i - 1, content |-> ChunksOf[text][i]]]
<1>1. ChunksOf[text] \in Seq(Contents) /\ m \in Nat
    BY DEF KnowledgeBaseAssumption
<1>2. VectorsOf(doc, text) \subseteq Vector
    BY <1>1 DEF VectorsOf, Vector
<1>3. v \in Surjection(1 .. m, VectorsOf(doc, text))
    BY DEF Surjection, VectorsOf
<1>4. IsFiniteSet(1 .. m)
    <2>1. 1 \in Int /\ m \in Int
        BY <1>1
    <2> QED  BY <2>1, FS_Interval, Zenon
<1> HIDE DEF v
<1>5. IsFiniteSet(VectorsOf(doc, text))
    BY <1>3, <1>4, FS_Surjection, Zenon
<1> QED  BY <1>2, <1>5

LEMMA BaseInvNext == KnowledgeBaseAssumption /\ BaseInv /\ [Next]_vars => BaseInv'
<1> SUFFICES ASSUME KnowledgeBaseAssumption, BaseInv, [Next]_vars PROVE BaseInv'
    OBVIOUS
<1>1. StoreInv'
    BY StoreInvNext DEF BaseInv
<1>2. VectorsOK'
    <2> USE DEF BaseInv, VectorsOK
    <2>1. CASE DeleteOldChunks
        <3>1. store' \subseteq store
            BY <2>1 DEF DeleteOldChunks
        <3> QED  BY <3>1, FS_Subset
    <2>2. CASE UpsertChunks
        <3> DEFINE new == VectorsOf(Current.doc, Current.text)
                   kept == {v \in store : \A w \in new : v.doc # w.doc \/ v.index # w.index}
        <3>1. Current \in Loaded
            BY <2>2 DEF UpsertChunks, StoreInv, LoadTypeOK, Ingesting, Current
        <3>2. new \subseteq Vector /\ IsFiniteSet(new)
            BY <3>1, VectorsOfType DEF Loaded
        <3>3. kept \subseteq store /\ store' = kept \cup new
            BY <2>2 DEF UpsertChunks
        <3> HIDE DEF new, kept
        <3>4. IsFiniteSet(kept)
            BY <3>3, FS_Subset
        <3>5. IsFiniteSet(kept \cup new)
            BY <3>2, <3>4, FS_Union
        <3> QED  BY <3>2, <3>3, <3>5
    <2>3. CASE store' = store
        BY <2>3
    <2> QED  BY <2>1, <2>2, <2>3 DEF Next, EditDocument, EditIndex, LoadAllDocuments, Abort,
                                     AnswerPolicyQuestion, vars
<1>3. AnswerOK'
    <2>1. CASE AnswerPolicyQuestion
        BY <2>1, AnswerStep DEF BaseInv
    <2>2. CASE answer' = answer
        BY <2>2 DEF BaseInv, AnswerOK, AnswerIsGrounded, FoundMeansNamed, BudgetKept
    <2> QED  BY <2>1, <2>2 DEF Next, EditDocument, EditIndex, LoadAllDocuments, DeleteOldChunks,
                               UpsertChunks, Abort, vars
<1> QED  BY <1>1, <1>2, <1>3 DEF BaseInv

LEMMA BaseInvAlways == Spec => []BaseInv
<1>1. Init => BaseInv
    <2> SUFFICES ASSUME Init PROVE BaseInv
        OBVIOUS
    <2>1. VectorsOK /\ AnswerOK
        BY FS_EmptySet DEF Init, VectorsOK, AnswerOK, AnswerIsGrounded, FoundMeansNamed, BudgetKept
    <2> QED  BY <2>1, StoreInvInit DEF BaseInv
<1> QED  BY <1>1, BaseInvNext, KnowledgeBaseAssumption, PTL DEF Spec

(* Store, ingestion and answer keep their types.                                                *)
THEOREM TypeCorrect == Spec => []TypeOK
<1>1. BaseInv => TypeOK
    BY DEF BaseInv, StoreInv, LoadTypeOK, VectorsOK, AnswerOK, TypeOK
<1> QED  BY <1>1, BaseInvAlways, PTL

(* An answer abstains exactly if nothing was found; otherwise it names the documents found, the *)
(* best ones first and each once, and its context keeps the budget (answer_policy_question,     *)
(* assemble_context).                                                                           *)
THEOREM AnswersAreGrounded == Spec => []AnswerIsGrounded
<1>1. BaseInv => AnswerIsGrounded
    BY DEF BaseInv, AnswerOK
<1> QED  BY <1>1, BaseInvAlways, PTL
=============================================================================
