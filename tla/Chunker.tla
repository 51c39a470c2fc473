------------------------------ MODULE Chunker ------------------------------
(***************************************************************************)
(* Section-aware chunking of one knowledge base document                   *)
(* (ai/rag/chunker.py): paragraphs become units, units are gathered into   *)
(* chunks whose number is fixed up front, and each chunk but the first     *)
(* begins with the last units of the one before it.                        *)
(*                                                                         *)
(* The loops of chunk_document are steps here, so that what holds of every *)
(* document can be proved by an invariant.  Text is abstracted to its      *)
(* number of tokens; a unit is known by its place in the document.         *)
(***************************************************************************)
EXTENDS Naturals, Sequences

CONSTANTS TargetChunkTokens, MinChunkTokens, MaxChunkTokens, OverlapTokens,
          Headings,   \* the H2 headings of documents
          Documents   \* documents: sequences of paragraphs

\* A paragraph of a section, its length, and the lengths of its sentences.
Paragraph == [heading : Headings, tokens : Nat, sentences : Seq(Nat)]

ASSUME ChunkerAssumption ==
    /\ TargetChunkTokens \in Nat \ {0}
    /\ MinChunkTokens \in Nat /\ MaxChunkTokens \in Nat /\ OverlapTokens \in Nat
    /\ Documents \subseteq Seq(Paragraph)

VARIABLES
    paragraphs,    \* what _build_units has yet to read
    units,         \* the units read so far
    total,         \* total_tokens, their length
    next,          \* the unit the loop of chunk_document takes next
    buffer,        \* the units of the chunk being gathered
    bufferTokens,  \* buffer_tokens
    carry,         \* flush: the trailing units of the buffer, for the next chunk
    carryTokens,   \* carry_tokens
    remaining,     \* remaining_chunks
    target,        \* per_chunk_target
    chunks,        \* the result
    pc,            \* the step to be taken
    resume         \* flush: where its caller goes on

chunkVars == <<paragraphs, units, total, next, buffer, bufferTokens, carry, carryTokens,
          remaining, target, chunks, pc, resume>>

Unit == [at : Nat, heading : Headings, tokens : Nat]
Chunk == [index : Nat, section : SUBSET Headings, content : Seq(Unit), tokens : Nat]

ChunkTypeOK ==
    /\ paragraphs \in Seq(Paragraph)
    /\ units \in Seq(Unit) /\ buffer \in Seq(Unit) /\ carry \in Seq(Unit)
    /\ total \in Nat /\ bufferTokens \in Nat /\ carryTokens \in Nat
    /\ next \in 1 .. Len(units) + 1
    /\ remaining \in Nat /\ target \in Nat
    /\ chunks \in Seq(Chunk)
    /\ pc \in {"build", "size", "unit", "append", "carry", "merge", "done"}
    /\ resume \in {"unit", "append"}

ChunkInit ==
    /\ paragraphs \in Documents
    /\ units = <<>> /\ buffer = <<>> /\ carry = <<>> /\ chunks = <<>>
    /\ total = 0 /\ bufferTokens = 0 /\ carryTokens = 0
    /\ next = 1 /\ remaining = 0 /\ target = 0
    /\ pc = "build" /\ resume = "unit"

-----------------------------------------------------------------------------
(* _build_units: a paragraph is one unit, or a unit per sentence if it alone exceeds the maximum. *)

Lengths(paragraph) ==
    IF paragraph.tokens <= MaxChunkTokens THEN <<paragraph.tokens>> ELSE paragraph.sentences

UnitsOf(paragraph) ==
    [i \in 1 .. Len(Lengths(paragraph)) |->
        [at |-> Len(units) + i, heading |-> paragraph.heading, tokens |-> Lengths(paragraph)[i]]]

BuildUnits ==
    /\ pc = "build" /\ paragraphs # <<>>
    /\ units' = units \o UnitsOf(Head(paragraphs))
    /\ total' = total + Head(paragraphs).tokens
    /\ paragraphs' = Tail(paragraphs)
    /\ UNCHANGED <<next, buffer, bufferTokens, carry, carryTokens, remaining, target,
                   chunks, pc, resume>>

Built ==
    /\ pc = "build" /\ paragraphs = <<>>
    /\ pc' = IF units = <<>> THEN "done" ELSE "size"
    /\ UNCHANGED <<paragraphs, units, total, next, buffer, bufferTokens, carry, carryTokens,
                   remaining, target, chunks, resume>>

-----------------------------------------------------------------------------
(* flush *)

HeadingsOf(content) == {content[i].heading : i \in 1 .. Len(content)}

\* Fault: a chunk that crosses a heading names only the one it starts in.
FirstHeading(content) == {content[1].heading}

JoinHeadings(content) == HeadingsOf(content)

NewChunk(content, tokens) ==
    [index |-> Len(chunks), section |-> JoinHeadings(content), content |-> content, tokens |-> tokens]

\* The buffer becomes a chunk, and the units to be carried are looked for from its end.
Flush(content, tokens, after) ==
    /\ chunks' = Append(chunks, NewChunk(content, tokens))
    /\ remaining' = remaining - 1
    /\ buffer' = content /\ bufferTokens' = tokens
    /\ carry' = <<>> /\ carryTokens' = 0
    /\ pc' = "carry" /\ resume' = after

Trailing == buffer[Len(buffer) - Len(carry)]   \* the next unit of reversed(buffer)

CarryLooksOn == Len(carry) < Len(buffer) /\ carryTokens < OverlapTokens

\* Fault: carried units are appended, in the order in which they are met.
ReversedCarry == Append(carry, Trailing)

LongerCarry == <<Trailing>> \o carry

CarryUnit ==
    /\ pc = "carry" /\ CarryLooksOn
    /\ carry' = LongerCarry
    /\ carryTokens' = carryTokens + Trailing.tokens
    /\ UNCHANGED <<paragraphs, units, total, next, buffer, bufferTokens, remaining, target,
                   chunks, pc, resume>>

Carried ==
    /\ pc = "carry" /\ ~CarryLooksOn
    /\ buffer' = carry /\ bufferTokens' = carryTokens
    /\ carry' = <<>> /\ carryTokens' = 0
    /\ pc' = resume
    /\ UNCHANGED <<paragraphs, units, total, next, remaining, target, chunks, resume>>

-----------------------------------------------------------------------------
(* chunk_document *)

Larger(a, b) == IF a > b THEN a ELSE b
Smaller(a, b) == IF a < b THEN a ELSE b
CeilDiv(a, b) == (a + b - 1) \div b

PlannedChunks == Larger(2, CeilDiv(total, TargetChunkTokens))   \* n_chunks

WholeDocument ==
    /\ pc = "size" /\ total <= MaxChunkTokens
    /\ chunks' = <<NewChunk(units, total)>>
    /\ next' = Len(units) + 1
    /\ pc' = "done"
    /\ UNCHANGED <<paragraphs, units, total, buffer, bufferTokens, carry, carryTokens,
                   remaining, target, resume>>

PreSize ==
    /\ pc = "size" /\ total > MaxChunkTokens
    /\ remaining' = PlannedChunks
    /\ target' = Larger(MinChunkTokens, Smaller(MaxChunkTokens, CeilDiv(total, PlannedChunks)))
    /\ pc' = "unit"
    /\ UNCHANGED <<paragraphs, units, total, next, buffer, bufferTokens, carry, carryTokens,
                   chunks, resume>>

Overflows ==
    remaining > 1 /\ buffer # <<>> /\ bufferTokens + units[next].tokens > MaxChunkTokens

FlushFirst ==
    /\ pc = "unit" /\ next <= Len(units) /\ Overflows
    /\ Flush(buffer, bufferTokens, "append")
    /\ UNCHANGED <<paragraphs, units, total, next, target>>

\* Fault: the unit that did not fit is forgotten when its chunk has been flushed.
ForgottenUnit == IF pc = "append" THEN buffer ELSE Append(buffer, units[next])

WithUnit == Append(buffer, units[next])

\* Fault: the last chunk does not absorb what is left.
AlwaysCutAtTarget(tokens) == tokens >= target

ReachesTarget(tokens) == remaining > 1 /\ tokens >= target

AppendUnit ==
    /\ pc = "append" \/ (pc = "unit" /\ next <= Len(units) /\ ~Overflows)
    /\ next' = next + 1
    /\ LET tokens == bufferTokens + units[next].tokens IN
        IF ReachesTarget(tokens)
        THEN Flush(WithUnit, tokens, "unit")
        ELSE /\ buffer' = WithUnit /\ bufferTokens' = tokens
             /\ pc' = "unit"
             /\ UNCHANGED <<carry, carryTokens, remaining, chunks, resume>>
    /\ UNCHANGED <<paragraphs, units, total, target>>

\* The units are used up: the rest of the buffer, possibly only a carry, is the last chunk.
FlushLast ==
    /\ pc = "unit" /\ next > Len(units)
    /\ chunks' = IF buffer = <<>> THEN chunks ELSE Append(chunks, NewChunk(buffer, bufferTokens))
    /\ pc' = "merge"
    /\ UNCHANGED <<paragraphs, units, total, next, buffer, bufferTokens, carry, carryTokens,
                   remaining, target, resume>>

Merged(prev, last) ==
    [index |-> prev.index, section |-> prev.section \cup last.section,
     content |-> prev.content \o last.content, tokens |-> prev.tokens + last.tokens]

FitsOne(prev, last) == prev.tokens + last.tokens <= MaxChunkTokens

\* A last chunk that is too small is folded into the one before it, if that stays within the maximum.
MergeLast ==
    /\ pc = "merge"
    /\ LET n == Len(chunks) IN
        chunks' =
            IF n > 1 /\ chunks[n].tokens < MinChunkTokens /\ FitsOne(chunks[n - 1], chunks[n])
            THEN Append(SubSeq(chunks, 1, n - 2), Merged(chunks[n - 1], chunks[n]))
            ELSE chunks
    /\ pc' = "done"
    /\ UNCHANGED <<paragraphs, units, total, next, buffer, bufferTokens, carry, carryTokens,
                   remaining, target, resume>>

ChunkNext ==
    \/ BuildUnits \/ Built \/ WholeDocument \/ PreSize
    \/ FlushFirst \/ AppendUnit \/ FlushLast
    \/ CarryUnit \/ Carried \/ MergeLast

ChunkSpec == ChunkInit /\ [][ChunkNext]_chunkVars

-----------------------------------------------------------------------------

\* The positions of a text are positions of the document, in its order and without a gap.
Contiguous(content) ==
    \A i \in 1 .. Len(content) - 1 : content[i + 1].at = content[i].at + 1

UnitsIn(content) == {content[i] : i \in 1 .. Len(content)}

(* No text of a document is lost: when a document has been chunked, every unit of it is in a    *)
(* chunk, however flushes, carries and the final merge fell (chunk_document).                   *)
NothingLost ==
    pc = "done" => \A i \in 1 .. Len(units) : \E k \in 1 .. Len(chunks) :
                        units[i] \in UnitsIn(chunks[k].content)

(* A chunk reads as the document does: until the final merge, every chunk is an excerpt without  *)
(* a gap, begins within the chunk before it or where that ends, and goes on past it or to the    *)
(* same end (flush, carry).                                                                     *)
ChunksAreExcerpts ==
    pc # "done" => \A k \in 1 .. Len(chunks) :
        LET content == chunks[k].content IN
        /\ content # <<>> /\ Contiguous(content)
        /\ k > 1 => LET prior == chunks[k - 1].content IN
                    /\ prior[1].at <= content[1].at
                    /\ content[1].at <= prior[Len(prior)].at + 1
                    /\ prior[Len(prior)].at <= content[Len(content)].at

(* A chunk names every heading its text spans and no other, the merged one included: a citation  *)
(* never attributes text to the wrong section (chunker.py:7-11).                                *)
SectionsNamed ==
    \A k \in 1 .. Len(chunks) : chunks[k].section = HeadingsOf(chunks[k].content)

(* Chunking ends with chunks numbered from 0 without a gap and at most as many as were planned, *)
(* so the ids of the vector store, made of these numbers, are distinct (chunk_id).              *)
NumberedAsPlanned ==
    /\ \A k \in 1 .. Len(chunks) : chunks[k].index = k - 1
    /\ Len(chunks) <= PlannedChunks

(* The metadata of every chunk is right: it is cited by its sections and stored by its number    *)
(* (chunk_id, _join_headings).                                                                  *)
ChunksAreLabelled == SectionsNamed /\ NumberedAsPlanned

\* Together: the chunks carry the whole text, under the headings that it stands under.
TextAndLabelsKept == NothingLost /\ ChunksAreLabelled

(* The balanced split leaves no fragment: the last two chunks never fit into one, so the final   *)
(* merge is a safety net that nothing falls into (chunk_document, "Safety net only").           *)
NoFragmentLeft ==
    (pc = "merge" /\ Len(chunks) > 1) => ~FitsOne(chunks[Len(chunks) - 1], chunks[Len(chunks)])

\* Together: the chunks are consecutive excerpts, and the last one is no fragment that would
\* have fitted into the one before it (chunk_document).
ChunksAreWhole == ChunksAreExcerpts /\ NoFragmentLeft

(* What the split relies on: sizes in proportion, as 500, 650, 800 and 100 are, and sentences     *)
(* that each fit a chunk and together are their paragraph.                                       *)
SizesInProportion ==
    /\ OverlapTokens > 0
    /\ MinChunkTokens <= TargetChunkTokens + 1
    /\ MaxChunkTokens <= 2 * (MinChunkTokens - 1)
    /\ MinChunkTokens + MaxChunkTokens <= 2 * TargetChunkTokens + 1

Divided(paragraph) ==
    paragraph.tokens > MaxChunkTokens =>
        LET n == Len(paragraph.sentences) IN
        /\ \A i \in 1 .. n : paragraph.sentences[i] <= MaxChunkTokens
        /\ \E sum \in [0 .. n -> 0 .. paragraph.tokens] :
              /\ sum[0] = 0 /\ sum[n] = paragraph.tokens
              /\ \A i \in 1 .. n : sum[i] = sum[i - 1] + paragraph.sentences[i]

SentencesFit == \A document \in Documents : \A i \in 1 .. Len(document) : Divided(document[i])
=============================================================================
