----------------------------- MODULE MCChunker -----------------------------
(* Every document of at most six paragraphs of five sizes, in scale 1 : 50. *)
EXTENDS Chunker, SequencesExt

Sizes == {1, 3, 5, 8, 17}   \* 17 exceeds the maximum: two sentences
HeadingAt == <<"A", "A", "B", "B", "A", "C">>

ParagraphOf(place, size) ==
    [heading |-> HeadingAt[place], tokens |-> size, sentences |-> IF size = 17 THEN <<9, 8>> ELSE <<size>>]

SomeDocuments ==
    {[i \in 1 .. Len(sizes) |-> ParagraphOf(i, sizes[i])] : sizes \in SeqOf(Sizes, 6)}
\* What NoFragmentIsLeft assumes of sizes and sentences, which the cfg's values satisfy.
ASSUME SizesAssumption == SizesInProportion
ASSUME SentencesAssumption == \A place \in 1 .. 6, size \in Sizes : Divided(ParagraphOf(place, size))

AllHeadings == {"A", "B", "C"}
=============================================================================
