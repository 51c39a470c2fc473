-------------------------- MODULE MCKnowledgeBase --------------------------
(* Two documents, each empty, short, or long with a repeated chunk; lengths in scale 1 : 50. *)
EXTENDS KnowledgeBase, TLC

SomeTexts == {"empty", "short", "long"}
TextChunks == ("empty" :> <<>>) @@ ("short" :> <<"a">>) @@ ("long" :> <<"b", "c", "b">>)
ContentTokens == ("a" :> 5) @@ ("b" :> 13) @@ ("c" :> 15)
Renaming == Permutations(Docs)
=============================================================================
