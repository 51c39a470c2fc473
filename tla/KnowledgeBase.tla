--------------------------- MODULE KnowledgeBase ---------------------------
(***************************************************************************)
(* The knowledge base while documents change: ingestion of the documents   *)
(* listed in INDEX.md into the vector store (ai/rag/ingest.py, loader.py,  *)
(* vector_store.py) beside questions answered from that store              *)
(* (ai/agents/knowledge_base_agent).                                       *)
(*                                                                         *)
(* ChunksOf is what module Chunker computes.  A document's path, number    *)
(* and title identify it alike, as the rows of INDEX.md do.                *)
(***************************************************************************)
EXTENDS Naturals, Sequences, FiniteSets, SequencesExt

CONSTANTS Docs,                \* the documents
          Texts,               \* what may stand in them
          ChunksOf,            \* Texts -> the contents of a text's chunks, in order
          TokensOf,            \* content -> its length
          TopK,                \* retrieval.DEFAULT_TOP_K
          MaxContextTokens,    \* agent.MAX_CONTEXT_TOKENS
          MinExcerptTokens,    \* agent.assemble_context: room enough for an excerpt
          TitleTokens,         \* the length of the line that names a source
          None                 \* no answer yet

Contents == DOMAIN TokensOf

ASSUME KnowledgeBaseAssumption ==
    /\ IsFiniteSet(Docs)
    /\ ChunksOf \in [Texts -> Seq(Contents)]
    /\ TokensOf \in [Contents -> Nat]
    /\ TopK \in Nat /\ MaxContextTokens \in Nat /\ MinExcerptTokens \in Nat /\ TitleTokens \in Nat
    /\ MinExcerptTokens <= MaxContextTokens

VARIABLES
    files,      \* the text of every document
    manifest,   \* the rows of INDEX.md: the documents to be ingested, in order
    loaded,     \* ingestion: what load_all_documents read
    row,        \* ingestion: the document it is at; past the last one when it has ended
    deleted,    \* ingestion: the old vectors of that document are gone, the new ones not there yet
    store,      \* the vectors of the collection
    answer      \* what the agent made of the last question

vars == <<files, manifest, loaded, row, deleted, store, answer>>

Rows == {rows \in SeqOf(Docs, Cardinality(Docs)) : IsInjective(rows)}
Loaded == [doc : Docs, text : Texts]

\* chunk_id, the key of upsert, is the document and the chunk's number.
Vector == [doc : Docs, index : Nat, content : Contents]

VectorsOf(doc, text) ==
    {[doc |-> doc, index |-> i - 1, content |-> ChunksOf[text][i]] : i \in 1 .. Len(ChunksOf[text])}

\* The documents found and those named as sources, each of them once, and the length of the context.
Answer == [found : Rows, abstained : BOOLEAN, sources : Rows, tokens : Nat]

Stored(doc) == {v \in store : v.doc = doc}

Init ==
    /\ files \in [Docs -> Texts]
    /\ manifest \in Rows
    /\ loaded = <<>> /\ row = 1 /\ deleted = FALSE
    /\ store = {}
    /\ answer = None

-----------------------------------------------------------------------------
(* The authors *)

EditDocument ==
    /\ \E doc \in Docs, text \in Texts : files' = [files EXCEPT ![doc] = text]
    /\ UNCHANGED <<manifest, loaded, row, deleted, store, answer>>

EditIndex ==
    /\ manifest' \in Rows
    /\ UNCHANGED <<files, loaded, row, deleted, store, answer>>

-----------------------------------------------------------------------------
(* run_ingestion: one run at a time, started by hand or by the build of the image *)

Ingesting == row <= Len(loaded)

\* All documents are read before the first one is replaced.
LoadAllDocuments ==
    /\ ~Ingesting
    /\ loaded' = [i \in 1 .. Len(manifest) |-> [doc |-> manifest[i], text |-> files[manifest[i]]]]
    /\ row' = 1 /\ deleted' = FALSE
    /\ UNCHANGED <<files, manifest, store, answer>>

Current == loaded[row]

\* Fault: upsert alone, trusting that the ids of a document are those of its last ingestion.
NothingOld(doc) == {}

\* Fault: a document without chunks is passed over before its old vectors are deleted.
EmptyPassedOver(doc) == IF ChunksOf[Current.text] = <<>> THEN {} ELSE Stored(doc)

OldVectors(doc) == Stored(doc)

\* replace_document_chunks: delete by doc_id; a document without chunks needs no upsert.
DeleteOldChunks ==
    /\ Ingesting /\ ~deleted
    /\ store' = store \ OldVectors(Current.doc)
    /\ IF ChunksOf[Current.text] = <<>> THEN row' = row + 1 /\ UNCHANGED deleted
                                        ELSE deleted' = TRUE /\ UNCHANGED row
    /\ UNCHANGED <<files, manifest, loaded, answer>>

\* replace_document_chunks: upsert replaces the vectors that have the ids of the new ones.
UpsertChunks ==
    /\ Ingesting /\ deleted
    /\ LET new == VectorsOf(Current.doc, Current.text) IN
        store' = {v \in store : \A w \in new : v.doc # w.doc \/ v.index # w.index} \cup new
    /\ row' = row + 1 /\ deleted' = FALSE
    /\ UNCHANGED <<files, manifest, loaded, answer>>

\* Embedding fails or the process ends: what has been replaced stays, the rest is not.
Abort ==
    /\ Ingesting
    /\ loaded' = <<>> /\ row' = 1 /\ deleted' = FALSE
    /\ UNCHANGED <<files, manifest, store, answer>>

-----------------------------------------------------------------------------
(* vector_store.search and assemble_context *)

\* The vectors nearest to a question, best first: whatever the question, some order of some vectors.
Hits ==
    LET n == IF Cardinality(store) < TopK THEN Cardinality(store) ELSE TopK IN
    {hits \in [1 .. n -> store] : IsInjective(hits)}

\* Fault: a document is named once for every hit.
Ungrouped(hits) == [i \in 1 .. Len(hits) |-> hits[i].doc]

\* The documents of the hits, in the order of their best hit.
SourceDocs(hits) ==
    FoldLeft(LAMBDA docs, hit : IF hit.doc \in ToSet(docs) THEN docs ELSE Append(docs, hit.doc), <<>>, hits)

\* The distinct contents of a document's hits, best first.
MergedContent(hits, doc) ==
    FoldLeft(LAMBDA seen, hit : IF hit.doc # doc \/ hit.content \in ToSet(seen) THEN seen
                                ELSE Append(seen, hit.content), <<>>, hits)

BlockTokens(hits, doc) ==
    TitleTokens + FoldLeft(LAMBDA n, content : n + TokensOf[content], 0, MergedContent(hits, doc))

\* Fault: the room left is what the budget is, not what is left of it.
FullRoom(used) == MaxContextTokens

Room(used) == MaxContextTokens - used

\* Fault: the document that is cut is not counted among the sources.
UncitedExcerpt(context, doc) ==
    [context EXCEPT !.tokens = @ + Room(context.tokens), !.full = TRUE, !.cut = TRUE]

Excerpt(context, doc) ==
    [context EXCEPT !.tokens = @ + Room(context.tokens), !.sources = Append(@, doc),
                      !.full = TRUE, !.cut = TRUE]

AddBlock(hits, context, doc) ==
    LET tokens == BlockTokens(hits, doc) IN
    IF context.full THEN context
    ELSE IF context.tokens + tokens <= MaxContextTokens
         THEN [context EXCEPT !.tokens = @ + tokens, !.sources = Append(@, doc)]
    ELSE IF Room(context.tokens) < MinExcerptTokens THEN [context EXCEPT !.full = TRUE]
    ELSE Excerpt(context, doc)

AssembleContext(hits) ==
    FoldLeft(LAMBDA context, doc : AddBlock(hits, context, doc),
             [tokens |-> 0, sources |-> <<>>, full |-> FALSE, cut |-> FALSE], SourceDocs(hits))

\* The length of the prompt's context: what was counted, a line between any two documents, and a
\* mark where the last one was cut.
TextTokens(context) ==
    context.tokens + (IF context.sources = <<>> THEN 0 ELSE Len(context.sources) - 1)
                   + (IF context.cut THEN 1 ELSE 0)

\* answer_policy_question, where the LLM answers; where it fails there is no answer (CopilotGraph).
AnswerPolicyQuestion ==
    /\ \E hits \in Hits :
        answer' = LET context == AssembleContext(hits) IN
                  [found |-> SourceDocs(hits), abstained |-> hits = <<>>,
                   sources |-> context.sources, tokens |-> TextTokens(context)]
    /\ UNCHANGED <<files, manifest, loaded, row, deleted, store>>

Next ==
    \/ EditDocument \/ EditIndex
    \/ LoadAllDocuments \/ DeleteOldChunks \/ UpsertChunks \/ Abort
    \/ AnswerPolicyQuestion

Spec == Init /\ [][Next]_vars

-----------------------------------------------------------------------------

TypeOK ==
    /\ files \in [Docs -> Texts]
    /\ manifest \in Rows
    /\ loaded \in Seq(Loaded) /\ row \in 1 .. Len(loaded) + 1 /\ deleted \in BOOLEAN
    /\ store \in SUBSET Vector
    /\ answer \in {None} \cup Answer

(* At every moment, during an ingestion and after one that was cut short, a search finds of a   *)
(* document all chunks of one of its texts or none: never a mixture of two versions             *)
(* (replace_document_chunks).                                                                   *)
OneTextPerDocument ==
    \A doc \in Docs : Stored(doc) = {} \/ \E text \in Texts : Stored(doc) = VectorsOf(doc, text)

(* A document the ingestion has passed is in the store as it was read, whatever was there       *)
(* before, a longer text or an interrupted ingestion: re-ingestion is idempotent                *)
(* (vector_store.py:37-39).                                                                     *)
PassedIsCurrent ==
    \A i \in 1 .. row - 1 : Stored(loaded[i].doc) = VectorsOf(loaded[i].doc, loaded[i].text)

(* An answer without sources is only ever paired with abstaining (agent.py:114-116): if anything *)
(* was found, the best document is named and no document is named that was not found.           *)
FoundMeansNamed ==
    answer # None =>
        /\ answer.abstained <=> answer.found = <<>>
        /\ answer.abstained <=> answer.sources = <<>>
        /\ IsPrefix(answer.sources, answer.found)

(* The context stays within its budget, the names of the sources and the last, cut document       *)
(* included, but for one token for each document: the lines between the documents and the mark   *)
(* of the cut are not counted (assemble_context).                                                *)
BudgetKept == answer # None => answer.tokens <= MaxContextTokens + Len(answer.sources)

\* Together: what an answer rests on is named, in the order of its rank, and fits the context
\* that the model is given (agent.py, assemble_context).
AnswerIsGrounded == FoundMeansNamed /\ BudgetKept
=============================================================================
