SPECIFICATION Spec
CONSTANTS
  Docs = {d1, d2}
  Texts <- SomeTexts
  ChunksOf <- TextChunks
  TokensOf <- ContentTokens
  TopK = 2
  MaxContextTokens = 17
  MinExcerptTokens = 2
  TitleTokens = 1
  None = None
SYMMETRY Renaming
INVARIANT TypeOK
INVARIANT OneTextPerDocument
INVARIANT PassedIsCurrent
INVARIANT AnswerIsGrounded
