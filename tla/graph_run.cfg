SPECIFICATION Spec
CONSTANTS
  None = None
  Queries <- Questions
  Orders <- SampleOrders
  Today = 0
  MaxRetriesPerNode = 1
INVARIANT TypeOK
INVARIANT RunIsAccountable
INVARIANT ShortfallIsTold
