SPECIFICATION Spec
CONSTANTS
  ann = ann
  bob = bob
  NoUser = NoUser
  r1 = r1
  r2 = r2
  Users <- AnnAndBob
  Admins <- Ann
  Requests <- TwoRequests
  Conversations <- Two
  Owner <- OwnerOf
  Matching <- FirstOnly
  Entries <- Two
  PAGE_SIZE = 1
  MaxLogins = 2
INVARIANT TypeOK
INVARIANT OnlyOwnData
INVARIANT RefusedIsOver
INVARIANT ListIsShown
INVARIANT SpinnerHasRequest
CHECK_DEADLOCK FALSE
