SPECIFICATION FairSpec
CONSTANTS
  s1 = s1
  s2 = s2
  u1 = u1
  u2 = u2
  r1 = r1
  r2 = r2
  r3 = r3
  r4 = r4
  NoRow = NoRow
  Nobody = Nobody
  MaxRestarts = 1
  Sessions <- TwoSessions
  Users <- TwoUsers
  Requests <- ThreeRequests
INVARIANT TypeOK
INVARIANT ConversationIsItsTurns
PROPERTY ImplementsLog
PROPERTY EveryRequestReturns
\* All requests may have been served.
CHECK_DEADLOCK FALSE
