SPECIFICATION McpFairSpec
CONSTANTS
  t1 = t1
  t2 = t2
  Threads <- Two
  MaxConns = 3
  MaxCalls = 3
INVARIANT McpTypeOK
PROPERTY OneUsableConnection
PROPERTY ClosedByOwnCall
PROPERTY EveryCallReturns
\* The bounds on calls and connections stop every thread in the end.
CHECK_DEADLOCK FALSE
