SPECIFICATION FairSpec
CONSTANTS
  r1 = r1
  r2 = r2
  Requests <- Two
  Workers = 1
  Handlers = 1
  MaxCrashes = 1
INVARIANT TypeOK
INVARIANT OutcomeIsTrue
PROPERTY NoSecondRun
PROPERTY TurnsEnd
\* All requests may have been answered.
CHECK_DEADLOCK FALSE
