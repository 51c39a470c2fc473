SPECIFICATION ClockSpec
CONSTANTS
  None = None
  LastDay = 11
  KnownTiers <- AllTiers
  PromisedDays <- Promises
INVARIANT ClockTypeOK
INVARIANT VerdictIsSound
PROPERTY OnlyWorsens
\* The last day has no successor.
CHECK_DEADLOCK FALSE
