SPECIFICATION FairSpec
CONSTANTS
  q1 = q1
  q2 = q2
  q3 = q3
  NoTurn = NoTurn
  Turns <- Three
  MaxLoads = 2
  MaxFetches = 2
INVARIANT TypeOK
INVARIANT OneQuestionAtATime
INVARIANT ConversationSurvives
PROPERTY SpinnersEnd
\* Every question may have been asked on the last load.
CHECK_DEADLOCK FALSE
