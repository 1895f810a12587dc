SPECIFICATION FairSpec
CONSTANTS
  Edids <- MCEdids
  BlockSize = 20
INVARIANTS TypeOK WalkExact AnswersExact
PROPERTY WalkEnds
CHECK_DEADLOCK FALSE
