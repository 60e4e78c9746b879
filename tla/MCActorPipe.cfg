SPECIFICATION FairSpec
CONSTANTS
  Hwm = 3
  MaxCommand = 4
  MaxEvent = 2
INVARIANTS TypeOK AnswersExpected CarefulCloseWaits
PROPERTIES NobodyHangs
CHECK_DEADLOCK FALSE
