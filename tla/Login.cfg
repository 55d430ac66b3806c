SPECIFICATION FairLoginSpec
CONSTANTS
  ServerInterval = {0, 1, 3}
  MinPollInterval = 2
  DefaultMinPollInterval = 5
  SlowDownIncrement = 1
  DefaultSlowDownIncrement = 5
  Timeout = 6
  MaxSlowDowns = 2
INVARIANTS
  TypeOK
  Earned
  NeverStranded
  NeverStrandedLate
PROPERTIES
  Paced
  FallsBackWhenStuck
  CancelledStaysSilent
  EveryLoginEnds
  PromptEnds
CHECK_DEADLOCK FALSE
