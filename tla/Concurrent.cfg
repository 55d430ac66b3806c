SPECIFICATION FairSpec
CONSTANTS
  c1 = c1
  c2 = c2
  c3 = c3
  None = None
  App = App
  Call = {c1, c2}
  Session = {s1}
  Ops <- MCMixed
  Serial = FALSE
  Envs = {TRUE}
  Rotates = TRUE
  Clock = {"token"}
  FaultKinds = {"get", "set", "del", "list", "crash"}
  MaxFaults = 1
INVARIANTS
  TypeOK
  Loaded
  KindsApart
PROPERTIES
  CallsEnd
  StepsAdvance
