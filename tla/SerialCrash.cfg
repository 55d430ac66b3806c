SPECIFICATION Spec
CONSTANTS
  c1 = c1
  c2 = c2
  c3 = c3
  None = None
  App = App
  Call = {c1}
  Session = {s1, s2, s3}
  Ops <- MCOneSlot
  Serial = TRUE
  Envs = {TRUE, FALSE}
  Rotates = TRUE
  Clock = {"token", "session"}
  FaultKinds = {"claims", "get", "set", "crash"}
  MaxFaults = 3
SYMMETRY Symmetry
INVARIANTS
  NoForeignTokens
PROPERTIES
  LoginRestores
  LogoutClears
  OnlyLoginSignsIn
