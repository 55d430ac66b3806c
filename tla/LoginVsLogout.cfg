SPECIFICATION Spec
CONSTANTS
  c1 = c1
  c2 = c2
  c3 = c3
  None = None
  App = App
  Call = {c1, c2, c3}
  Session = {s1, s2}
  Ops <- MCLoginVsLogout
  Serial = FALSE
  Envs = {FALSE}
  Rotates = TRUE
  Clock = {}
  FaultKinds = {"claims", "get", "del", "list"}
  MaxFaults = 1
SYMMETRY Symmetry
INVARIANTS
  SessionPaired
  KeyNamesCredential
