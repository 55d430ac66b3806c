SPECIFICATION Spec
CONSTANTS
  c1 = c1
  c2 = c2
  c3 = c3
  None = None
  App = App
  Call = {c1, c2}
  Session = {s1}
  Ops <- MCSessionVsTokens
  Serial = FALSE
  Envs = {FALSE}
  Rotates = TRUE
  Clock = {}
  FaultKinds = {}
  MaxFaults = 0
PROPERTIES
  OnlyLoginSignsIn
