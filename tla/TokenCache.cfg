SPECIFICATION Spec
CONSTANTS
  None = None
  Server = Server
  u1 = u1
  u2 = u2
  sc = sc
  User = {u1, u2}
  Scope = {sc}
  Requests <- MCRequests
  MaxCalls = 3
INVARIANTS
  TypeOK
  SharedRequests
  StaysReplaced
  OwnTokens
PROPERTIES
  Renewed
