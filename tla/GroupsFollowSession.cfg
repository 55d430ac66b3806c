SPECIFICATION Spec
CONSTANTS
  None = None
  c1 = c1
  c2 = c2
  t1 = t1
  a1 = a1
  a2 = a2
  d = d
  s1 = s1
  f1 = f1
  Client = {d, c1, c2}
  Tenant = {t1}
  Authority = {a1, a2, Rejected}
  Secret = {s1}
  File = {f1}
  DefaultClient = d
  DefaultTenant = t1
  DefaultAuthority = a1
  Rejected = Rejected
  Settings <- MCSettings
  Environments <- MCEnvironments
  MaxLogins = 2
INVARIANTS
  GroupsFollowSession
