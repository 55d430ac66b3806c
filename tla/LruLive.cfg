SPECIFICATION FairSpec
CONSTANTS
  None = None
  Key = {k1, k2}
  Value = {v1}
  Thread = {t1}
  Elem = {e1, e2, e3}
  Size = 1
  Buffer = 1
  MaxTtl = 1
PROPERTIES
  ExpiredLeave
  CleanerEnds
