SPECIFICATION FairSpec
CONSTANTS
  r1 = r1  r2 = r2  k1 = k1  t1 = t1  t2 = t2  c1 = c1  c2 = c2  c3 = c3  c4 = c4
  m1 = m1  m2 = m2  f1 = f1  f2 = f2  None = None
  Replica = {r1, r2}
  Key = {k1}
  Tag = {t1}
  TagsOf <- OneTag
  Reader = {c1, c2}
  Mutation = {m1}
  Flusher = {f1}
  At <- TwoReplicas
  KeyOf <- OneKey
  Writes <- AllWrite
  Forced = {}
  Uncached = {}
  Locking = {}
  OutOfBand = {}
  Attempts = 2
  MaxFaults = 2

PROPERTIES ReadsSettle QuarantineDrains
