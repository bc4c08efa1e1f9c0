SPECIFICATION Spec
CONSTANTS
  r1 = r1  r2 = r2  k1 = k1  t1 = t1  t2 = t2  c1 = c1  c2 = c2  c3 = c3  c4 = c4
  m1 = m1  m2 = m2  f1 = f1  f2 = f2  None = None
  Replica = {r1, r2}
  Key = {k1}
  Tag = {t1, t2}
  TagsOf <- TwoTags
  Reader = {c1, c3}
  Mutation = {m1, m2}
  Flusher = {f1}
  At <- TwoReplicas
  KeyOf <- OneKey
  Writes <- OneEach
  Forced = {}
  Uncached = {}
  Locking = {c1, c3}
  OutOfBand = {}
  Attempts = 1
  MaxFaults = 0
INVARIANTS TypeOK ReadSeesFence
PROPERTY FencedCacheSpec
