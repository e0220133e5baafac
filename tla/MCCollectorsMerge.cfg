SPECIFICATION Spec
CONSTANTS
  t1 = t1
  t2 = t2
  c1 = c1
  c2 = c2
  x = x
  y = y
  z = z
  k = k
  Threads = {t1, t2}
  Capturers = {t1}
  Collectors = {c1, c2}
  Bases = {x, y, z, k}
  NameOf <- MCNameOf
  Unstable = {c2}
  Fallback = z
  Results <- MCResults
  MaxSuffix = 4
  MaxRegistered = 3
  NoThread = NoThread
  NoCollector = NoCollector
INVARIANTS NothingOverwritten
