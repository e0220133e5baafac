SPECIFICATION Spec
CONSTANTS
  t1 = t1
  t2 = t2
  Tasks = {t1, t2}
  Main = t1
  MaxDepth <- MCMaxDepth
  MaxRaises = 2
INVARIANTS OriginalNeverReplaced
