SPECIFICATION Spec
CONSTANTS
    t1 = t1
    t2 = t2
    k1 = k1
    k2 = k2
    Tasks = {t1, t2}
    Main = t1
    Keys = {k1, k2}
    Limits = {1, 2}
    MaxMade = 3
SYMMETRY Symmetric
INVARIANTS Scoped CrumbsAreNewest CaptureTakesNewest
PROPERTIES Isolated
