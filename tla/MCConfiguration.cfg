SPECIFICATION ConfigSpec
CONSTANTS
    t1 = t1
    t2 = t2
    t3 = t3
    manifest = manifest
    file = file
    total = total
    Threads = {t1, t2, t3}
    Fields = {manifest, file, total}
    Values = {0, 1, 2}
    Minimum <- MCMinimum
    AtMost <- MCAtMost
    Default <- MCDefault
    Unset = Unset
SYMMETRY MCSymmetry
INVARIANTS InForceIsSet
