SPECIFICATION Spec
CONSTANTS
    e1 = e1
    e2 = e2
    e3 = e3
    Exceptions = {e1, e2, e3}
    Root = e1
    Nothing = Nothing
    Unreadable = Unreadable
    Groups <- MCGroups
    Situations <- MCSituations
    MaxLinks = 3
    MaxHeight = 4
SYMMETRY MCSymmetry
INVARIANTS EveryWayRecorded FilesShowRecord EndIsShown FingerprintIsOfTheRaise
CHECK_DEADLOCK FALSE
