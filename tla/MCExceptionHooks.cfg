SPECIFICATION Spec
CONSTANTS
    Loops = {l1}
    Exceptions = {x1}
    MaxMoves = 3
INVARIANTS NoneMissed CapturedOnce InstalledIsFirst
