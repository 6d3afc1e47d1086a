SPECIFICATION Spec
CONSTANTS
    Slots = {s1}
    Workers = {w1}
    MayStop = TRUE
    s1 = s1
    w1 = w1
INVARIANT NoExitUnderCommit
