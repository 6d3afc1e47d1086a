SPECIFICATION FairSpec
CONSTANTS
    Slots = {s1, s2}
    Workers = {w1, w2}
    MayStop = TRUE
    s1 = s1
    s2 = s2
    w1 = w1
    w2 = w2
INVARIANTS OneMutation StatusFinal CommittingIsCleared StopNotLost
PROPERTIES StopIsHonoured PrepareIsAnswered
