SPECIFICATION PipeFairSpec
CONSTANTS
    Instances = 2
    Call = {c1, c2, c3}
    None = None
    c1 = c1
    c2 = c2
    c3 = c3
INVARIANTS HeldIsOwned AnswerGoesToSender
PROPERTIES CallEnds
CHECK_DEADLOCK FALSE
