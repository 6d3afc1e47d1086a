SPECIFICATION FairSpec
CONSTANTS
    Name = {a, b}
    MaxGeneration = 2
    Absent = Absent
    Torn = Torn
    Tears = TRUE
    SetsAfterDamage = FALSE
    MayUnregister = TRUE
    a = a
    b = b
INVARIANTS SetAllOrNothing AnswerTruthful UndoAvailable GenerationKept NeverAmbiguous
PROPERTIES RegistryRecoveryCompletes
