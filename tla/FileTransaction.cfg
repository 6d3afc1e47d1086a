SPECIFICATION FairSpec
CONSTANTS
    NFiles = 2
    NRemoves = 1
    Atomic = FALSE
    Exposed = {1}
    PartialCreate = TRUE
    CrashCuts = {"lost", "partial", "bare", "whole"}
    CommitErrorCuts = {"lost", "partial"}
INVARIANTS TypeOK AllOrNothing OriginalsKept StatusTruthful
PROPERTIES OutcomeStable CommitDestroysNothing TakesEffectAtOnce RecoveryCompletes
