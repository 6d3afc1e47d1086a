SPECIFICATION Spec
CONSTANTS
    NFiles = 2
    NRemoves = 1
    Atomic = TRUE
    Exposed = {1}
    PartialCreate = TRUE
    CrashCuts = {"lost", "partial", "bare", "whole"}
    CommitErrorCuts = {"lost", "partial"}
INVARIANTS ExecutableStays
