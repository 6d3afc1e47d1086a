SPECIFICATION FairSpec
CONSTANTS
    Manifest = {2, 4, 5}
    Absent = Absent
    Torn = Torn
    Tears = FALSE
INVARIANTS LastCommitStays BroughtIsAccepted
PROPERTIES GenerationNeverBack ServiceComesUp
