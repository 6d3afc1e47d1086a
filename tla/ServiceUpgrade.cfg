SPECIFICATION FairSpec
CONSTANTS
    Bundle = {2, 4, 5}
    Legacy = TRUE
    Absent = Absent
    Torn = Torn
    Tears = TRUE
INVARIANTS RecordedBinaryKept SettledServiceIsRecorded RetainedHasJournal OutcomeTruthful
PROPERTIES VersionNeverBack UpgradeResumes
