SPECIFICATION FairSpec
CONSTANTS
    Instances = 2
    Call = {0, 1, 2, 3, 4}
    MaxKeepAlive = 2
    None = None
INVARIANTS LauncherIsComplete OutcomeTruthful
PROPERTIES HelperEnds
