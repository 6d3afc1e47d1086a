SPECIFICATION Spec
CONSTANTS
    Instances = 2
    Call = {0, 1, 2, 3, 4, 5}
    MaxKeepAlive = 2
    None = None
INVARIANT SafeToReopen
