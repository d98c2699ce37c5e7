SPECIFICATION Spec
CONSTANTS
    Callers = {"m", "o"}
    Names = {"n"}
    First = "n"
    Endpoints = {"e", "f"}
    Start <- AtE
    KeyOrder <- AllKeys
    Stored <- Bucket
    None = "none"
    Torn = "torn"
    Contents = {"new", "up", "file", "marker"}
    Jobs <- AllJobs
    Hasty = {"m", "o"}
    ListBuffer = 1
    MaxRetries = 2
INVARIANT AllListed
CHECK_DEADLOCK FALSE
