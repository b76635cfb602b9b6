\* One leadership, one crash, two packets in flight before the cluster settles.
SPECIFICATION ProgressSpec
CONSTANTS
    s1 = s1
    s2 = s2
    s3 = s3
    Nil = Nil
    Server = {s1, s2, s3}
    Request = {1, 2}
    MAX_APPEND_ENTRIES_N = 2
    MAX_OUTSTANDING_REQUESTS = 2
    Word = 64
    MaxLogLen = 2
    MaxTerm = 1
    MaxInFlight = 2
    MaxRestarts = 1
CHECK_DEADLOCK FALSE
PROPERTY
    HeldIsApplied
