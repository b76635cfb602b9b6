\* Elections alone: three terms, packets of two rounds in flight, one crash.
SPECIFICATION Spec
CONSTANTS
    s1 = s1
    s2 = s2
    s3 = s3
    r1 = r1
    r2 = r2
    Nil = Nil
    Server = {s1, s2, s3}
    Request = {}
    MAX_APPEND_ENTRIES_N = 1
    MAX_OUTSTANDING_REQUESTS = 1
    Word = 64
    MaxLogLen = 1
    MaxTerm = 3
    MaxInFlight = 2
    MaxRestarts = 1
CHECK_DEADLOCK FALSE
SYMMETRY Symmetry
INVARIANTS
    TypeOK
    ElectionSafety
    ElectionInv
