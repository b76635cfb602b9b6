\* Two crashes anywhere, torn writes included.
SPECIFICATION Spec
CONSTANTS
    s1 = s1
    s2 = s2
    s3 = s3
    r1 = r1
    r2 = r2
    Nil = Nil
    Server = {s1, s2, s3}
    Request = {r1, r2}
    MAX_APPEND_ENTRIES_N = 2
    MAX_OUTSTANDING_REQUESTS = 1
    Word = 64
    MaxLogLen = 2
    MaxTerm = 2
    MaxInFlight = 1
    MaxRestarts = 2
CHECK_DEADLOCK FALSE
SYMMETRY Symmetry
INVARIANTS
    ChosenOnMajority
    CommitInv
PROPERTY
    ImplementsStateMachine
