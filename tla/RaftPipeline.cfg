\* One leadership, two packets in flight: lost, late and reordered acknowledgements.
SPECIFICATION Spec
CONSTANTS
    s1 = s1
    s2 = s2
    s3 = s3
    r1 = r1
    r2 = r2
    Nil = Nil
    Server = {s1, s2, s3}
    Request = {r1, r2}
    MAX_APPEND_ENTRIES_N = 2
    MAX_OUTSTANDING_REQUESTS = 2
    Word = 64
    MaxLogLen = 2
    MaxTerm = 1
    MaxInFlight = 2
    MaxRestarts = 1
CHECK_DEADLOCK FALSE
SYMMETRY Symmetry
INVARIANTS
    MatchIndexTruthful
    StateMachineSafety
    AnsweredIsChosen
    
