\* Words of 16 values; two entries fill the payload.
SPECIFICATION Spec
CONSTANTS
    Base = 2
    MAX_PAYLOAD = 56
    MAX_APPEND_ENTRIES_N = 2
    MaxLog = 4
INVARIANTS
    
    RoundTrip
    ReadsPacked
