\* Crashes, power failures and kills at any system call, one of which may fail.
SPECIFICATION Spec
CONSTANTS
    a = a
    b = b
    Torn = Torn
    Entry = {a, b}
    MaxLength = 3
    MaxErrors = 1
INVARIANTS
    ReadsBack
    CrashLeavesPrefix
    AckedIsDurable
    DurableInv
