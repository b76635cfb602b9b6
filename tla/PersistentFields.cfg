\* Two peers, three terms, one failing call, kills and power failures anywhere.
SPECIFICATION Spec
CONSTANTS
    Peer = {p1, p2}
    Self = me
    NoVote = NoVote
    Short = Short
    None = None
    MaxTerm = 3
    MaxErrors = 1
INVARIANTS
    WritesInOrder
    VoteKept
    TermKept
    FieldsInv
