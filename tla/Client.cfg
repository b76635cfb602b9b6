\* Three nodes (a ring of wrong hints), up to two requests under way.
SPECIFICATION Spec
CONSTANTS
    Node = {n1, n2, n3}
    NO_LEADER = NO_LEADER
    MaxSeqno = 2
INVARIANTS
    TypeOK
    AppendedOnce
    
    

    
