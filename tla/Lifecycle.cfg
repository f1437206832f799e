SPECIFICATION FairSpec
CONSTANTS
    Unary = {u}
    Streams = {s1, s2}
    Approvals = {a1, a2}
    ApprovalEnabled = TRUE
CHECK_DEADLOCK FALSE
INVARIANTS
    TypeOK
    
    
PROPERTY ShutdownEnds
