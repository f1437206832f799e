SPECIFICATION FairSpec
CONSTANTS
    Calls = {c1, c2, c3}
    Executions <- OneExecution
    Steps <- OneStep
    Scripts = {"s1"}
    Users <- JustAnn
    Fold <- AnnFold
    ApproverLists <- Unlisted
    DefaultApprovers <- JustAnn
    Lifetime = 0
    MaxTime = 1
    Times <- MCTimes
    None = None
CHECK_DEADLOCK FALSE
INVARIANTS
    ClearedByApproval
    Accounted
PROPERTIES
    FinalUnlessOverlapped
    CallsAnswered
