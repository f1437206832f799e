SPECIFICATION Spec
CONSTANTS
    Calls = {c1, c2, c3}
    Executions <- OneExecution
    Steps <- TwoSteps
    Scripts = {"s1"}
    Users <- MCUsers
    Fold <- MCFold
    ApproverLists <- DefaultOrBob
    DefaultApprovers <- AnnOnly
    Lifetime = 0
    MaxTime = 1
    Times <- MCTimes
    None = None
SYMMETRY CallSymmetry
CHECK_DEADLOCK FALSE
INVARIANTS
    TypeOK
    DecisionsAuthorised
    DecisionsInTime
    DecisionsFaithful
PROPERTY RefinesRegister
