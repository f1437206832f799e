SPECIFICATION FairSpec
CONSTANTS
    Codes = {0, 1}
    Retries = 1
    Limit = 2
    None = None
CHECK_DEADLOCK FALSE
INVARIANTS
    SuccessIsReal
    FailureHasCause
    CodeIsReal
PROPERTY ExecuteReturns
