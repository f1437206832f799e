SPECIFICATION Spec
CONSTANTS
    Codes = {0, 1}
    Retries = 0
    Limit = 2
    None = None
CHECK_DEADLOCK FALSE
INVARIANTS
    TypeOK
    VerdictStands
    CodeIsReal
    QuietAfterVerdict
