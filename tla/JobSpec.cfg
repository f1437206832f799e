SPECIFICATION Spec
CONSTANTS
    Names <- MCNames
    None = None
    Bad = Bad
    Vars = {"A"}
    Sources = {"x", "y"}
    Paths <- MCPaths
    Half <- MCHalf
    Long <- MCLong
    SomeFiles <- MCFiles
    SomeEnvironments <- MCEnvironments
    SomeRequests <- MCRequests
CHECK_DEADLOCK FALSE
INVARIANTS
    TypeOK
    ResourcesBounded
    RetriesBounded
    DeadlineWithinWait
    VolumesMounted
    EnvResolved
    SettingsReachJob
