SPECIFICATION FairSpec
CONSTANTS
    c1 = c1
    c2 = c2
    c3 = c3
    Calls = {c1, c2, c3}
    Executions <- MCExecutions
    Steps <- MCSteps
    Scripts = {"script"}
    Users <- MCUsers
    Fold <- MCFold
    Times <- MCTimes
    None = None
    Asked <- MCAsked
    Fresh <- MCFresh
CHECK_DEADLOCK FALSE
INVARIANTS
    TypeOK
    RunsOneAtATime
    VerdictNotOlder
    JobsWereApproved
    AnonymousNeverRuns
PROPERTIES
    RefinesSlots
    NamesComeFree
