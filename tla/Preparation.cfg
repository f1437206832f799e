SPECIFICATION Spec
CONSTANTS
    MaxSize = 1
    MaxLines = 2
    Commands <- MCCommands
    BlockedCommands <- MCBlocked
    Calls = {c1, c2}
    Scripts <- MCScripts
    Empty = "empty"
    TextOf <- MCTextOf
    Places = {"p", "q"}
    Ids = {"i"}
    Refs = {"r"}
    Images <- MCImages
    PullSecrets = {"key", "own", "default"}
    ApprovedImages <- MCApproved
    BlockedImages <- MCBlockedImages
    DefaultImage = "base"
    DefaultPullSecret = "default"
    None = None
    Bad = Bad
    SomeClusters <- MCClusters
    SomeArguments <- MCArguments
    MaxEdits = 2
SYMMETRY CallSymmetry
CHECK_DEADLOCK FALSE
INVARIANTS
    TypeOK
    ScriptIsCurrent
    CommandsChecked
    CatalogIsCurrent
    ImageAllowed
