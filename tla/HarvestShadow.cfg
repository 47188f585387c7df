SPECIFICATION FairSpec
CONSTANTS
    MaxPolls = 2
    MaxErrors = 2
    MaxKills = 2
INVARIANTS
    IInv
    AgreeIsRight
    MissingExcused
PROPERTIES
    StuckExcused
    PendingIsJudged
CHECK_DEADLOCK FALSE
