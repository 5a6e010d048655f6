CONSTANTS
    c1 = c1  c2 = c2
    Command = {c1}
    MaxSends = 2
    MaxChanges = 2
    MaxDrops = 2
    MaxAttempts = 2
    HistoryLimit = 4
    Faults = {"remove", "commandTimeout", "connectTimeout"}
SPECIFICATION FairSpec
INVARIANTS
    QuietIsCurrent
PROPERTIES
    OneByOne CommandsSettle CatchesUp
CHECK_DEADLOCK FALSE
