SPECIFICATION FairSpec
CONSTANTS
    Nodes = {1, 2, 3}
    Proposals = {1, 2}
    ElectionTick = 2
    MaxEntries = 1
    MaxInflight = 4
    BatchSize = 2
    Ids = {1, 2, 3, 4}
    MaxChanges = 2
    Foci = {"live"}
PROPERTIES
    EventuallyReplicated
CHECK_DEADLOCK FALSE
