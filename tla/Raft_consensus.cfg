SPECIFICATION MCSpec
CONSTANTS
    Nodes = {1, 2, 3}
    Proposals = {1, 2}
    ElectionTick = 2
    MaxEntries = 1
    MaxInflight = 4
    BatchSize = 2
    Ids = {1, 2, 3, 4}
    MaxChanges = 2
    Foci = {"conf", "elect", "unseat", "alone", "half", "missed", "batch", "put", "lag",
            "form", "restart", "leave"}
INVARIANTS OneLeader CommittedAgree StoreIsChosen RestoresExactly
PROPERTIES QuorumsMeet
CHECK_DEADLOCK FALSE
