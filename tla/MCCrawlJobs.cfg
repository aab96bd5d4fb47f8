SPECIFICATION FairSpec
CONSTANTS
    Jobs = {j1, j2}
    Creators = {c1}
    Clients = {p1}
    MaxStored = 1
    NoJob = NoJob
INVARIANTS TypeOK SnapshotWhole
PROPERTIES SeenAdvances AcceptedEnds
CHECK_DEADLOCK FALSE
