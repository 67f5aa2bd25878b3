SPECIFICATION DeploySpec
CONSTANTS
    NumShards = 2
    MaxVersion = 3
    MaxRuns = 3
    Absent = Absent
    Other = Other
    Opaque = Opaque
CHECK_DEADLOCK FALSE
INVARIANTS
    DeployTypeOK
    
    DeployedOnce
