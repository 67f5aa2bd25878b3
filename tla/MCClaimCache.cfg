SPECIFICATION Spec
CONSTANTS
    t1 = t1
    t2 = t2
    notes = notes
    x = x
    y = y
    None = None
    Files <- MCFiles
    Readable <- MCReadable
    Nodes <- MCNodes
    Claimants <- MCClaimants
    Accounts <- TwoTrees
    MaxChanges = 2
    ChannelSize = 1
    MaxAttempts = 2
INVARIANTS
    LoadedSerially
    CacheTypeOK
PROPERTIES
    ServerStarts
    
    CacheCatchesUp
