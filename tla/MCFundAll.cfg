SPECIFICATION FundSpec
CONSTANTS
    a = a
    b = b
    r1 = r1
    r2 = r2
    treasury = treasury
    deployer = deployer
    Vault = Vault
    None = None
    Claimants = {a, b}
    Roots = {r1, r2}
    Tree <- MCTree
    Admins = {deployer}
    Deployer = deployer
    Receivers = {treasury}
    Params <- MCParams
    ReRoots <- MCReRoots
    Deposits = {3}
    EnableSlots = {0, 99}
    ClawbackTimes = {}
    ReRootable = TRUE
    SECONDS_PER_DAY = 1
    U64_MAX = 99
    MaxTime = 3
    MaxSlot = 0
    MaxFunded = 3
    FileTotal = 6
    MaxRuns = 3
CHECK_DEADLOCK FALSE
INVARIANTS
    CoveredIsSolvent
