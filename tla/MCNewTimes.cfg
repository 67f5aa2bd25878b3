SPECIFICATION Spec
CONSTANTS
    a = a
    b = b
    r1 = r1
    r2 = r2
    treasury = treasury
    deployer = deployer
    successor = successor
    Vault = Vault
    None = None
    Claimants = {a, b}
    Roots = {r1, r2}
    Tree <- MCTree
    Admins = {deployer, successor}
    Deployer = deployer
    Receivers = {treasury, Vault}
    Params <- MCParams
    ReRoots <- MCReRoots
    Deposits = {3, 6}
    EnableSlots = {0, 99}
    ClawbackTimes = {4, 5}
    ReRootable = TRUE
    SECONDS_PER_DAY = 1
    U64_MAX = 99
    MaxTime = 5
    MaxSlot = 1
    MaxFunded = 9
CHECK_DEADLOCK FALSE
PROPERTIES
    NewTimesInFuture
