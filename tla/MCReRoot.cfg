SPECIFICATION DfxSpec
CONSTANTS
    a = a
    b = b
    c = c
    r1 = r1
    r2 = r2
    r3 = r3
    burner_account = burner_account
    deployer = deployer
    keeper = keeper
    Debt = c
    Vault = Vault
    None = None
    Claimants = {a, b, c}
    Roots = {r1, r2, r3}
    Tree <- MCTree
    Admins = {deployer, keeper}
    Deployer = deployer
    Receivers = {burner_account}
    Params <- MCParams
    ReRoots = {}
    Deposits = {5, 10}
    EnableSlots = {0, 99}
    ClawbackTimes = {}
    ReRootable = TRUE
    SECONDS_PER_DAY = 1
    U64_MAX = 99
    MaxTime = 4
    MaxSlot = 0
    MaxFunded = 15
CHECK_DEADLOCK FALSE
INVARIANTS
    EntitlementsCovered
    HonestClaimsAccepted
    DebtHeld
    

    
