SPECIFICATION ClaimSpec
CONSTANTS
    a = a
    b = b
    r1 = r1
    treasury = treasury
    deployer = deployer
    Vault = Vault
    None = None
    Claimants = {a, b}
    Roots = {r1}
    Tree <- MCTree
    Admins = {deployer}
    Deployer = deployer
    Receivers = {treasury}
    Params <- MCParams
    ReRoots = {}
    Deposits = {15}
    EnableSlots = {}
    ClawbackTimes = {}
    ReRootable = FALSE
    SECONDS_PER_DAY = 1
    U64_MAX = 99
    MaxTime = 8
    MaxSlot = 0
    MaxFunded = 15
    File = r1
    DefaultStart = 0
    DefaultEnd = 99
    StartPct = 50
    Users = {a}
CHECK_DEADLOCK FALSE
INVARIANTS
    
    NeverUnderReports
    QuotedIsPaid
    
PROPERTY
    ClaimantPaidOut
