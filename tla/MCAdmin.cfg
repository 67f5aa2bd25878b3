SPECIFICATION Spec
CHECK_DEADLOCK FALSE
CONSTANTS
    v1 = v1
    v2 = v2
    deployer = deployer
    keeper = keeper
    treasury = treasury
    reserve = reserve
    None = None
    Directory <- MCDirectory
    Deployed <- MCDeployed
    Operators <- MCOperators
    Key <- MCKey
    Commands <- MCCommands
    Samples <- MCSamples
    clawback_start_ts = 1
    FirstSlot = 3
    MaxTime = 1
    MaxFlight = 2
    MaxRuns = 2
INVARIANT DoneMeansHeld
PROPERTIES
    
    SlotTimed
