SPECIFICATION AggregateSpec
CONSTANTS
    alice = alice
    tester = tester
    typo = typo
    usdc = usdc
    sol = sol
    None = None
    Mints = {usdc, sol}
    Claimants <- MCClaimants
    TestList <- MCTestList
    Versions = {0}
    SortedPubkeys <- MCSortedPubkeys
    CsvRows <- MCCsvRows
    MarketRows <- MCMarketRows
    MaxMarketRows = 3
    TestAmount = 2
    MaxRows = 3
    Decimals = {1, 2}
    TreeSizes = {1, 2}
    MaxErrors = 1
    U64_MAX = 500
INVARIANTS
    
    FilesWellFormed
    MergedNothingLost
    OneLeafPerClaimant
