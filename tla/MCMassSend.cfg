SPECIFICATION Spec
CONSTANTS
    a1 = a1
    a2 = a2
    typo = typo
    None = None
    Torn = Torn
    Addresses <- MCAddresses
    Pubkeys <- MCPubkeys
    max_address_per_tx = 2
    max_address_per_resend = 1
    MaxTxs = 4
CHECK_DEADLOCK FALSE
INVARIANTS
    
    RecordsTrue
